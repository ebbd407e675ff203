----------------------------- MODULE QueryResult -----------------------------
(***************************************************************************)
(* QueryResult::ToString (src/src/main/query_context.cpp, lines 24-66).     *)
(*                                                                         *)
(* For an INSERT, UPDATE or DELETE root the method returns a fixed         *)
(* acknowledgement.  For any other root it writes a newline, the column    *)
(* names separated by single spaces (no separator after the last one), a   *)
(* newline, and then the rendering of every data block of result_.  The    *)
(* stringstream is modelled as the sequence of pieces written to it: a     *)
(* column name, a DataBlock rendering (DataBlock::ToString, outside this   *)
(* excerpt, is an opaque piece), " " or the newline NL.  Each loop         *)
(* iteration is one step, so the order of writes is visible.               *)
(***************************************************************************)
EXTENDS Naturals, Sequences

CONSTANTS
    ColumnNames,   \* column names result_ may report (model values)
    Blocks,        \* renderings of data blocks (model values)
    MaxColumns,    \* bound: columns of a result
    MaxBlocks      \* bound: data blocks of a result

ASSUME QueryResultAssumption ==
    /\ ColumnNames # {} /\ Blocks # {}
    /\ MaxColumns \in Nat /\ MaxBlocks \in Nat

NL == "\n"

\* LogicalNodeType values of the root: the three DML kinds and one other.
RootTypes == {"Insert", "Update", "Delete", "Projection"}

\* The acknowledgements of lines 29-37.
Ack == [k \in {"Insert", "Update", "Delete"} |->
          CASE k = "Insert" -> "INSERT 0 1"
            [] k = "Update" -> "UPDATE 0 1"
            [] k = "Delete" -> "DELETE 0 1"]

VARIABLES
    rootType,   \* root_operator_type_
    columns,    \* the column names result_ reports, in id order
    blocks,     \* the renderings of result_'s data blocks, in id order
    pc,         \* "idle", "header" (loop of line 45), "blocks" (loop of line 58)
    idx,        \* the loop counter of the loop being run
    ss,         \* what has been written to the stringstream
    out         \* the string the last call returned

vars == <<rootType, columns, blocks, pc, idx, ss, out>>

Lists(S, n) == UNION {[1..k -> S] : k \in 0..n}

Pieces == ColumnNames \cup Blocks \cup {" ", NL}

TypeOK ==
    /\ rootType \in RootTypes
    /\ columns \in Lists(ColumnNames, MaxColumns)
    /\ blocks \in Lists(Blocks, MaxBlocks)
    /\ pc \in {"idle", "header", "blocks"}
    /\ idx \in 0..(MaxColumns + MaxBlocks)
    /\ ss \in Seq(Pieces)
    /\ out \in Seq(Pieces) \cup {<<Ack[k]>> : k \in DOMAIN Ack}

Init ==
    /\ rootType = "Projection"
    /\ columns = << >> /\ blocks = << >>
    /\ pc = "idle" /\ idx = 0
    /\ ss = << >> /\ out = << >>

(***************************************************************************)
(* A call of ToString on a result with root type k, columns cs and blocks  *)
(* bs: the switch of lines 28-41.                                          *)
(***************************************************************************)
CallToString(k, cs, bs) ==
    /\ pc = "idle"
    /\ rootType' = k /\ columns' = cs /\ blocks' = bs
    /\ IF k \in DOMAIN Ack
         THEN /\ out' = <<Ack[k]>>
              /\ UNCHANGED <<pc, idx, ss>>
         ELSE /\ ss' = <<NL>>
              /\ pc' = "header" /\ idx' = 0
              /\ UNCHANGED out

\* Faulty variant: the separator test compares with column_count.
HeaderStepTrailingSpace ==
    /\ pc = "header"
    /\ idx < Len(columns)
    /\ ss' = ss \o <<columns[idx + 1]>>
                \o (IF idx # Len(columns) THEN <<" ">> ELSE << >>)
    /\ idx' = idx + 1
    /\ UNCHANGED <<rootType, columns, blocks, pc, out>>

\* One iteration of the column-name loop, lines 45-51.
HeaderStep ==
    /\ pc = "header"
    /\ idx < Len(columns)
    /\ ss' = ss \o <<columns[idx + 1]>>
                \o (IF idx # Len(columns) - 1 THEN <<" ">> ELSE << >>)
    /\ idx' = idx + 1
    /\ UNCHANGED <<rootType, columns, blocks, pc, out>>

\* The header loop exits: the newline of line 52, then the block loop starts.
HeaderEnd ==
    /\ pc = "header"
    /\ idx = Len(columns)
    /\ ss' = ss \o <<NL>>
    /\ pc' = "blocks" /\ idx' = 0
    /\ UNCHANGED <<rootType, columns, blocks, out>>

\* One iteration of the block loop, lines 58-63.
BlockStep ==
    /\ pc = "blocks"
    /\ idx < Len(blocks)
    /\ ss' = ss \o <<blocks[idx + 1]>>
    /\ idx' = idx + 1
    /\ UNCHANGED <<rootType, columns, blocks, pc, out>>

\* return ss.str(), line 65.
Return ==
    /\ pc = "blocks"
    /\ idx = Len(blocks)
    /\ out' = ss
    /\ pc' = "idle" /\ idx' = 0
    /\ UNCHANGED <<rootType, columns, blocks, ss>>

Next ==
    \/ \E k \in RootTypes, cs \in Lists(ColumnNames, MaxColumns),
          bs \in Lists(Blocks, MaxBlocks) : CallToString(k, cs, bs)
    \/ HeaderStep \/ HeaderEnd \/ BlockStep \/ Return

Spec == Init /\ [][Next]_vars

-----------------------------------------------------------------------------
(***************************************************************************)
(* Reference rendering (spec 6): the names joined by single spaces, built  *)
(* position by position: odd positions hold names, even ones a space.      *)
(***************************************************************************)
Joined(cs) == [i \in 1..(2 * Len(cs) - 1) |->
                 IF i % 2 = 1 THEN cs[(i + 1) \div 2] ELSE " "]

Rendering(k, cs, bs) ==
    IF k \in DOMAIN Ack THEN <<Ack[k]>>
    ELSE <<NL>> \o (IF cs = << >> THEN << >> ELSE Joined(cs)) \o <<NL>> \o bs

(***************************************************************************)
(* Whenever ToString returns, its string is what spec 6 prescribes for     *)
(* the root type and result it rendered: the fixed acknowledgement for a   *)
(* DML root whatever the result holds (end-to-end scenario 2), otherwise   *)
(* a header with exactly one space between column names and none after    *)
(* the last, then every block in order.                                    *)
(***************************************************************************)
RenderingCorrect ==
    pc = "idle" /\ out # << >> => out = Rendering(rootType, columns, blocks)

=============================================================================
