------------------------------- MODULE Binding -------------------------------
(***************************************************************************)
(* Binding::MakeBinding (src/src/planner/binding.cpp).                     *)
(*                                                                         *)
(* The binder calls MakeBinding once per table reference.  The call checks *)
(* that the name and type lists have the same length (PlannerAssert, an    *)
(* exception that discards the half-built binding), stores both lists and  *)
(* then fills name2index_ in one pass over the names; a later duplicate    *)
(* name overwrites an earlier one.  The overload taking a table pointer    *)
(* calls the first one and then stores the pointer.                        *)
(*                                                                         *)
(* The pass is modelled step by step (one LoopStep per iteration), so the  *)
(* state between iterations is visible; positions are 0-based as in the   *)
(* code, column_names[idx] being names[idx + 1].                           *)
(***************************************************************************)
EXTENDS Naturals, Sequences, Functions

CONSTANTS
    Names,          \* column names (model values)
    Types,          \* column data types (model values)
    MaxColumns      \* longest name or type list a caller passes

ASSUME BindingAssumption ==
    /\ Names # {} /\ Types # {}
    /\ MaxColumns \in Nat

VARIABLES
    pc,         \* "idle" between calls, "loop" inside the name2index_ loop
    names,      \* binding->column_names_
    types,      \* binding->column_types_
    idx,        \* the loop counter of line 26
    name2index, \* binding->name2index_, a function from names to positions
    withTable,  \* which overload was called (table_ptr_ is set at the end)
    result,     \* the binding the last successful call returned
    outcome     \* how the last call ended

vars == <<pc, names, types, idx, name2index, withTable, result, outcome>>

\* The lists a caller may pass: every sequence of at most MaxColumns items.
Lists(S) == UNION {[1..k -> S] : k \in 0..MaxColumns}

Positions == 0..(MaxColumns - 1)

\* The partial maps from names to positions an unordered_map can hold.
NameMaps == UNION {[D -> Positions] : D \in SUBSET Names}

Bindings == [names : Lists(Names), types : Lists(Types),
             name2index : NameMaps, table : BOOLEAN]

TypeOK ==
    /\ pc \in {"idle", "loop"}
    /\ names \in Lists(Names)
    /\ types \in Lists(Types)
    /\ idx \in 0..MaxColumns
    /\ name2index \in NameMaps
    /\ withTable \in BOOLEAN
    /\ result \in Bindings
    /\ outcome \in {"none", "ok", "PlannerError"}

Init ==
    /\ pc = "idle"
    /\ names = << >> /\ types = << >>
    /\ idx = 0
    /\ name2index = [n \in {} |-> 0]
    /\ withTable = FALSE
    /\ result = [names |-> << >>, types |-> << >>,
                 name2index |-> [n \in {} |-> 0], table |-> FALSE]
    /\ outcome = "none"

(***************************************************************************)
(* MakeBinding(..., column_types, column_names) and its table_ptr          *)
(* overload, lines 16-25 and 39: the binding is allocated, the lengths are *)
(* compared and, when they agree, both lists are copied in.  A failed      *)
(* PlannerAssert throws: nothing is kept.                                  *)
(***************************************************************************)
Call(ns, ts, wt) ==
    /\ pc = "idle"
    /\ IF Len(ns) = Len(ts)
         THEN /\ pc' = "loop"
              /\ names' = ns /\ types' = ts
              /\ idx' = 0
              /\ name2index' = [n \in {} |-> 0]
              /\ withTable' = wt
              /\ UNCHANGED outcome
         ELSE /\ outcome' = "PlannerError"
              /\ UNCHANGED <<pc, names, types, idx, name2index, withTable>>
    /\ UNCHANGED result

\* name2index_[column_names[idx]] = idx: insert, or overwrite a duplicate.
Assign(m, n, i) == [x \in DOMAIN m \cup {n} |-> IF x = n THEN i ELSE m[x]]

\* Faulty variants of LoopStep: a 1-based position stored (idx + 1), and an
\* insert that keeps the first occurrence of a duplicate (map.insert/emplace).
LoopStepOneBased ==
    /\ pc = "loop"
    /\ idx < Len(names)
    /\ name2index' = Assign(name2index, names[idx + 1], idx + 1)
    /\ idx' = idx + 1
    /\ UNCHANGED <<pc, names, types, withTable, result, outcome>>

LoopStepFirstWins ==
    /\ pc = "loop"
    /\ idx < Len(names)
    /\ name2index' = IF names[idx + 1] \in DOMAIN name2index THEN name2index
                     ELSE Assign(name2index, names[idx + 1], idx)
    /\ idx' = idx + 1
    /\ UNCHANGED <<pc, names, types, withTable, result, outcome>>

(***************************************************************************)
(* One iteration of the loop of lines 26-28.                               *)
(***************************************************************************)
LoopStep ==
    /\ pc = "loop"
    /\ idx < Len(names)
    /\ name2index' = Assign(name2index, names[idx + 1], idx)
    /\ idx' = idx + 1
    /\ UNCHANGED <<pc, names, types, withTable, result, outcome>>

(***************************************************************************)
(* The loop exits and the binding is returned (line 29); the table_ptr     *)
(* overload then stores the table pointer (line 40) before returning.      *)
(***************************************************************************)
Return ==
    /\ pc = "loop"
    /\ idx = Len(names)
    /\ result' = [names |-> names, types |-> types,
                   name2index |-> name2index, table |-> withTable]
    /\ pc' = "idle"
    /\ outcome' = "ok"
    /\ UNCHANGED <<names, types, idx, name2index, withTable>>

Next ==
    \/ \E ns \in Lists(Names), ts \in Lists(Types), wt \in BOOLEAN :
          Call(ns, ts, wt)
    \/ LoopStep
    \/ Return

Spec == Init /\ [][Next]_vars

-----------------------------------------------------------------------------
(***************************************************************************)
(* Reference definition: the position the last occurrence of n has in s   *)
(* (0-based), the position "last write wins" gives.                        *)
(***************************************************************************)
LastPos(s, n) == CHOOSE i \in 0..(Len(s) - 1) :
                    /\ s[i + 1] = n
                    /\ \A j \in (i + 1)..(Len(s) - 1) : s[j + 1] # n

(***************************************************************************)
(* Every binding MakeBinding returns has as many types as names, and its   *)
(* name2index_ maps exactly the names of the list, each to the position of *)
(* its last occurrence: a lookup by name finds that column, and duplicate  *)
(* names resolve by the last-write-wins policy spec section 3 allows.  It  *)
(* depends on the loop visiting every column, on the map being cleared at  *)
(* each call and on the length check coming before the copy.               *)
(***************************************************************************)
BindingCorrect ==
    outcome = "ok" =>
        /\ Len(result.names) = Len(result.types)
        /\ DOMAIN result.name2index = Range(result.names)
        /\ \A n \in Range(result.names) :
              result.name2index[n] = LastPos(result.names, n)

=============================================================================
