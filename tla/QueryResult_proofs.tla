-------------------------- MODULE QueryResult_proofs --------------------------
(***************************************************************************)
(* Proofs about QueryResult::ToString for every column and block count.   *)
(*                                                                         *)
(* RenderingCorrect speaks only of the state after return; it is not       *)
(* inductive, since the loops of lines 45-63 build the string over many    *)
(* steps.  The inductive invariant says what the stringstream holds at     *)
(* each point of each loop: inside the header loop, after idx names, the   *)
(* newline and the first idx names each followed by its separator (the     *)
(* last one without); inside the block loop, the whole header line and     *)
(* the first idx blocks.                                                   *)
(***************************************************************************)
EXTENDS QueryResult, SequenceTheorems, TLAPS

\* The header as the reference rendering has it.
Header(cs) == IF cs = << >> THEN << >> ELSE Joined(cs)

\* Length of the header written after the first k names of cs.
PrefixLen(cs, k) == IF k = Len(cs) /\ k > 0 THEN 2 * k - 1 ELSE 2 * k

\* What the header loop has written after the first k names of cs.
HeaderPrefix(cs, k) ==
    [i \in 1..PrefixLen(cs, k) |-> IF i % 2 = 1 THEN cs[(i + 1) \div 2] ELSE " "]

\* The header loop's separator after name k + 1 (line 47).
Sep(cs, k) == IF k # Len(cs) - 1 THEN <<" ">> ELSE << >>

HeaderLoop ==
    pc = "header" =>
        /\ rootType \notin DOMAIN Ack
        /\ idx \in 0..Len(columns)
        /\ ss = <<NL>> \o HeaderPrefix(columns, idx)

BlockLoop ==
    pc = "blocks" =>
        /\ rootType \notin DOMAIN Ack
        /\ idx \in 0..Len(blocks)
        /\ ss = <<NL>> \o Header(columns) \o <<NL>> \o SubSeq(blocks, 1, idx)

IInv ==
    /\ rootType \in RootTypes
    /\ columns \in Seq(ColumnNames)
    /\ blocks \in Seq(Blocks)
    /\ pc \in {"idle", "header", "blocks"}
    /\ HeaderLoop
    /\ BlockLoop
    /\ RenderingCorrect


USE QueryResultAssumption

-----------------------------------------------------------------------------
(* Lemmas about the operators the rendering is built from. *)

\* A result's column and block lists are sequences.
LEMMA ListIsSeq ==
    ASSUME NEW S, NEW n \in Nat, NEW s \in Lists(S, n)
    PROVE  s \in Seq(S)
<1>1. PICK k \in 0..n : s \in [1..k -> S]
  BY DEF Lists
<1>. QED
  BY <1>1, SeqDef

\* The header written so far is a sequence of pieces of the expected length.
LEMMA HeaderPrefixType ==
    ASSUME NEW cs \in Seq(ColumnNames), NEW k \in 0..Len(cs)
    PROVE  /\ HeaderPrefix(cs, k) \in Seq(Pieces)
           /\ Len(HeaderPrefix(cs, k)) = PrefixLen(cs, k)
<1>1. PrefixLen(cs, k) \in Nat /\ PrefixLen(cs, k) <= 2 * k
  BY DEF PrefixLen
<1>2. \A i \in 1..PrefixLen(cs, k) :
         (IF i % 2 = 1 THEN cs[(i + 1) \div 2] ELSE " ") \in Pieces
  <2> SUFFICES ASSUME NEW i \in 1..PrefixLen(cs, k), i % 2 = 1
               PROVE  cs[(i + 1) \div 2] \in Pieces
    BY DEF Pieces
  <2>1. (i + 1) \div 2 \in 1..Len(cs)
    BY <1>1
  <2>. QED
    BY <2>1, ElementOfSeq DEF Pieces
<1>3. HeaderPrefix(cs, k) \in [1..PrefixLen(cs, k) -> Pieces]
  BY <1>2 DEF HeaderPrefix
<1>. QED
  BY <1>1, <1>3, SeqDef, LenProperties

\* No name written yet: the header loop starts from nothing.
LEMMA HeaderPrefixEmpty ==
    ASSUME NEW cs \in Seq(ColumnNames)
    PROVE  HeaderPrefix(cs, 0) = << >>
<1>1. Len(HeaderPrefix(cs, 0)) = 0 /\ HeaderPrefix(cs, 0) \in Seq(Pieces)
  <2>1. PrefixLen(cs, 0) = 0
    BY DEF PrefixLen
  <2>. QED
    BY <2>1, HeaderPrefixType
<1>. QED
  BY <1>1, EmptySeq

\* Concatenation of pieces, with the sequence type fixed.
LEMMA ConcatPieces ==
    ASSUME NEW s1 \in Seq(Pieces), NEW s2 \in Seq(Pieces)
    PROVE  /\ s1 \o s2 \in Seq(Pieces)
           /\ Len(s1 \o s2) = Len(s1) + Len(s2)
           /\ \A i \in 1..(Len(s1) + Len(s2)) :
                 (s1 \o s2)[i] = IF i <= Len(s1) THEN s1[i] ELSE s2[i - Len(s1)]
BY ConcatProperties

\* Concatenation of pieces is associative.
LEMMA AssocPieces ==
    ASSUME NEW s1 \in Seq(Pieces), NEW s2 \in Seq(Pieces), NEW s3 \in Seq(Pieces)
    PROVE  (s1 \o s2) \o s3 = s1 \o (s2 \o s3)
BY ConcatAssociative

\* A single piece is a sequence of pieces.
LEMMA OnePiece ==
    ASSUME NEW e \in Pieces
    PROVE  <<e>> \in Seq(Pieces) /\ Len(<<e>>) = 1 /\ <<e>>[1] = e
<1>1. <<e>> \in [1..1 -> Pieces]
  OBVIOUS
<1>. QED
  BY <1>1, SeqDef

\* The separator is a space, or nothing after the last name.
LEMMA SepType ==
    ASSUME NEW cs, NEW k
    PROVE  /\ Sep(cs, k) \in Seq(Pieces)
           /\ Len(Sep(cs, k)) = IF k = Len(cs) - 1 THEN 0 ELSE 1
           /\ k # Len(cs) - 1 => Sep(cs, k)[1] = " "
<1>1. CASE k = Len(cs) - 1
  <2>1. Sep(cs, k) = << >>
    BY <1>1 DEF Sep
  <2>. QED
    BY <1>1, <2>1, EmptySeq
<1>2. CASE k # Len(cs) - 1
  <2>1. Sep(cs, k) = <<" ">> /\ " " \in Pieces
    BY <1>2 DEF Sep, Pieces
  <2>. QED
    BY <1>2, <2>1, OnePiece
<1>. QED
  BY <1>1, <1>2

\* One iteration of the header loop appends the next name and, unless it
\* is the last, a space.
LEMMA HeaderPrefixStep ==
    ASSUME NEW cs \in Seq(ColumnNames), NEW k \in 0..(Len(cs) - 1)
    PROVE  (HeaderPrefix(cs, k) \o <<cs[k + 1]>>) \o Sep(cs, k) =
              HeaderPrefix(cs, k + 1)
<1> DEFINE P == HeaderPrefix(cs, k)
           x == cs[k + 1]
           Q == P \o <<x>>
           L == Q \o Sep(cs, k)
           R == HeaderPrefix(cs, k + 1)
           last == k = Len(cs) - 1
<1>1. P \in Seq(Pieces) /\ Len(P) = 2 * k
  <2>1. PrefixLen(cs, k) = 2 * k
    BY DEF PrefixLen
  <2>. QED
    BY <2>1, HeaderPrefixType
<1>2. x \in Pieces
  <2>1. x \in ColumnNames
    BY ElementOfSeq
  <2>. QED
    BY <2>1 DEF Pieces
<1>3. <<x>> \in Seq(Pieces) /\ Len(<<x>>) = 1 /\ <<x>>[1] = x
  BY <1>2, OnePiece
<1>4. /\ Sep(cs, k) \in Seq(Pieces)
      /\ Len(Sep(cs, k)) = IF last THEN 0 ELSE 1
      /\ ~last => Sep(cs, k)[1] = " "
  BY SepType
<1>5. /\ Q \in Seq(Pieces) /\ Len(Q) = 2 * k + 1
      /\ \A i \in 1..(2 * k + 1) : Q[i] = IF i <= 2 * k THEN P[i] ELSE x
  <2>1. /\ Q \in Seq(Pieces) /\ Len(Q) = Len(P) + Len(<<x>>)
        /\ \A i \in 1..(Len(P) + Len(<<x>>)) :
              Q[i] = IF i <= Len(P) THEN P[i] ELSE <<x>>[i - Len(P)]
    BY <1>1, <1>3, ConcatPieces
  <2>. QED
    BY <2>1, <1>1, <1>3
<1>6. /\ L \in Seq(Pieces) /\ Len(L) = Len(Q) + Len(Sep(cs, k))
      /\ \A i \in 1..(Len(Q) + Len(Sep(cs, k))) :
            L[i] = IF i <= Len(Q) THEN Q[i] ELSE Sep(cs, k)[i - Len(Q)]
  BY <1>4, <1>5, ConcatPieces
<1>7. R \in Seq(Pieces) /\ Len(R) = PrefixLen(cs, k + 1)
  BY HeaderPrefixType
<1>8. Len(L) = Len(R) /\ Len(L) = IF last THEN 2 * k + 1 ELSE 2 * k + 2
  <2>1. Len(cs) \in Nat
    BY LenProperties
  <2>2. Len(L) = IF last THEN 2 * k + 1 ELSE 2 * k + 2
    <3>1. Len(L) = Len(Q) + Len(Sep(cs, k))
      BY <1>6
    <3>2. Len(Q) = 2 * k + 1
      BY <1>5
    <3>3. Len(Sep(cs, k)) = IF last THEN 0 ELSE 1
      BY <1>4
    <3>. QED
      BY <3>1, <3>2, <3>3
  <2>3. PrefixLen(cs, k + 1) = IF last THEN 2 * k + 1 ELSE 2 * k + 2
    BY <2>1 DEF PrefixLen
  <2>. QED
    BY <2>2, <2>3, <1>7
<1>9. ASSUME NEW i \in 1..Len(L) PROVE L[i] = R[i]
  <2>1. R[i] = IF i % 2 = 1 THEN cs[(i + 1) \div 2] ELSE " "
    BY <1>7, <1>8 DEF HeaderPrefix
  <2>2. CASE i <= 2 * k
    <3>1. L[i] = P[i]
      <4>1. i \in 1..(Len(Q) + Len(Sep(cs, k))) /\ i <= Len(Q)
        BY <2>2, <1>5, <1>6
      <4>2. L[i] = Q[i]
        BY <4>1, <1>6
      <4>3. Q[i] = P[i]
        BY <2>2, <1>5
      <4>. QED
        BY <4>2, <4>3
    <3>2. P[i] = IF i % 2 = 1 THEN cs[(i + 1) \div 2] ELSE " "
      <4>1. PrefixLen(cs, k) = 2 * k
        BY DEF PrefixLen
      <4>2. i \in 1..PrefixLen(cs, k)
        BY <2>2, <4>1, <1>8
      <4>. QED
        BY <4>2 DEF HeaderPrefix
    <3>. QED
      BY <2>1, <3>1, <3>2
  <2>3. CASE i = 2 * k + 1
    <3>1. L[i] = x
      <4>1. i \in 1..(Len(Q) + Len(Sep(cs, k))) /\ i <= Len(Q)
        BY <2>3, <1>5, <1>6
      <4>2. L[i] = Q[i]
        BY <4>1, <1>6
      <4>. QED
        BY <2>3, <4>2, <1>5
    <3>2. i % 2 = 1 /\ (i + 1) \div 2 = k + 1
      BY <2>3
    <3>. QED
      BY <2>1, <3>1, <3>2
  <2>4. CASE i = 2 * k + 2
    <3>1. ~last
      BY <2>4, <1>8
    <3>2. L[i] = Sep(cs, k)[1]
      <4>1. i \in 1..(Len(Q) + Len(Sep(cs, k))) /\ ~(i <= Len(Q))
        BY <2>4, <1>5, <1>6
      <4>2. L[i] = Sep(cs, k)[i - Len(Q)]
        BY <4>1, <1>6
      <4>3. i - Len(Q) = 1
        BY <2>4, <1>5
      <4>. QED
        BY <4>2, <4>3
    <3>3. ~(i % 2 = 1)
      BY <2>4
    <3>. QED
      BY <2>1, <3>1, <3>2, <3>3, <1>4
  <2>. QED
    BY <2>2, <2>3, <2>4, <1>8
<1>. QED
  BY <1>6, <1>7, <1>8, <1>9, SeqEqual

\* After every name the header loop has written the reference header.
LEMMA HeaderPrefixFull ==
    ASSUME NEW cs \in Seq(ColumnNames)
    PROVE  HeaderPrefix(cs, Len(cs)) = Header(cs)
<1>1. CASE cs = << >>
  <2>1. Len(cs) = 0
    BY <1>1
  <2>. QED
    BY <1>1, <2>1, HeaderPrefixEmpty DEF Header
<1>2. CASE cs # << >>
  <2>1. Len(cs) > 0
    BY <1>2, EmptySeq
  <2>2. PrefixLen(cs, Len(cs)) = 2 * Len(cs) - 1
    BY <2>1 DEF PrefixLen
  <2>. QED
    BY <1>2, <2>2 DEF HeaderPrefix, Header, Joined
<1>. QED
  BY <1>1, <1>2

\* The reference header is a sequence of pieces.
LEMMA HeaderType ==
    ASSUME NEW cs \in Seq(ColumnNames)
    PROVE  Header(cs) \in Seq(Pieces)
BY HeaderPrefixFull, HeaderPrefixType

\* One iteration of the block loop appends the next block.
LEMMA BlocksStep ==
    ASSUME NEW bs \in Seq(Blocks), NEW k \in 0..(Len(bs) - 1)
    PROVE  SubSeq(bs, 1, k) \o <<bs[k + 1]>> = SubSeq(bs, 1, k + 1)
<1>1. SubSeq(bs, 1, k + 1) = SubSeq(bs, 1, (k + 1) - 1) \o <<bs[k + 1]>>
  BY SubSeqRecursiveSecond
<1>. QED
  BY <1>1

\* The blocks rendered so far are a sequence of pieces.
LEMMA BlocksPrefixType ==
    ASSUME NEW bs \in Seq(Blocks), NEW k \in 0..Len(bs)
    PROVE  SubSeq(bs, 1, k) \in Seq(Pieces)
<1>1. \A i \in 1..k : bs[i] \in Pieces
  <2> SUFFICES ASSUME NEW i \in 1..k PROVE bs[i] \in Pieces
    OBVIOUS
  <2>1. i \in 1..Len(bs)
    BY LenProperties
  <2>. QED
    BY <2>1, ElementOfSeq DEF Pieces
<1>. QED
  BY <1>1, SubSeqProperties

-----------------------------------------------------------------------------
(* The inductive invariant, one lemma per action. *)

LEMMA InitIInv == Init => IInv
<1> SUFFICES ASSUME Init PROVE IInv
  OBVIOUS
<1>1. << >> \in Seq(ColumnNames) /\ << >> \in Seq(Blocks)
  BY EmptySeq
<1>. QED
  BY <1>1 DEF Init, IInv, RootTypes, HeaderLoop, BlockLoop, RenderingCorrect

LEMMA CallIInv ==
    ASSUME IInv, NEW k \in RootTypes,
           NEW cs \in Lists(ColumnNames, MaxColumns),
           NEW bs \in Lists(Blocks, MaxBlocks),
           CallToString(k, cs, bs)
    PROVE  IInv'
<1>1. /\ rootType' = k /\ columns' = cs /\ blocks' = bs
      /\ cs \in Seq(ColumnNames) /\ bs \in Seq(Blocks)
  BY ListIsSeq DEF CallToString
<1>2. CASE k \in DOMAIN Ack
  <2>1. out' = <<Ack[k]>> /\ pc' = pc /\ pc = "idle"
    BY <1>2 DEF CallToString
  <2>2. RenderingCorrect'
    BY <1>1, <1>2, <2>1 DEF RenderingCorrect, Rendering
  <2>. QED
    BY <1>1, <2>1, <2>2 DEF IInv, HeaderLoop, BlockLoop
<1>3. CASE k \notin DOMAIN Ack
  <2>1. ss' = <<NL>> /\ pc' = "header" /\ idx' = 0
    BY <1>3 DEF CallToString
  <2>2. <<NL>> \o HeaderPrefix(cs, 0) = <<NL>>
    <3>1. <<NL>> \in Seq(Pieces)
      BY OnePiece DEF Pieces
    <3>. QED
      BY <1>1, <3>1, HeaderPrefixEmpty, ConcatEmptySeq
  <2>3. 0 \in 0..Len(cs)
    BY <1>1, LenProperties
  <2>. QED
    BY <1>1, <1>3, <2>1, <2>2, <2>3
       DEF IInv, HeaderLoop, BlockLoop, RenderingCorrect
<1>. QED
  BY <1>2, <1>3

LEMMA HeaderStepIInv ==
    ASSUME IInv, HeaderStep
    PROVE  IInv'
<1> DEFINE P == HeaderPrefix(columns, idx)
           x == columns[idx + 1]
<1>1. /\ pc = "header" /\ idx < Len(columns)
      /\ ss' = (ss \o <<x>>) \o Sep(columns, idx)
      /\ idx' = idx + 1
      /\ UNCHANGED <<rootType, columns, blocks, pc, out>>
  BY DEF HeaderStep, Sep
<1>2. /\ columns \in Seq(ColumnNames)
      /\ rootType \notin DOMAIN Ack
      /\ idx \in 0..(Len(columns) - 1)
      /\ ss = <<NL>> \o P
  BY <1>1 DEF IInv, HeaderLoop
<1>3. /\ <<NL>> \in Seq(Pieces)
      /\ P \in Seq(Pieces)
      /\ <<x>> \in Seq(Pieces)
      /\ Sep(columns, idx) \in Seq(Pieces)
  <2>1. idx + 1 \in 1..Len(columns) /\ idx \in 0..Len(columns)
    BY <1>2, LenProperties
  <2>2. x \in ColumnNames
    BY <1>2, <2>1, ElementOfSeq
  <2>3. x \in Pieces /\ NL \in Pieces
    BY <2>2 DEF Pieces
  <2>4. P \in Seq(Pieces)
    BY <1>2, <2>1, HeaderPrefixType
  <2>. QED
    BY <2>3, <2>4, OnePiece, SepType
<1>4. ss' = <<NL>> \o ((P \o <<x>>) \o Sep(columns, idx))
  <2>1. (<<NL>> \o P) \o <<x>> = <<NL>> \o (P \o <<x>>)
    BY <1>3, ConcatAssociative
  <2>2. P \o <<x>> \in Seq(Pieces)
    BY <1>3, ConcatPieces
  <2>3. (<<NL>> \o (P \o <<x>>)) \o Sep(columns, idx)
          = <<NL>> \o ((P \o <<x>>) \o Sep(columns, idx))
    BY <1>3, <2>2, ConcatAssociative
  <2>. QED
    BY <1>1, <1>2, <2>1, <2>3
<1>5. ss' = <<NL>> \o HeaderPrefix(columns, idx + 1)
  BY <1>2, <1>4, HeaderPrefixStep
<1>6. HeaderLoop'
  <2>1. idx + 1 \in 0..Len(columns)
    BY <1>2, LenProperties
  <2>. QED
    BY <1>1, <1>2, <1>5, <2>1 DEF HeaderLoop
<1>. QED
  BY <1>1, <1>6 DEF IInv, BlockLoop, RenderingCorrect

LEMMA HeaderEndIInv ==
    ASSUME IInv, HeaderEnd
    PROVE  IInv'
<1> DEFINE H == Header(columns)
<1>1. /\ pc = "header" /\ idx = Len(columns)
      /\ ss' = ss \o <<NL>>
      /\ pc' = "blocks" /\ idx' = 0
      /\ UNCHANGED <<rootType, columns, blocks, out>>
  BY DEF HeaderEnd
<1>2. /\ columns \in Seq(ColumnNames) /\ blocks \in Seq(Blocks)
      /\ rootType \notin DOMAIN Ack
      /\ ss = <<NL>> \o H
  BY <1>1, HeaderPrefixFull DEF IInv, HeaderLoop
<1>3. (<<NL>> \o H) \o <<NL>> \in Seq(Pieces)
  <2>1. <<NL>> \in Seq(Pieces) /\ H \in Seq(Pieces)
    BY <1>2, OnePiece, HeaderType DEF Pieces
  <2>2. <<NL>> \o H \in Seq(Pieces)
    BY <2>1, ConcatPieces
  <2>. QED
    BY <2>1, <2>2, ConcatPieces
<1>4. SubSeq(blocks, 1, 0) = << >>
  BY SubSeqEmpty
<1>5. ss' = <<NL>> \o H \o <<NL>> \o SubSeq(blocks, 1, idx')
  BY <1>1, <1>2, <1>3, <1>4, ConcatEmptySeq
<1>6. BlockLoop'
  <2>1. 0 \in 0..Len(blocks)
    BY <1>2, LenProperties
  <2>. QED
    BY <1>1, <1>2, <1>5, <2>1 DEF BlockLoop
<1>. QED
  BY <1>1, <1>2, <1>6 DEF IInv, HeaderLoop, RenderingCorrect

\* The newline, the header and the newline before the first block.
LEMMA HeadType ==
    ASSUME NEW cs \in Seq(ColumnNames)
    PROVE  <<NL>> \o Header(cs) \o <<NL>> \in Seq(Pieces)
<1>1. <<NL>> \in Seq(Pieces) /\ Header(cs) \in Seq(Pieces)
  BY OnePiece, HeaderType DEF Pieces
<1>2. <<NL>> \o Header(cs) \in Seq(Pieces)
  BY <1>1, ConcatPieces
<1>. QED
  BY <1>1, <1>2, ConcatPieces

LEMMA BlockStepIInv ==
    ASSUME IInv, BlockStep
    PROVE  IInv'
<1> DEFINE X == <<NL>> \o Header(columns) \o <<NL>>
           b == blocks[idx + 1]
<1>1. /\ pc = "blocks" /\ idx < Len(blocks)
      /\ ss' = ss \o <<b>>
      /\ idx' = idx + 1
      /\ UNCHANGED <<rootType, columns, blocks, pc, out>>
  BY DEF BlockStep
<1>2. /\ columns \in Seq(ColumnNames) /\ blocks \in Seq(Blocks)
      /\ rootType \notin DOMAIN Ack
      /\ idx \in 0..(Len(blocks) - 1)
      /\ ss = X \o SubSeq(blocks, 1, idx)
  BY <1>1 DEF IInv, BlockLoop
<1>3. /\ X \in Seq(Pieces)
      /\ SubSeq(blocks, 1, idx) \in Seq(Pieces)
      /\ <<b>> \in Seq(Pieces)
  <2>1. idx + 1 \in 1..Len(blocks) /\ idx \in 0..Len(blocks)
    BY <1>2, LenProperties
  <2>2. b \in Pieces
    BY <1>2, <2>1, ElementOfSeq DEF Pieces
  <2>. QED
    BY <1>2, <2>1, <2>2, HeadType, BlocksPrefixType, OnePiece
<1>4. ss' = X \o (SubSeq(blocks, 1, idx) \o <<b>>)
  <2>1. ss' = (X \o SubSeq(blocks, 1, idx)) \o <<b>>
    BY <1>1, <1>2
  <2>2. (X \o SubSeq(blocks, 1, idx)) \o <<b>> = X \o (SubSeq(blocks, 1, idx) \o <<b>>)
    BY <1>3, AssocPieces
  <2>. QED
    BY <2>1, <2>2
<1>5. ss' = X \o SubSeq(blocks, 1, idx + 1)
  BY <1>2, <1>4, BlocksStep
<1>6. BlockLoop'
  <2>1. idx + 1 \in 0..Len(blocks)
    BY <1>2, LenProperties
  <2>. QED
    BY <1>1, <1>2, <1>5, <2>1 DEF BlockLoop
<1>. QED
  BY <1>1, <1>6 DEF IInv, HeaderLoop, RenderingCorrect

LEMMA ReturnIInv ==
    ASSUME IInv, Return
    PROVE  IInv'
<1>1. /\ pc = "blocks" /\ idx = Len(blocks)
      /\ out' = ss
      /\ pc' = "idle" /\ idx' = 0
      /\ UNCHANGED <<rootType, columns, blocks, ss>>
  BY DEF Return
<1>2. /\ columns \in Seq(ColumnNames) /\ blocks \in Seq(Blocks)
      /\ rootType \notin DOMAIN Ack
      /\ ss = <<NL>> \o Header(columns) \o <<NL>> \o SubSeq(blocks, 1, Len(blocks))
  BY <1>1 DEF IInv, BlockLoop
<1>3. SubSeq(blocks, 1, Len(blocks)) = blocks
  BY <1>2, SubSeqFull
<1>4. out' = Rendering(rootType, columns, blocks)
  BY <1>1, <1>2, <1>3 DEF Rendering, Header
<1>5. RenderingCorrect'
  BY <1>1, <1>4 DEF RenderingCorrect
<1>. QED
  BY <1>1, <1>5 DEF IInv, HeaderLoop, BlockLoop

LEMMA NextIInv == IInv /\ [Next]_vars => IInv'
<1> SUFFICES ASSUME IInv, [Next]_vars PROVE IInv'
  OBVIOUS
<1>1. CASE \E k \in RootTypes, cs \in Lists(ColumnNames, MaxColumns),
             bs \in Lists(Blocks, MaxBlocks) : CallToString(k, cs, bs)
  BY <1>1, CallIInv
<1>2. CASE HeaderStep
  BY <1>2, HeaderStepIInv
<1>3. CASE HeaderEnd
  BY <1>3, HeaderEndIInv
<1>4. CASE BlockStep
  BY <1>4, BlockStepIInv
<1>5. CASE Return
  BY <1>5, ReturnIInv
<1>6. CASE UNCHANGED vars
  BY <1>6 DEF vars, IInv, HeaderLoop, BlockLoop, RenderingCorrect
<1>. QED
  BY <1>1, <1>2, <1>3, <1>4, <1>5, <1>6 DEF Next

\* The loop invariant holds in every reachable state.
THEOREM IInvHolds == Spec => []IInv
BY InitIInv, NextIInv, PTL DEF Spec

(***************************************************************************)
(* QueryResult::ToString (lines 24-66) returns, for every number of        *)
(* columns and blocks, the rendering spec 6 prescribes: the fixed          *)
(* acknowledgement for an INSERT, UPDATE or DELETE root, otherwise a       *)
(* newline, the column names with exactly one space between two of them   *)
(* and none after the last, a newline and every data block in order.      *)
(***************************************************************************)
THEOREM RenderingAlwaysCorrect == Spec => []RenderingCorrect
BY IInvHolds, PTL DEF IInv

=============================================================================
