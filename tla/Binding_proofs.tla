--------------------------- MODULE Binding_proofs ---------------------------
(***************************************************************************)
(* Proof that every binding MakeBinding returns is correct, for lists of   *)
(* every length.                                                           *)
(*                                                                         *)
(* BindingCorrect speaks only of the returned binding; what makes it hold *)
(* is the loop invariant of lines 26-28: after idx iterations name2index_  *)
(* maps exactly the first idx names, each to the position of its last      *)
(* occurrence among them.  MapsLast states that without CHOOSE, and the    *)
(* lemma LastPosUnique turns it into the LastPos of the property.          *)
(***************************************************************************)
EXTENDS Binding, SequenceTheorems, TLAPS

USE BindingAssumption

\* m maps the names at positions 0..k-1 of s, each to its last position there.
MapsLast(s, k, m) ==
    /\ DOMAIN m = {s[j] : j \in 1..k}
    /\ \A n \in DOMAIN m :
          /\ m[n] \in 0..(k - 1)
          /\ s[m[n] + 1] = n
          /\ \A j \in (m[n] + 1)..(k - 1) : s[j + 1] # n

IInv ==
    /\ pc \in {"idle", "loop"}
    /\ names \in Seq(Names) /\ types \in Seq(Types)
    /\ idx \in Nat
    /\ pc = "loop" =>
          /\ Len(names) = Len(types)
          /\ idx <= Len(names)
          /\ MapsLast(names, idx, name2index)
    /\ outcome = "ok" =>
          /\ result.names \in Seq(Names) /\ result.types \in Seq(Types)
          /\ Len(result.names) = Len(result.types)
          /\ MapsLast(result.names, Len(result.names), result.name2index)

\* A list a caller passes is a sequence.
LEMMA ListIsSeq ==
    ASSUME NEW S, NEW s \in Lists(S)
    PROVE  s \in Seq(S)
<1>1. PICK k \in 0..MaxColumns : s \in [1..k -> S]
  BY DEF Lists
<1>. QED
  BY <1>1, SeqDef

\* The last position of a name is unique, so LastPos finds the one MapsLast gives.
LEMMA LastPosUnique ==
    ASSUME NEW S, NEW s \in Seq(S), NEW m, MapsLast(s, Len(s), m),
           NEW n \in DOMAIN m
    PROVE  LastPos(s, n) = m[n]
<1> DEFINE P(i) == /\ s[i + 1] = n
                   /\ \A j \in (i + 1)..(Len(s) - 1) : s[j + 1] # n
<1>1. m[n] \in 0..(Len(s) - 1) /\ P(m[n])
  BY DEF MapsLast
<1>2. \A i \in 0..(Len(s) - 1) : P(i) => i = m[n]
  BY <1>1
<1>3. LastPos(s, n) = CHOOSE i \in 0..(Len(s) - 1) : P(i)
  BY DEF LastPos
<1>. QED
  BY <1>1, <1>2, <1>3

LEMMA InitIInv == Init => IInv
  BY DEF Init, IInv

LEMMA CallIInv ==
    ASSUME IInv, NEW ns \in Lists(Names), NEW ts \in Lists(Types),
           NEW wt \in BOOLEAN, Call(ns, ts, wt)
    PROVE  IInv'
<1>1. ns \in Seq(Names) /\ ts \in Seq(Types)
  BY ListIsSeq
<1>2. CASE Len(ns) = Len(ts)
  <2>1. MapsLast(ns, 0, [n \in {} |-> 0])
    BY DEF MapsLast
  <2>. QED
    BY <1>1, <1>2, <2>1 DEF Call, IInv
<1>3. CASE Len(ns) # Len(ts)
  BY <1>3 DEF Call, IInv
<1>. QED
  BY <1>2, <1>3

LEMMA LoopStepIInv ==
    ASSUME IInv, LoopStep
    PROVE  IInv'
<1> DEFINE n0 == names[idx + 1]
           map == name2index
<1>1. pc = "loop" /\ idx < Len(names) /\ idx \in Nat
  BY DEF LoopStep, IInv
<1>2. MapsLast(names, idx, map)
  BY <1>1 DEF IInv
<1>3. name2index' = [x \in DOMAIN map \cup {n0} |-> IF x = n0 THEN idx ELSE map[x]]
  BY DEF LoopStep, Assign
<1>4. MapsLast(names, idx + 1, name2index')
  <2>1. DOMAIN name2index' = {names[j] : j \in 1..(idx + 1)}
    BY <1>1, <1>2, <1>3 DEF MapsLast
  <2>2. ASSUME NEW n \in DOMAIN name2index', n = n0
        PROVE  /\ name2index'[n] \in 0..((idx + 1) - 1)
               /\ names[name2index'[n] + 1] = n
               /\ \A j \in (name2index'[n] + 1)..((idx + 1) - 1) : names[j + 1] # n
    BY <1>1, <1>3, <2>2
  <2>3. ASSUME NEW n \in DOMAIN name2index', n # n0
        PROVE  /\ name2index'[n] \in 0..((idx + 1) - 1)
               /\ names[name2index'[n] + 1] = n
               /\ \A j \in (name2index'[n] + 1)..((idx + 1) - 1) : names[j + 1] # n
    <3>1. n \in DOMAIN map /\ name2index'[n] = map[n]
      BY <1>3, <2>3
    <3>2. map[n] \in 0..(idx - 1) /\ names[map[n] + 1] = n
          /\ \A j \in (map[n] + 1)..(idx - 1) : names[j + 1] # n
      BY <1>2, <3>1 DEF MapsLast
    <3>. QED
      BY <1>1, <2>3, <3>1, <3>2
  <2>4. \A n \in DOMAIN name2index' :
           /\ name2index'[n] \in 0..((idx + 1) - 1)
           /\ names[name2index'[n] + 1] = n
           /\ \A j \in (name2index'[n] + 1)..((idx + 1) - 1) : names[j + 1] # n
    BY <2>2, <2>3
  <2>. QED
    BY <2>1, <2>4 DEF MapsLast
<1>. QED
  BY <1>1, <1>4 DEF LoopStep, IInv

LEMMA ReturnIInv ==
    ASSUME IInv, Return
    PROVE  IInv'
<1>1. pc = "loop" /\ idx = Len(names)
  BY DEF Return
<1>2. MapsLast(names, Len(names), name2index) /\ Len(names) = Len(types)
  BY <1>1 DEF IInv
<1>. QED
  BY <1>1, <1>2 DEF Return, IInv

LEMMA NextIInv == IInv /\ [Next]_vars => IInv'
<1> SUFFICES ASSUME IInv, [Next]_vars PROVE IInv'
  OBVIOUS
<1>1. CASE \E ns \in Lists(Names), ts \in Lists(Types), wt \in BOOLEAN :
              Call(ns, ts, wt)
  BY <1>1, CallIInv
<1>2. CASE LoopStep
  BY <1>2, LoopStepIInv
<1>3. CASE Return
  BY <1>3, ReturnIInv
<1>4. CASE UNCHANGED vars
  BY <1>4 DEF vars, IInv, MapsLast
<1>. QED
  BY <1>1, <1>2, <1>3, <1>4 DEF Next

THEOREM IInvHolds == Spec => []IInv
  BY InitIInv, NextIInv, PTL DEF Spec

(***************************************************************************)
(* Binding::MakeBinding, for name and type lists of every length, returns  *)
(* bindings with as many types as names whose name2index_ maps exactly    *)
(* the listed names, each to its last position (last write wins).          *)
(***************************************************************************)
THEOREM BindingsCorrect == Spec => []BindingCorrect
<1>1. IInv => BindingCorrect
  <2> SUFFICES ASSUME IInv, outcome = "ok" PROVE BindingCorrect
    BY DEF BindingCorrect
  <2> DEFINE s == result.names
             m == result.name2index
  <2>1. s \in Seq(Names) /\ MapsLast(s, Len(s), m)
        /\ Len(s) = Len(result.types)
    BY DEF IInv
  <2>2. DOMAIN m = Range(s)
    <3>1. Range(s) = {s[j] : j \in 1..Len(s)}
      BY <2>1, RangeEquality
    <3>. QED
      BY <2>1, <3>1 DEF MapsLast
  <2>3. \A n \in Range(s) : m[n] = LastPos(s, n)
    BY <2>1, <2>2, LastPosUnique
  <2>. QED
    BY <2>1, <2>2, <2>3 DEF BindingCorrect
<1>. QED
  BY <1>1, IInvHolds, PTL

-----------------------------------------------------------------------------
(***************************************************************************)
(* Type correctness.  TypeOK is inductive by itself; what needs an        *)
(* argument is that the position LoopStep stores fits the map's range:    *)
(* idx < Len(names) and a list holds at most MaxColumns items.            *)
(***************************************************************************)

\* A list a caller passes has at most MaxColumns items.
LEMMA ListLen ==
    ASSUME NEW S, NEW s \in Lists(S)
    PROVE  s \in Seq(S) /\ Len(s) \in 0..MaxColumns
<1>1. PICK k \in 0..MaxColumns : s \in [1..k -> S]
  BY DEF Lists
<1>2. s \in Seq(S)
  BY <1>1, SeqDef
<1>3. DOMAIN s = 1..k /\ DOMAIN s = 1..Len(s) /\ Len(s) \in Nat
  BY <1>1, <1>2, LenProperties
<1>4. Len(s) = k
  <2>1. 1..Len(s) = 1..k
    BY <1>3
  <2>2. CASE k = 0
    BY <2>1, <2>2, <1>3
  <2>3. CASE k > 0
    <3>1. k \in 1..Len(s) /\ Len(s) \in 1..k
      BY <2>1, <2>3
    <3>. QED
      BY <3>1
  <2>. QED
    BY <2>2, <2>3
<1>. QED
  BY <1>2, <1>4

\* Storing a position for a name keeps name2index_ a map of NameMaps.
LEMMA AssignType ==
    ASSUME NEW m \in NameMaps, NEW n \in Names, NEW i \in Positions
    PROVE  Assign(m, n, i) \in NameMaps
<1>1. PICK D \in SUBSET Names : m \in [D -> Positions]
  BY DEF NameMaps
<1>2. Assign(m, n, i) \in [D \cup {n} -> Positions]
  BY <1>1 DEF Assign
<1>. QED
  BY <1>2 DEF NameMaps

LEMMA EmptyMap == [n \in {} |-> 0] \in NameMaps
<1>1. [n \in {} |-> 0] \in [{} -> Positions]
  OBVIOUS
<1>. QED
  BY <1>1 DEF NameMaps

LEMMA InitTypeOK == Init => TypeOK
<1> SUFFICES ASSUME Init PROVE TypeOK
  OBVIOUS
<1>1. << >> \in Lists(Names) /\ << >> \in Lists(Types)
  <2>1. << >> \in [1..0 -> Names] /\ << >> \in [1..0 -> Types]
    OBVIOUS
  <2>. QED
    BY <2>1 DEF Lists
<1>2. result \in Bindings
  BY <1>1, EmptyMap DEF Init, Bindings
<1>3. idx \in 0..MaxColumns
  BY DEF Init
<1>. QED
  BY <1>1, <1>2, <1>3, EmptyMap, Zenon DEF Init, TypeOK

LEMMA NextTypeOK == TypeOK /\ [Next]_vars => TypeOK'
<1> SUFFICES ASSUME TypeOK, [Next]_vars PROVE TypeOK'
  OBVIOUS
<1>1. ASSUME NEW ns \in Lists(Names), NEW ts \in Lists(Types),
             NEW wt \in BOOLEAN, Call(ns, ts, wt)
      PROVE  TypeOK'
  <2>1. CASE Len(ns) = Len(ts)
    BY <1>1, <2>1, EmptyMap DEF Call, TypeOK
  <2>2. CASE Len(ns) # Len(ts)
    BY <1>1, <2>2 DEF Call, TypeOK
  <2>. QED
    BY <2>1, <2>2
<1>2. CASE LoopStep
  <2>1. /\ idx < Len(names)
        /\ name2index' = Assign(name2index, names[idx + 1], idx)
        /\ idx' = idx + 1
        /\ UNCHANGED <<pc, names, types, withTable, result, outcome>>
    BY <1>2 DEF LoopStep
  <2>2. names \in Seq(Names) /\ Len(names) \in 0..MaxColumns
    BY ListLen DEF TypeOK
  <2>3. idx \in Positions /\ idx + 1 \in 0..MaxColumns
    BY <2>1, <2>2 DEF TypeOK, Positions
  <2>4. names[idx + 1] \in Names
    BY <2>1, <2>2, <2>3, ElementOfSeq DEF TypeOK
  <2>5. name2index' \in NameMaps
    BY <2>1, <2>3, <2>4, AssignType DEF TypeOK
  <2>. QED
    BY <2>1, <2>3, <2>5 DEF TypeOK
<1>3. CASE Return
  BY <1>3 DEF Return, TypeOK, Bindings
<1>4. CASE UNCHANGED vars
  BY <1>4 DEF vars, TypeOK
<1>. QED
  BY <1>1, <1>2, <1>3, <1>4 DEF Next

(***************************************************************************)
(* MakeBinding never stores a position outside 0..MaxColumns - 1 and       *)
(* always returns a binding of well-formed lists and a partial map from    *)
(* names to positions, whatever lists it is called with.                  *)
(***************************************************************************)
THEOREM TypeCorrect == Spec => []TypeOK
BY InitTypeOK, NextTypeOK, PTL DEF Spec

=============================================================================
