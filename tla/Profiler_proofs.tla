--------------------------- MODULE Profiler_proofs ---------------------------
(***************************************************************************)
(* Proofs about Profiler for every set of clock readings.                  *)
(*                                                                         *)
(* ElapsedNonNegative is not inductive: a Begin while finished_ holds an   *)
(* old end_ts_ would, on its face, make end_ts_ - begin_ts_ negative.  It  *)
(* follows from the clock being monotonic: both time points are readings   *)
(* not later than the clock, and a stopped watch was stopped after it was  *)
(* started.  The rendering is proved correct for every duration.           *)
(***************************************************************************)
EXTENDS Profiler, TLAPS

USE ProfilerAssumption

\* Both time points were read from the clock, the stop after the start.
Ordered ==
    /\ begin_ts <= now
    /\ end_ts <= now
    /\ finished => begin_ts <= end_ts

IInv == TypeOK /\ Ordered

LEMMA InitIInv == Init => IInv
<1> SUFFICES ASSUME Init PROVE IInv
  OBVIOUS
<1>1. TypeOK
  BY DEF Init, TypeOK
<1>2. Ordered
  BY DEF Init, Ordered
<1>. QED
  BY <1>1, <1>2 DEF IInv

LEMMA NextIInv == IInv /\ [Next]_vars => IInv'
<1> SUFFICES ASSUME IInv, [Next]_vars PROVE IInv'
  OBVIOUS
<1>. USE DEF IInv, TypeOK, Ordered
<1>1. CASE Tick
  <2>1. PICK t \in Times : t > now /\ now' = t
    BY <1>1 DEF Tick
  <2>. QED
    BY <1>1, <2>1 DEF Tick
<1>2. CASE Begin
  <2>1. TypeOK'
    BY <1>2 DEF Begin
  <2>2. begin_ts' <= now' /\ end_ts' <= now'
    BY <1>2 DEF Begin
  <2>3. ~finished'
    BY <1>2 DEF Begin
  <2>. QED
    BY <2>1, <2>2, <2>3
<1>3. CASE End
  BY <1>3 DEF End
<1>4. CASE UNCHANGED vars
  BY <1>4 DEF vars
<1>. QED
  BY <1>1, <1>2, <1>3, <1>4 DEF Next

THEOREM IInvHolds == Spec => []IInv
  BY InitIInv, NextIInv, PTL DEF Spec

(***************************************************************************)
(* Profiler::ElapsedInternal never reports a negative duration, whatever   *)
(* order Begin, End and the clock readings come in.                        *)
(***************************************************************************)
THEOREM ElapsedNeverNegative == Spec => []ElapsedNonNegative
<1>1. IInv => ElapsedNonNegative
  BY DEF IInv, TypeOK, Ordered, ElapsedNonNegative, ElapsedInternal
<1>. QED
  BY <1>1, IInvHolds, PTL

(***************************************************************************)
(* ElapsedToString renders every duration d >= 0 as d truncated to its     *)
(* unit: the count times the unit is at most d and less than one unit      *)
(* below it, the count is at most 1000 unless in seconds, and a positive   *)
(* duration never shows a zero count.                                      *)
(***************************************************************************)
LEMMA RenderingTruncates ==
    ASSUME NEW d \in Nat
    PROVE  LET r == ElapsedToString(d)
           IN  /\ r.unit \in Units
               /\ r.count * Scale(r.unit) <= d
               /\ d - r.count * Scale(r.unit) < Scale(r.unit)
               /\ r.unit # "s" => r.count <= 1000
               /\ d > 0 => r.count >= 1
<1>1. CASE d <= 1000
  BY <1>1 DEF ElapsedToString, Scale, Units
<1>2. CASE 1000 < d /\ d <= 1000 * 1000
  BY <1>2 DEF ElapsedToString, Scale, Units
<1>3. CASE 1000 * 1000 < d /\ d <= 1000 * 1000 * 1000
  BY <1>3 DEF ElapsedToString, Scale, Units
<1>4. CASE 1000 * 1000 * 1000 < d
  BY <1>4 DEF ElapsedToString, Scale, Units
<1>. QED
  BY <1>1, <1>2, <1>3, <1>4

(***************************************************************************)
(* The string Profiler shows is always the elapsed time truncated to a     *)
(* readable unit, for every clock.                                         *)
(***************************************************************************)
THEOREM AlwaysReadable == Spec => []ElapsedReadable
<1>1. IInv => ElapsedReadable
  <2> SUFFICES ASSUME IInv PROVE ElapsedReadable
    OBVIOUS
  <2>1. ElapsedInternal \in Nat
    BY DEF IInv, TypeOK, Ordered, ElapsedInternal
  <2>. QED
    BY <2>1, RenderingTruncates DEF ElapsedReadable
<1>. QED
  BY <1>1, IInvHolds, PTL

=============================================================================
