------------------------------ MODULE Profiler ------------------------------
(***************************************************************************)
(* Profiler (src/src/main/profiler.cpp): a stopwatch.  Begin records the   *)
(* start and clears finished_, End records the stop and sets finished_,    *)
(* ElapsedInternal measures to the stop once finished and to the clock     *)
(* otherwise, and ElapsedToString renders the nanosecond count in the      *)
(* largest unit it exceeds, truncating as std::chrono::duration_cast does. *)
(*                                                                         *)
(* Now() is declared in profiler.h, outside this excerpt; the clock is     *)
(* modelled as a monotonic nanosecond counter that jumps between readings  *)
(* of the finite set Times, chosen to straddle every unit boundary.  The   *)
(* time points are value-initialised, i.e. the clock's epoch (0).          *)
(***************************************************************************)
EXTENDS Integers

CONSTANT Times   \* clock readings in nanoseconds

ASSUME ProfilerAssumption == Times \subseteq Nat /\ 0 \in Times

VARIABLES
    now,        \* the clock Now() reads
    finished,   \* finished_
    begin_ts,   \* begin_ts_
    end_ts      \* end_ts_

vars == <<now, finished, begin_ts, end_ts>>

Units == {"ns", "us", "ms", "s"}

\* Nanoseconds per unit.
Scale(u) == CASE u = "ns" -> 1 [] u = "us" -> 1000
              [] u = "ms" -> 1000 * 1000 [] u = "s" -> 1000 * 1000 * 1000

TypeOK ==
    /\ now \in Times
    /\ finished \in BOOLEAN
    /\ begin_ts \in Times
    /\ end_ts \in Times

Init ==
    /\ now = 0
    /\ finished = FALSE
    /\ begin_ts = 0
    /\ end_ts = 0

\* The clock advances.
Tick ==
    /\ \E t \in Times : t > now /\ now' = t
    /\ UNCHANGED <<finished, begin_ts, end_ts>>

\* Faulty variant of Begin: finished_ is not cleared on a restart.
BeginKeepFinished ==
    /\ begin_ts' = now
    /\ UNCHANGED <<now, finished, end_ts>>

\* Profiler::Begin, lines 11-15.
Begin ==
    /\ finished' = FALSE
    /\ begin_ts' = now
    /\ UNCHANGED <<now, end_ts>>

\* Profiler::End, lines 17-21.
End ==
    /\ end_ts' = now
    /\ finished' = TRUE
    /\ UNCHANGED <<now, begin_ts>>

Next == Tick \/ Begin \/ End

Spec == Init /\ [][Next]_vars

\* Profiler::ElapsedInternal, lines 23-27, in nanoseconds.
ElapsedInternal == (IF finished THEN end_ts ELSE now) - begin_ts

\* Faulty variant: the millisecond branch casts to microseconds.
ElapsedToStringWrongCast(d) ==
    IF d <= 1000 THEN [count |-> d, unit |-> "ns"]
    ELSE IF d <= 1000 * 1000 THEN [count |-> d \div 1000, unit |-> "us"]
    ELSE IF d <= 1000 * 1000 * 1000 THEN [count |-> d \div 1000, unit |-> "ms"]
    ELSE [count |-> d \div (1000 * 1000 * 1000), unit |-> "s"]

(***************************************************************************)
(* Profiler::ElapsedToString, lines 29-43: the count and the unit the      *)
(* string shows.  duration_cast truncates toward zero; every count that    *)
(* reaches a division is above 1000, so \div truncates the same way.       *)
(***************************************************************************)
ElapsedToString(d) ==
    IF d <= 1000 THEN [count |-> d, unit |-> "ns"]
    ELSE IF d <= 1000 * 1000 THEN [count |-> d \div 1000, unit |-> "us"]
    ELSE IF d <= 1000 * 1000 * 1000
         THEN [count |-> d \div (1000 * 1000), unit |-> "ms"]
    ELSE [count |-> d \div (1000 * 1000 * 1000), unit |-> "s"]

-----------------------------------------------------------------------------
(***************************************************************************)
(* Whatever order Begin, End and the clock come in (End twice, Begin after *)
(* End, End with no Begin), ElapsedInternal never measures a negative      *)
(* duration.                                                               *)
(***************************************************************************)
ElapsedNonNegative == ElapsedInternal >= 0

(***************************************************************************)
(* The string ElapsedToString shows is the elapsed time truncated to its   *)
(* unit, and the count stays between 1 and 1000 unless it is seconds or    *)
(* the duration is zero: the unit thresholds and the casts agree at every  *)
(* boundary (1000 ns, 1000 us, 1000 ms and one past each).                 *)
(***************************************************************************)
ElapsedReadable ==
    LET d == ElapsedInternal
        r == ElapsedToString(d)
    IN  /\ r.unit \in Units
        /\ r.count * Scale(r.unit) <= d
        /\ d - r.count * Scale(r.unit) < Scale(r.unit)
        /\ r.unit # "s" => r.count <= 1000
        /\ d > 0 => r.count >= 1

=============================================================================
