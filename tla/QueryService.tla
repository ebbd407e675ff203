---------------------------- MODULE QueryService ----------------------------
(***************************************************************************)
(* What QueryContext::Query promises its caller (spec 4.7, 5, 7), with     *)
(* plans, stages and workers hidden.  A call either raises a compile error *)
(* at once or blocks; while it blocks, the query's fate is decided once:   *)
(* it completes or it fails; the call then returns OK for a completed      *)
(* query and QueryFailed for a failed one, never a partial result.         *)
(***************************************************************************)
EXTENDS Naturals

CONSTANTS Contexts, MaxQueries

CompileErrors == {"ParseError", "PlannerError", "BindError", "ExecutorError"}

VARIABLES
    caller,   \* "idle" or "waiting" (blocked in the call)
    issued,   \* calls made so far
    reply,    \* what the last call returned or raised
    fate      \* "none" until the blocked query is decided, then "done" or "failed"

vars == <<caller, issued, reply, fate>>

Init ==
    /\ caller = [c \in Contexts |-> "idle"]
    /\ issued = [c \in Contexts |-> 0]
    /\ reply = [c \in Contexts |-> "none"]
    /\ fate = [c \in Contexts |-> "none"]

\* The call is compiled: it raises error e, or its pipeline is scheduled.
Reject(c, e) ==
    /\ caller[c] = "idle" /\ issued[c] < MaxQueries
    /\ issued' = [issued EXCEPT ![c] = @ + 1]
    /\ reply' = [reply EXCEPT ![c] = e]
    /\ UNCHANGED <<caller, fate>>

Accept(c) ==
    /\ caller[c] = "idle" /\ issued[c] < MaxQueries
    /\ issued' = [issued EXCEPT ![c] = @ + 1]
    /\ caller' = [caller EXCEPT ![c] = "waiting"]
    /\ UNCHANGED <<reply, fate>>

\* The blocked query completes or fails, once.
Decide(c, f) ==
    /\ caller[c] = "waiting" /\ fate[c] = "none"
    /\ fate' = [fate EXCEPT ![c] = f]
    /\ UNCHANGED <<caller, issued, reply>>

\* The call returns what was decided.
Return(c) ==
    /\ caller[c] = "waiting" /\ fate[c] # "none"
    /\ caller' = [caller EXCEPT ![c] = "idle"]
    /\ reply' = [reply EXCEPT ![c] = IF fate[c] = "done" THEN "OK" ELSE "QueryFailed"]
    /\ fate' = [fate EXCEPT ![c] = "none"]
    /\ UNCHANGED issued

Next ==
    \E c \in Contexts :
        \/ \E e \in CompileErrors : Reject(c, e)
        \/ Accept(c)
        \/ \E f \in {"done", "failed"} : Decide(c, f)
        \/ Return(c)

Spec == Init /\ [][Next]_vars

=============================================================================
