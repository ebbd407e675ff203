--------------------------- MODULE QueryExecution ---------------------------
(***************************************************************************)
(* QueryContext::Query (src/src/main/query_context.cpp) composed with the  *)
(* process-wide scheduler it hands its pipeline to.                        *)
(*                                                                         *)
(* Each query context is a caller thread that runs Query over and over:    *)
(* parse, check that there is exactly one statement, build the logical    *)
(* plan, optimize, lower to a physical plan, create the pipeline and       *)
(* schedule it, then block in pipeline->GetResult().  The compile phase    *)
(* runs on the caller's thread with no shared state, so it is one action;  *)
(* its exceptions are the error paths of that action.  The scheduler is    *)
(* Infinity::instance().scheduler(), a singleton shared by every context:  *)
(* its worker pool of NWorkers threads runs the stages of all submitted    *)
(* pipelines.  Scheduler and pipeline are not in src/ and follow the spec  *)
(* (4.6, 4.7, 5): a stage starts only when its producer stages are done,   *)
(* a failure cancels the query's remaining stages, and GetResult returns   *)
(* once every stage is done or the query has failed.                       *)
(***************************************************************************)
EXTENDS Naturals, FiniteSets

CONSTANTS
    Contexts,     \* query contexts (one caller thread each), model values
    Stages,       \* the stages of the pipeline OperatorPipeline::Create builds
    Deps,         \* Deps[s]: the producer stages s consumes from
    NWorkers,     \* threads of the scheduler's worker pool
    MaxQueries,   \* bound: queries each context submits
    Kinds         \* root operator types of the unoptimized plan

ASSUME ConstantsAssumption ==
    /\ Contexts # {} /\ IsFiniteSet(Contexts)
    /\ Stages \subseteq Nat /\ Stages # {} /\ IsFiniteSet(Stages)
    /\ Deps \in [Stages -> SUBSET Stages]
    \* the pipeline is a DAG: a stage consumes only lower-numbered stages
    /\ \A s \in Stages : \A d \in Deps[s] : d < s
    /\ NWorkers \in Nat \ {0}
    /\ MaxQueries \in Nat \ {0}
    /\ Kinds # {}

VARIABLES
    caller,    \* caller[c]: "idle" between calls, "waiting" inside GetResult
    issued,    \* issued[c]: number of Query calls context c has made
    reply,     \* reply[c]: what the last Query call of c returned or raised
    rootType,  \* rootType[c]: root operator type of c's last logical plan
    stage,     \* stage[p][s]: status of stage s of pipeline p
    free       \* idle threads of the shared worker pool

vars == <<caller, issued, reply, rootType, stage, free>>

\* A pipeline is named by its context and the number of the Query call.
Pipes == Contexts \X (1..MaxQueries)

StageStatus == {"none", "pending", "running", "done", "failed", "cancelled"}

CompileErrors == {"ParseError", "PlannerError", "BindError", "ExecutorError"}

Replies == {"none", "OK", "QueryFailed"} \cup CompileErrors

(***************************************************************************)
(* What a parsed request looks like to Query: whether the parser accepts   *)
(* it, how many statements it holds, the kind of the statement, whether    *)
(* its names bind and whether every logical node has a physical lowering.  *)
(***************************************************************************)
Requests == [valid: BOOLEAN, nstmts: 0..2, kind: Kinds,
             bindable: BOOLEAN, lowerable: BOOLEAN]

\* The exception Query raises for request r, in the order the code checks.
ErrorOf(r) ==
    IF ~r.valid THEN "ParseError"
    ELSE IF r.nstmts # 1 THEN "PlannerError"
    ELSE IF ~r.bindable THEN "BindError"
    ELSE IF ~r.lowerable THEN "ExecutorError"
    ELSE "none"

\* The pipeline of context c's current (last) Query call.
Current(c) == <<c, issued[c]>>

Running == {ps \in Pipes \X Stages : stage[ps[1]][ps[2]] = "running"}

Failed(p) == \E s \in Stages : stage[p][s] = "failed"

AllDone(p) == \A s \in Stages : stage[p][s] = "done"

Init ==
    /\ caller = [c \in Contexts |-> "idle"]
    /\ issued = [c \in Contexts |-> 0]
    /\ reply = [c \in Contexts |-> "none"]
    /\ rootType = [c \in Contexts |-> "none"]
    /\ stage = [p \in Pipes |-> [s \in Stages |-> "none"]]
    /\ free = NWorkers

(***************************************************************************)
(* Query(query), lines 71-103: compile the request on the caller's thread. *)
(* A request that fails parsing, has other than one statement, does not    *)
(* bind or cannot be lowered raises at once and nothing is scheduled;      *)
(* otherwise the pipeline is created and scheduled and the caller blocks   *)
(* in GetResult.                                                           *)
(***************************************************************************)
Query(c, r) ==
    /\ caller[c] = "idle"
    /\ issued[c] < MaxQueries
    /\ issued' = [issued EXCEPT ![c] = @ + 1]
    /\ IF ErrorOf(r) # "none"
         THEN /\ reply' = [reply EXCEPT ![c] = ErrorOf(r)]
              /\ UNCHANGED <<caller, rootType, stage>>
         ELSE /\ caller' = [caller EXCEPT ![c] = "waiting"]
              /\ rootType' = [rootType EXCEPT ![c] = r.kind]
              /\ stage' = [stage EXCEPT ![<<c, issued[c] + 1>>] =
                                      [s \in Stages |-> "pending"]]
              /\ UNCHANGED reply
    /\ UNCHANGED free

(***************************************************************************)
(* Scheduler::Schedule: a worker thread takes a pending stage whose        *)
(* producer stages have all completed.                                     *)
(***************************************************************************)
\* Faulty variant: a stage is started without waiting for a free worker.
StartStageOversubscribe(p, s) ==
    /\ stage[p][s] = "pending"
    /\ \A d \in Deps[s] : stage[p][d] = "done"
    /\ stage' = [stage EXCEPT ![p][s] = "running"]
    /\ free' = free - 1
    /\ UNCHANGED <<caller, issued, reply, rootType>>

StartStage(p, s) ==
    /\ stage[p][s] = "pending"
    /\ \A d \in Deps[s] : stage[p][d] = "done"
    /\ free > 0
    /\ stage' = [stage EXCEPT ![p][s] = "running"]
    /\ free' = free - 1
    /\ UNCHANGED <<caller, issued, reply, rootType>>

\* The stage's operators drain their input and the worker is released.
FinishStage(p, s) ==
    /\ stage[p][s] = "running"
    /\ stage' = [stage EXCEPT ![p][s] = "done"]
    /\ free' = free + 1
    /\ UNCHANGED <<caller, issued, reply, rootType>>

(***************************************************************************)
(* An operator of the stage fails: the worker is released and the stages  *)
(* of the query not yet started are cancelled.  Stages already running on *)
(* other workers run to their end.                                         *)
(***************************************************************************)
\* Faulty variant: the failing worker is not returned to the pool.
FailStageLeak(p, s) ==
    /\ stage[p][s] = "running"
    /\ stage' = [stage EXCEPT ![p] =
                   [t \in Stages |->
                      IF t = s THEN "failed"
                      ELSE IF stage[p][t] = "pending" THEN "cancelled"
                      ELSE stage[p][t]]]
    /\ UNCHANGED <<caller, issued, reply, rootType, free>>

FailStage(p, s) ==
    /\ stage[p][s] = "running"
    /\ stage' = [stage EXCEPT ![p] =
                   [t \in Stages |->
                      IF t = s THEN "failed"
                      ELSE IF stage[p][t] = "pending" THEN "cancelled"
                      ELSE stage[p][t]]]
    /\ free' = free + 1
    /\ UNCHANGED <<caller, issued, reply, rootType>>

(***************************************************************************)
(* GetResult and the return of Query, lines 105-109: the caller wakes when *)
(* every stage of its pipeline is done, and returns the result tagged with *)
(* the root type of the unoptimized plan; or when the query has failed,    *)
(* and the failure propagates out of Query.                                *)
(***************************************************************************)
\* Faulty variant: the failure is swallowed and the sink is returned.
GetResultSwallow(c) ==
    /\ caller[c] = "waiting"
    /\ AllDone(Current(c)) \/ Failed(Current(c))
    /\ caller' = [caller EXCEPT ![c] = "idle"]
    /\ reply' = [reply EXCEPT ![c] = "OK"]
    /\ UNCHANGED <<issued, rootType, stage, free>>

\* Faulty variant: the caller waits for every stage to complete.
GetResultAllDone(c) ==
    /\ caller[c] = "waiting"
    /\ AllDone(Current(c))
    /\ caller' = [caller EXCEPT ![c] = "idle"]
    /\ reply' = [reply EXCEPT ![c] = "OK"]
    /\ UNCHANGED <<issued, rootType, stage, free>>

GetResult(c) ==
    /\ caller[c] = "waiting"
    /\ AllDone(Current(c)) \/ Failed(Current(c))
    /\ caller' = [caller EXCEPT ![c] = "idle"]
    /\ reply' = [reply EXCEPT ![c] =
                   IF AllDone(Current(c)) THEN "OK" ELSE "QueryFailed"]
    /\ UNCHANGED <<issued, rootType, stage, free>>

\* Every context has made its last call and the pool is idle.
Terminated ==
    /\ \A c \in Contexts : caller[c] = "idle" /\ issued[c] = MaxQueries
    /\ Running = {}
    /\ UNCHANGED vars

Next ==
    \/ \E c \in Contexts, r \in Requests : Query(c, r)
    \/ \E p \in Pipes, s \in Stages :
          StartStage(p, s) \/ FinishStage(p, s) \/ FailStage(p, s)
    \/ \E c \in Contexts : GetResult(c)
    \/ Terminated

Spec == Init /\ [][Next]_vars

(***************************************************************************)
(* Fairness.  A worker runs a stage to its end (5: no operator yields      *)
(* mid-batch), the pool keeps taking ready stages while a thread is free,  *)
(* and a woken caller returns.  Callers need not issue more queries.       *)
(***************************************************************************)
Fairness ==
    /\ \A p \in Pipes, s \in Stages :
          /\ WF_vars(StartStage(p, s))
          /\ WF_vars(FinishStage(p, s) \/ FailStage(p, s))
    /\ \A c \in Contexts : WF_vars(GetResult(c))

FairSpec == Spec /\ Fairness

-----------------------------------------------------------------------------
(* Properties *)

TypeOK ==
    /\ caller \in [Contexts -> {"idle", "waiting"}]
    /\ issued \in [Contexts -> 0..MaxQueries]
    /\ reply \in [Contexts -> Replies]
    /\ rootType \in [Contexts -> Kinds \cup {"none"}]
    /\ stage \in [Pipes -> [Stages -> StageStatus]]
    /\ free \in 0..NWorkers

(***************************************************************************)
(* The scheduler's pool is shared by all query contexts: the idle threads  *)
(* and the threads running a stage of some pipeline are exactly NWorkers,  *)
(* whatever mix of finishing, failing and cancelled queries got here.      *)
(***************************************************************************)
WorkerConservation ==
    free + Cardinality(Running) = NWorkers

(***************************************************************************)
(* No partial result (5, 7): when Query returns a result, every stage of   *)
(* the pipeline it came from has completed, and none failed.               *)
(***************************************************************************)
NoPartialResult ==
    \A c \in Contexts :
        caller[c] = "idle" /\ reply[c] = "OK" => AllDone(Current(c))

(***************************************************************************)
(* GetResult returns (4.7): every Query call that scheduled a pipeline     *)
(* eventually returns to its caller, with a result or with the failure.    *)
(***************************************************************************)
QueryReturns ==
    \A c \in Contexts : caller[c] = "waiting" ~> caller[c] = "idle"

(***************************************************************************)
(* One query in flight per context (4.7): at most one pipeline of a query  *)
(* context still has a stage pending or running.                           *)
(***************************************************************************)
InFlight(p) == \E s \in Stages : stage[p][s] \in {"pending", "running"}

OneInFlight ==
    \A c \in Contexts, n, m \in 1..MaxQueries :
        InFlight(<<c, n>>) /\ InFlight(<<c, m>>) => n = m


-----------------------------------------------------------------------------
(***************************************************************************)
(* Refinement.  A blocked caller's query has completed when every stage of *)
(* its current pipeline is done and has failed when one stage failed; an   *)
(* idle caller has nothing decided.  Stage and worker steps are stutters   *)
(* of the service, except the one that decides a blocked query.            *)
(***************************************************************************)
Fate(c) ==
    IF caller[c] = "idle" THEN "none"
    ELSE IF AllDone(Current(c)) THEN "done"
    ELSE IF Failed(Current(c)) THEN "failed"
    ELSE "none"

QS == INSTANCE QueryService WITH fate <- [c \in Contexts |-> Fate(c)]

(***************************************************************************)
(* QueryContext::Query together with the scheduler implements the service *)
(* a caller sees: each call raises a compile error or blocks, the blocked  *)
(* query is decided once (a failure is never undone by a sibling stage     *)
(* that completes later, nor a completion by a late failure), and the call *)
(* returns exactly what was decided.                                       *)
(***************************************************************************)
ImplementsService == QS!Spec

=============================================================================
