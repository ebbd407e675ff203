----------------------- MODULE QueryExecution_proofs -----------------------
(***************************************************************************)
(* Proofs about QueryExecution for every value of the constants.          *)
(*                                                                         *)
(* TypeOK is not inductive by itself: FinishStage adds one to the pool's   *)
(* free count, and only the count of running stages bounds it by NWorkers. *)
(* The inductive invariant IInv therefore carries WorkerConservation, the  *)
(* fact that pipelines a context has not created yet are untouched, the    *)
(* stage order and the no-partial-result fact.                             *)
(***************************************************************************)
EXTENDS QueryExecution, FiniteSetTheorems, TLAPS

\* Pipelines numbered past a context's calls have not been created.
Unissued ==
    \A c \in Contexts, n \in 1..MaxQueries :
        n > issued[c] => stage[<<c, n>>] = [s \in Stages |-> "none"]

\* A reply "OK" comes from a pipeline the context created.
ReplyIssued ==
    \A c \in Contexts : reply[c] = "OK" \/ caller[c] = "waiting" => issued[c] >= 1

IInv ==
    /\ TypeOK
    /\ WorkerConservation
    /\ Unissued
    /\ ReplyIssued
    /\ NoPartialResult

USE ConstantsAssumption

LEMMA RunningFinite ==
    ASSUME TypeOK
    PROVE  IsFiniteSet(Running) /\ Cardinality(Running) \in Nat
<1>1. IsFiniteSet(1..MaxQueries)
  BY FS_Interval
<1>2. IsFiniteSet(Pipes \X Stages)
  BY <1>1, FS_Product DEF Pipes
<1>3. Running \subseteq Pipes \X Stages
  BY DEF Running
<1>. QED
  BY <1>2, <1>3, FS_Subset, FS_CardinalityType

LEMMA InitIInv == Init => IInv
<1> SUFFICES ASSUME Init PROVE IInv
  OBVIOUS
<1>1. TypeOK
  BY DEF Init, TypeOK, StageStatus, Replies
<1>2. Running = {}
  BY DEF Init, Running
<1>3. WorkerConservation
  BY <1>2, FS_EmptySet DEF WorkerConservation, Init
<1>4. Unissued /\ ReplyIssued
  BY DEF Init, Unissued, ReplyIssued, Pipes
<1>5. NoPartialResult
  BY DEF Init, NoPartialResult
<1>. QED
  BY <1>1, <1>3, <1>4, <1>5 DEF IInv

LEMMA QueryIInv ==
    ASSUME IInv, NEW c \in Contexts, NEW r \in Requests, Query(c, r)
    PROVE  IInv'
<1> DEFINE n == issued[c] + 1
<1>1. /\ issued[c] \in 0..MaxQueries - 1
      /\ n \in 1..MaxQueries
      /\ <<c, n>> \in Pipes
  BY DEF Query, IInv, TypeOK, Pipes
<1>2. stage[<<c, n>>] = [s \in Stages |-> "none"]
  <2>1. n > issued[c]
    BY <1>1
  <2>. QED
    BY <1>1, <2>1 DEF IInv, Unissued
<1>3. ErrorOf(r) \in CompileErrors \cup {"none"}
  BY DEF ErrorOf, CompileErrors
<1>4. issued' = [issued EXCEPT ![c] = n] /\ free' = free
  BY DEF Query
<1>5. CASE ErrorOf(r) # "none"
  <2>1. /\ reply' = [reply EXCEPT ![c] = ErrorOf(r)]
        /\ UNCHANGED <<caller, rootType, stage>>
    BY <1>5 DEF Query
  <2>2. TypeOK'
    BY <1>1, <1>3, <1>4, <1>5, <2>1 DEF IInv, TypeOK, Replies
  <2>3. Running' = Running
    BY <2>1 DEF Running
  <2>4. WorkerConservation'
    BY <1>4, <2>3 DEF IInv, WorkerConservation
  <2>5. Unissued'
    <3> SUFFICES ASSUME NEW d \in Contexts, NEW m \in 1..MaxQueries,
                        m > issued'[d]
                 PROVE  stage'[<<d, m>>] = [s \in Stages |-> "none"]
      BY DEF Unissued
    <3>1. m > issued[d]
      BY <1>1, <1>4 DEF IInv, TypeOK
    <3>. QED
      BY <3>1, <2>1 DEF IInv, Unissued
  <2>9. ReplyIssued'
    BY <1>1, <1>4, <2>1 DEF IInv, TypeOK, ReplyIssued
  <2>7. NoPartialResult'
    <3>1. reply'[c] # "OK"
      BY <1>3, <1>5, <2>1 DEF IInv, TypeOK, CompileErrors
    <3>2. ASSUME NEW d \in Contexts, d # c
          PROVE  Current(d)' = Current(d) /\ reply'[d] = reply[d]
      BY <1>4, <2>1, <3>2 DEF Current
    <3>. QED
      BY <2>1, <3>1, <3>2 DEF IInv, NoPartialResult, AllDone
  <2>. QED
    BY <2>2, <2>4, <2>5, <2>7, <2>9 DEF IInv
<1>6. CASE ErrorOf(r) = "none"
  <2>1. /\ caller' = [caller EXCEPT ![c] = "waiting"]
        /\ rootType' = [rootType EXCEPT ![c] = r.kind]
        /\ stage' = [stage EXCEPT ![<<c, n>>] = [s \in Stages |-> "pending"]]
        /\ reply' = reply
    BY <1>6 DEF Query
  <2>2. TypeOK'
    BY <1>1, <1>4, <2>1 DEF IInv, TypeOK, Requests, StageStatus
  <2>3. Running' = Running
    BY <1>1, <1>2, <2>1 DEF Running, IInv, TypeOK
  <2>4. WorkerConservation'
    BY <1>4, <2>3 DEF IInv, WorkerConservation
  <2>5. Unissued'
    <3> SUFFICES ASSUME NEW d \in Contexts, NEW m \in 1..MaxQueries,
                        m > issued'[d]
                 PROVE  stage'[<<d, m>>] = [s \in Stages |-> "none"]
      BY DEF Unissued
    <3>1. m > issued[d] /\ <<d, m>> # <<c, n>>
      BY <1>1, <1>4 DEF IInv, TypeOK
    <3>2. stage'[<<d, m>>] = stage[<<d, m>>]
      BY <3>1, <2>1 DEF IInv, TypeOK, Pipes
    <3>. QED
      BY <3>1, <3>2 DEF IInv, Unissued
  <2>6. ReplyIssued'
    BY <1>1, <1>4, <2>1 DEF IInv, TypeOK, ReplyIssued
  <2>8. NoPartialResult'
    <3>1. ASSUME NEW d \in Contexts, d # c
          PROVE  /\ Current(d)' = Current(d)
                 /\ Current(d) # <<c, n>>
      BY <1>4, <3>1 DEF Current
    <3>. QED
      BY <2>1, <3>1 DEF IInv, TypeOK, NoPartialResult, AllDone
  <2>. QED
    BY <2>2, <2>4, <2>5, <2>6, <2>8 DEF IInv
<1>. QED
  BY <1>5, <1>6

\* Setting one stage of one pipeline to v: the stage table keeps its type,
\* and the set of running stages gains or loses exactly that stage.
LEMMA SetStage ==
    ASSUME TypeOK, NEW p \in Pipes, NEW s \in Stages, NEW v \in StageStatus,
           stage' = [stage EXCEPT ![p][s] = v]
    PROVE  /\ stage' \in [Pipes -> [Stages -> StageStatus]]
           /\ \A q \in Pipes, t \in Stages :
                 stage'[q][t] = IF q = p /\ t = s THEN v ELSE stage[q][t]
           /\ Running' = IF v = "running" THEN Running \cup {<<p, s>>}
                                          ELSE Running \ {<<p, s>>}
<1>1. stage' \in [Pipes -> [Stages -> StageStatus]]
  BY DEF TypeOK
<1>2. \A q \in Pipes, t \in Stages :
         stage'[q][t] = IF q = p /\ t = s THEN v ELSE stage[q][t]
  BY DEF TypeOK
<1>3. Running' = IF v = "running" THEN Running \cup {<<p, s>>}
                                  ELSE Running \ {<<p, s>>}
  <2>1. ASSUME NEW x
        PROVE  x \in Running' <=>
                 x \in (IF v = "running" THEN Running \cup {<<p, s>>}
                                         ELSE Running \ {<<p, s>>})
    <3>1. CASE x \in Pipes \X Stages
      <4>1. PICK q \in Pipes, t \in Stages : x = <<q, t>>
        <5>1. x = <<x[1], x[2]>> /\ x[1] \in Pipes /\ x[2] \in Stages
          BY <3>1
        <5>. QED
          BY <5>1
      <4>. QED
        BY <4>1, <1>2 DEF Running
    <3>2. CASE x \notin Pipes \X Stages
      BY <3>2 DEF Running
    <3>. QED
      BY <3>1, <3>2
  <2>. QED
    BY <2>1
<1>. QED
  BY <1>1, <1>2, <1>3

\* A stage that has left "none" belongs to a pipeline its context created.
LEMMA CreatedPipe ==
    ASSUME IInv, NEW p \in Pipes, NEW s \in Stages, stage[p][s] # "none"
    PROVE  p[2] <= issued[p[1]]
BY DEF IInv, Unissued, Pipes, TypeOK

LEMMA StartStageIInv ==
    ASSUME IInv, NEW p \in Pipes, NEW s \in Stages, StartStage(p, s)
    PROVE  IInv'
<1>1. /\ stage[p][s] = "pending"
      /\ \A d \in Deps[s] : stage[p][d] = "done"
      /\ free > 0
      /\ stage' = [stage EXCEPT ![p][s] = "running"]
      /\ free' = free - 1
      /\ UNCHANGED <<caller, issued, reply, rootType>>
  BY DEF StartStage
<1>2. /\ stage' \in [Pipes -> [Stages -> StageStatus]]
      /\ \A q \in Pipes, t \in Stages :
            stage'[q][t] = IF q = p /\ t = s THEN "running" ELSE stage[q][t]
      /\ Running' = Running \cup {<<p, s>>}
  <2>1. TypeOK /\ "running" \in StageStatus
    BY DEF IInv, StageStatus
  <2>2. /\ stage' \in [Pipes -> [Stages -> StageStatus]]
        /\ \A q \in Pipes, t \in Stages :
              stage'[q][t] = IF q = p /\ t = s THEN "running" ELSE stage[q][t]
        /\ Running' = IF "running" = "running" THEN Running \cup {<<p, s>>}
                                               ELSE Running \ {<<p, s>>}
    BY <1>1, <2>1, SetStage
  <2>. QED
    BY <2>2
<1>3. <<p, s>> \notin Running
  BY <1>1 DEF Running
<1>4. TypeOK'
  BY <1>1, <1>2 DEF IInv, TypeOK
<1>5. WorkerConservation'
  <2>1. IsFiniteSet(Running) /\ Cardinality(Running) \in Nat
    BY RunningFinite DEF IInv
  <2>2. Cardinality(Running') = Cardinality(Running) + 1
    BY <1>2, <1>3, <2>1, FS_AddElement
  <2>. QED
    BY <1>1, <2>1, <2>2 DEF IInv, TypeOK, WorkerConservation
<1>6. Unissued'
  <2> SUFFICES ASSUME NEW d \in Contexts, NEW m \in 1..MaxQueries,
                      m > issued'[d]
               PROVE  stage'[<<d, m>>] = [t \in Stages |-> "none"]
    BY DEF Unissued
  <2>1. p # <<d, m>>
    BY <1>1, CreatedPipe DEF IInv, TypeOK
  <2>2. \A t \in Stages : stage'[<<d, m>>][t] = stage[<<d, m>>][t]
    BY <1>2, <2>1 DEF Pipes
  <2>3. stage[<<d, m>>] = [t \in Stages |-> "none"]
    BY <1>1 DEF IInv, Unissued
  <2>4. stage'[<<d, m>>] \in [Stages -> StageStatus]
    BY <1>2 DEF Pipes
  <2>. QED
    BY <2>2, <2>3, <2>4
<1>7. ReplyIssued'
  BY <1>1 DEF IInv, ReplyIssued
<1>9. NoPartialResult'
  <2> SUFFICES ASSUME NEW c \in Contexts, caller'[c] = "idle", reply'[c] = "OK"
               PROVE  AllDone(Current(c))'
    BY DEF NoPartialResult
  <2>1. AllDone(Current(c)) /\ Current(c)' = Current(c)
    BY <1>1 DEF IInv, NoPartialResult, Current
  <2>2. Current(c) \in Pipes
    BY <1>1 DEF IInv, TypeOK, ReplyIssued, Current, Pipes
  <2>3. Current(c) # p
    BY <1>1, <2>1 DEF AllDone
  <2>. QED
    BY <1>2, <2>1, <2>2, <2>3 DEF AllDone
<1>. QED
  BY <1>4, <1>5, <1>6, <1>7, <1>9 DEF IInv

LEMMA FinishStageIInv ==
    ASSUME IInv, NEW p \in Pipes, NEW s \in Stages, FinishStage(p, s)
    PROVE  IInv'
<1>1. /\ stage[p][s] = "running"
      /\ stage' = [stage EXCEPT ![p][s] = "done"]
      /\ free' = free + 1
      /\ UNCHANGED <<caller, issued, reply, rootType>>
  BY DEF FinishStage
<1>2. /\ stage' \in [Pipes -> [Stages -> StageStatus]]
      /\ \A q \in Pipes, t \in Stages :
            stage'[q][t] = IF q = p /\ t = s THEN "done" ELSE stage[q][t]
      /\ Running' = Running \ {<<p, s>>}
  <2>1. TypeOK /\ "done" \in StageStatus
    BY DEF IInv, StageStatus
  <2>2. /\ stage' \in [Pipes -> [Stages -> StageStatus]]
        /\ \A q \in Pipes, t \in Stages :
              stage'[q][t] = IF q = p /\ t = s THEN "done" ELSE stage[q][t]
        /\ Running' = IF "done" = "running" THEN Running \cup {<<p, s>>}
                                            ELSE Running \ {<<p, s>>}
    BY <1>1, <2>1, SetStage
  <2>. QED
    BY <2>2
<1>3. <<p, s>> \in Running
  BY <1>1 DEF Running
<1>4. /\ Cardinality(Running') = Cardinality(Running) - 1
      /\ Cardinality(Running) \in Nat \ {0}
  <2>1. IsFiniteSet(Running) /\ Cardinality(Running) \in Nat
    BY RunningFinite DEF IInv
  <2>2. Cardinality(Running \ {<<p, s>>}) = Cardinality(Running) - 1
    BY <1>3, <2>1, FS_RemoveElement
  <2>3. Cardinality(Running) # 0
    BY <1>3, <2>1, FS_EmptySet
  <2>. QED
    BY <1>2, <2>1, <2>2, <2>3
<1>5. TypeOK'
  BY <1>1, <1>2, <1>4 DEF IInv, TypeOK, WorkerConservation
<1>6. WorkerConservation'
  BY <1>1, <1>4 DEF IInv, TypeOK, WorkerConservation
<1>7. Unissued'
  <2> SUFFICES ASSUME NEW d \in Contexts, NEW m \in 1..MaxQueries,
                      m > issued'[d]
               PROVE  stage'[<<d, m>>] = [t \in Stages |-> "none"]
    BY DEF Unissued
  <2>1. p # <<d, m>>
    BY <1>1, CreatedPipe DEF IInv, TypeOK
  <2>2. \A t \in Stages : stage'[<<d, m>>][t] = stage[<<d, m>>][t]
    BY <1>2, <2>1 DEF Pipes
  <2>3. stage[<<d, m>>] = [t \in Stages |-> "none"]
    BY <1>1 DEF IInv, Unissued
  <2>4. stage'[<<d, m>>] \in [Stages -> StageStatus]
    BY <1>2 DEF Pipes
  <2>. QED
    BY <2>2, <2>3, <2>4
<1>8. ReplyIssued'
  BY <1>1 DEF IInv, ReplyIssued
<1>10. NoPartialResult'
  <2> SUFFICES ASSUME NEW c \in Contexts, caller'[c] = "idle", reply'[c] = "OK"
               PROVE  AllDone(Current(c))'
    BY DEF NoPartialResult
  <2>1. AllDone(Current(c)) /\ Current(c)' = Current(c)
    BY <1>1 DEF IInv, NoPartialResult, Current
  <2>2. Current(c) \in Pipes
    BY <1>1 DEF IInv, TypeOK, ReplyIssued, Current, Pipes
  <2>3. Current(c) # p
    BY <1>1, <2>1 DEF AllDone
  <2>. QED
    BY <1>2, <2>1, <2>2, <2>3 DEF AllDone
<1>. QED
  BY <1>5, <1>6, <1>7, <1>8, <1>10 DEF IInv

LEMMA FailStageIInv ==
    ASSUME IInv, NEW p \in Pipes, NEW s \in Stages, FailStage(p, s)
    PROVE  IInv'
<1> DEFINE new == [t \in Stages |->
                     IF t = s THEN "failed"
                     ELSE IF stage[p][t] = "pending" THEN "cancelled"
                     ELSE stage[p][t]]
<1>1. /\ stage[p][s] = "running"
      /\ stage' = [stage EXCEPT ![p] = new]
      /\ free' = free + 1
      /\ UNCHANGED <<caller, issued, reply, rootType>>
  BY DEF FailStage
<1>2. /\ stage' \in [Pipes -> [Stages -> StageStatus]]
      /\ \A q \in Pipes, t \in Stages :
            stage'[q][t] = IF q = p THEN new[t] ELSE stage[q][t]
  BY <1>1 DEF IInv, TypeOK, StageStatus
<1>3. Running' = Running \ {<<p, s>>}
  <2>1. ASSUME NEW x
        PROVE  x \in Running' <=> x \in Running \ {<<p, s>>}
    <3>1. CASE x \in Pipes \X Stages
      <4>1. PICK q \in Pipes, t \in Stages : x = <<q, t>>
        <5>1. x = <<x[1], x[2]>> /\ x[1] \in Pipes /\ x[2] \in Stages
          BY <3>1
        <5>. QED
          BY <5>1
      <4>2. stage'[q][t] = "running" <=>
              stage[q][t] = "running" /\ ~(q = p /\ t = s)
        BY <1>1, <1>2
      <4>. QED
        BY <4>1, <4>2 DEF Running
    <3>2. CASE x \notin Pipes \X Stages
      BY <3>2 DEF Running
    <3>. QED
      BY <3>1, <3>2
  <2>. QED
    BY <2>1
<1>4. <<p, s>> \in Running
  BY <1>1 DEF Running
<1>5. /\ Cardinality(Running') = Cardinality(Running) - 1
      /\ Cardinality(Running) \in Nat \ {0}
  <2>1. IsFiniteSet(Running) /\ Cardinality(Running) \in Nat
    BY RunningFinite DEF IInv
  <2>2. Cardinality(Running \ {<<p, s>>}) = Cardinality(Running) - 1
    BY <1>4, <2>1, FS_RemoveElement
  <2>3. Cardinality(Running) # 0
    BY <1>4, <2>1, FS_EmptySet
  <2>. QED
    BY <1>3, <2>1, <2>2, <2>3
<1>6. TypeOK'
  BY <1>1, <1>2, <1>5 DEF IInv, TypeOK, WorkerConservation
<1>7. WorkerConservation'
  BY <1>1, <1>5 DEF IInv, TypeOK, WorkerConservation
<1>8. Unissued'
  <2> SUFFICES ASSUME NEW d \in Contexts, NEW m \in 1..MaxQueries,
                      m > issued'[d]
               PROVE  stage'[<<d, m>>] = [t \in Stages |-> "none"]
    BY DEF Unissued
  <2>1. p # <<d, m>>
    BY <1>1, CreatedPipe DEF IInv, TypeOK
  <2>2. \A t \in Stages : stage'[<<d, m>>][t] = stage[<<d, m>>][t]
    BY <1>2, <2>1 DEF Pipes
  <2>3. stage[<<d, m>>] = [t \in Stages |-> "none"]
    BY <1>1 DEF IInv, Unissued
  <2>4. stage'[<<d, m>>] \in [Stages -> StageStatus]
    BY <1>2 DEF Pipes
  <2>. QED
    BY <2>2, <2>3, <2>4
<1>9. ReplyIssued'
  BY <1>1 DEF IInv, ReplyIssued
<1>11. NoPartialResult'
  <2> SUFFICES ASSUME NEW c \in Contexts, caller'[c] = "idle", reply'[c] = "OK"
               PROVE  AllDone(Current(c))'
    BY DEF NoPartialResult
  <2>1. AllDone(Current(c)) /\ Current(c)' = Current(c)
    BY <1>1 DEF IInv, NoPartialResult, Current
  <2>2. Current(c) \in Pipes
    BY <1>1 DEF IInv, TypeOK, ReplyIssued, Current, Pipes
  <2>3. Current(c) # p
    BY <1>1, <2>1 DEF AllDone
  <2>. QED
    BY <1>2, <2>1, <2>2, <2>3 DEF AllDone
<1>. QED
  BY <1>6, <1>7, <1>8, <1>9, <1>11 DEF IInv

LEMMA GetResultIInv ==
    ASSUME IInv, NEW c \in Contexts, GetResult(c)
    PROVE  IInv'
<1>1. /\ caller' = [caller EXCEPT ![c] = "idle"]
      /\ reply' = [reply EXCEPT ![c] =
                     IF AllDone(Current(c)) THEN "OK" ELSE "QueryFailed"]
      /\ UNCHANGED <<issued, rootType, stage, free>>
  BY DEF GetResult
<1>2. TypeOK'
  BY <1>1 DEF IInv, TypeOK, Replies
<1>3. Running' = Running
  BY <1>1 DEF Running
<1>6. WorkerConservation'
  BY <1>1, <1>3 DEF IInv, WorkerConservation
<1>7. Unissued'
  BY <1>1 DEF IInv, Unissued
<1>4. ReplyIssued'
  BY <1>1 DEF GetResult, IInv, TypeOK, ReplyIssued
<1>5. NoPartialResult'
  BY <1>1 DEF IInv, TypeOK, NoPartialResult, AllDone, Current
<1>. QED
  BY <1>2, <1>6, <1>7, <1>4, <1>5 DEF IInv

LEMMA NextIInv == IInv /\ [Next]_vars => IInv'
<1> SUFFICES ASSUME IInv, [Next]_vars PROVE IInv'
  OBVIOUS
<1>1. CASE \E c \in Contexts, r \in Requests : Query(c, r)
  BY <1>1, QueryIInv
<1>2. CASE \E p \in Pipes, s \in Stages :
             StartStage(p, s) \/ FinishStage(p, s) \/ FailStage(p, s)
  BY <1>2, StartStageIInv, FinishStageIInv, FailStageIInv
<1>3. CASE \E c \in Contexts : GetResult(c)
  BY <1>3, GetResultIInv
<1>4. CASE Terminated \/ UNCHANGED vars
  <2>1. /\ caller' = caller /\ issued' = issued /\ reply' = reply
        /\ rootType' = rootType /\ stage' = stage /\ free' = free
    BY <1>4 DEF Terminated, vars
  <2>2. Running' = Running
    BY <2>1 DEF Running
  <2>3. TypeOK' /\ WorkerConservation'
    BY <2>1, <2>2 DEF IInv, TypeOK, WorkerConservation
  <2>4. Unissued' /\ ReplyIssued'
    BY <2>1 DEF IInv, Unissued, ReplyIssued
  <2>5. NoPartialResult'
    BY <2>1 DEF IInv, NoPartialResult, AllDone, Current
  <2>. QED
    BY <2>3, <2>4, <2>5 DEF IInv
<1>. QED
  BY <1>1, <1>2, <1>3, <1>4 DEF Next

\* The inductive invariant holds in every reachable state.
THEOREM IInvHolds == Spec => []IInv
BY InitIInv, NextIInv, PTL DEF Spec

(***************************************************************************)
(* Type correctness of the driver and scheduler state: in particular the  *)
(* pool's free count stays within 0..NWorkers under any interleaving of    *)
(* queries from any number of contexts.                                    *)
(***************************************************************************)
THEOREM TypeCorrect == Spec => []TypeOK
BY IInvHolds, PTL DEF IInv

(***************************************************************************)
(* The shared worker pool never leaks or double-counts a thread: free      *)
(* threads plus threads running a stage are NWorkers (Scheduler::Schedule, *)
(* called from QueryContext::Query line 103).                              *)
(***************************************************************************)
THEOREM PoolConserved == Spec => []WorkerConservation
BY IInvHolds, PTL DEF IInv

(***************************************************************************)
(* No partial result: a Query call that returns a result (line 106) got it *)
(* from a pipeline all of whose stages completed.                          *)
(***************************************************************************)
THEOREM ResultsComplete == Spec => []NoPartialResult
BY IInvHolds, PTL DEF IInv


-----------------------------------------------------------------------------
(***************************************************************************)
(* Cancellation (spec 4.7): a pipeline with a failed stage has no stage   *)
(* left pending, so the scheduler can start none of it, because FailStage *)
(* cancels every pending stage of the query in the same step as it marks  *)
(* the failure, and nothing makes a                                      *)
(* stage of an existing pipeline pending again (Query only fills a        *)
(* pipeline that has not been created, and that one has no failure).      *)
(***************************************************************************)
CancelledOnFailure ==
    \A p \in Pipes : Failed(p) => \A s \in Stages : stage[p][s] # "pending"

LEMMA InitCancelled == Init => CancelledOnFailure
BY DEF Init, CancelledOnFailure, Failed

LEMMA QueryCancelled ==
    ASSUME IInv, CancelledOnFailure, NEW c \in Contexts, NEW r \in Requests,
           Query(c, r)
    PROVE  CancelledOnFailure'
<1> DEFINE n == issued[c] + 1
<1> SUFFICES ASSUME NEW p \in Pipes, Failed(p)', NEW s \in Stages
             PROVE  stage'[p][s] # "pending"
  BY DEF CancelledOnFailure
<1>1. n \in 1..MaxQueries /\ n > issued[c]
  BY DEF Query, IInv, TypeOK
<1>2. stage[<<c, n>>] = [t \in Stages |-> "none"]
  BY <1>1 DEF IInv, Unissued
<1>3. CASE ErrorOf(r) # "none"
  <2>1. stage' = stage
    BY <1>3 DEF Query
  <2>. QED
    BY <2>1 DEF CancelledOnFailure, Failed
<1>4. CASE ErrorOf(r) = "none"
  <2>1. stage' = [stage EXCEPT ![<<c, n>>] = [t \in Stages |-> "pending"]]
    BY <1>4 DEF Query
  <2>2. <<c, n>> \in Pipes /\ stage \in [Pipes -> [Stages -> StageStatus]]
    BY <1>1 DEF IInv, TypeOK, Pipes
  <2>3. p # <<c, n>>
    <3>1. stage'[<<c, n>>] = [t \in Stages |-> "pending"]
      BY <2>1, <2>2
    <3>2. PICK y \in Stages : stage'[p][y] = "failed"
      BY DEF Failed
    <3>. QED
      BY <3>1, <3>2
  <2>4. stage'[p] = stage[p]
    BY <2>1, <2>2, <2>3
  <2>. QED
    BY <2>4 DEF CancelledOnFailure, Failed
<1>. QED
  BY <1>3, <1>4

\* A step that moves one stage from pending or running to running or done
\* makes no stage pending and creates no failure.
LEMMA SetStageCancelled ==
    ASSUME IInv, CancelledOnFailure, NEW p \in Pipes, NEW s \in Stages,
           NEW v \in {"running", "done"},
           stage[p][s] \in {"pending", "running"},
           stage' = [stage EXCEPT ![p][s] = v]
    PROVE  CancelledOnFailure'
<1> SUFFICES ASSUME NEW q \in Pipes, Failed(q)', NEW t \in Stages
             PROVE  stage'[q][t] # "pending"
  BY DEF CancelledOnFailure
<1>1. /\ \A x \in Pipes, y \in Stages :
            stage'[x][y] = IF x = p /\ y = s THEN v ELSE stage[x][y]
  BY DEF IInv, TypeOK
<1>2. Failed(q)
  <2>1. PICK y \in Stages : stage'[q][y] = "failed"
    BY DEF Failed
  <2>2. stage'[q][y] = IF q = p /\ y = s THEN v ELSE stage[q][y]
    BY <1>1
  <2>3. stage[q][y] = "failed"
    BY <2>1, <2>2
  <2>. QED
    BY <2>3 DEF Failed
<1>3. \A y \in Stages : stage[q][y] # "pending"
  BY <1>2 DEF CancelledOnFailure
<1>. QED
  BY <1>1, <1>3

LEMMA FailStageCancelled ==
    ASSUME IInv, CancelledOnFailure, NEW p \in Pipes, NEW s \in Stages,
           FailStage(p, s)
    PROVE  CancelledOnFailure'
<1> DEFINE new == [t \in Stages |->
                     IF t = s THEN "failed"
                     ELSE IF stage[p][t] = "pending" THEN "cancelled"
                     ELSE stage[p][t]]
<1> SUFFICES ASSUME NEW q \in Pipes, Failed(q)', NEW t \in Stages
             PROVE  stage'[q][t] # "pending"
  BY DEF CancelledOnFailure
<1>1. stage' = [stage EXCEPT ![p] = new]
  BY DEF FailStage
<1>2. stage \in [Pipes -> [Stages -> StageStatus]]
  BY DEF IInv, TypeOK
<1>3. CASE q = p
  BY <1>1, <1>2, <1>3
<1>4. CASE q # p
  <2>1. stage'[q] = stage[q]
    BY <1>1, <1>2, <1>4
  <2>. QED
    BY <2>1 DEF CancelledOnFailure, Failed
<1>. QED
  BY <1>3, <1>4

LEMMA NextCancelled ==
    IInv /\ CancelledOnFailure /\ [Next]_vars => CancelledOnFailure'
<1> SUFFICES ASSUME IInv, CancelledOnFailure, [Next]_vars
             PROVE  CancelledOnFailure'
  OBVIOUS
<1>1. CASE \E c \in Contexts, r \in Requests : Query(c, r)
  BY <1>1, QueryCancelled
<1>2. ASSUME NEW p \in Pipes, NEW s \in Stages, StartStage(p, s)
      PROVE  CancelledOnFailure'
  BY <1>2, SetStageCancelled DEF StartStage
<1>3. ASSUME NEW p \in Pipes, NEW s \in Stages, FinishStage(p, s)
      PROVE  CancelledOnFailure'
  BY <1>3, SetStageCancelled DEF FinishStage
<1>4. CASE \E p \in Pipes, s \in Stages :
             StartStage(p, s) \/ FinishStage(p, s) \/ FailStage(p, s)
  BY <1>4, <1>2, <1>3, FailStageCancelled
<1>5. CASE (\E c \in Contexts : GetResult(c)) \/ Terminated \/ UNCHANGED vars
  <2>1. stage' = stage
    BY <1>5 DEF GetResult, Terminated, vars
  <2>. QED
    BY <2>1 DEF CancelledOnFailure, Failed
<1>. QED
  BY <1>1, <1>4, <1>5 DEF Next

\* No reachable state has a pending stage in a pipeline that has failed.
THEOREM CancelledHolds == Spec => []CancelledOnFailure
<1>1. IInv /\ CancelledOnFailure /\ [Next]_vars
         => (IInv /\ CancelledOnFailure)'
  BY NextIInv, NextCancelled
<1>. QED
  BY <1>1, InitIInv, InitCancelled, PTL DEF Spec

=============================================================================
