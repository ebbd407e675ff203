----------------------- MODULE QueryRefinement_proofs -----------------------
(***************************************************************************)
(* Proof that QueryExecution implements QueryService under the mapping    *)
(* Fate, for every value of the constants.                                 *)
(*                                                                         *)
(* Each step of the detailed specification is a step of the service or a  *)
(* stutter of it.  Query is Reject or Accept; GetResult is Return; a stage *)
(* step touches one pipeline p, so only the fate of p's context can move,  *)
(* and only when p is that context's current pipeline and its caller      *)
(* waits: FinishStage of the last stage is Decide(done), the first         *)
(* FailStage is Decide(failed), every other stage step is a stutter.  The *)
(* argument needs from IInv only the types and that a waiting caller's     *)
(* current pipeline is one of Pipes.                                       *)
(***************************************************************************)
EXTENDS QueryExecution_proofs

USE ConstantsAssumption

FateMap == [c \in Contexts |-> Fate(c)]

\* A waiting caller's current pipeline exists.
LEMMA CurrentPipe ==
    ASSUME IInv, NEW c \in Contexts, caller[c] = "waiting"
    PROVE  Current(c) \in Pipes
BY DEF IInv, TypeOK, ReplyIssued, Current, Pipes

LEMMA InitRefines == Init => QS!Init
BY DEF Init, QS!Init, Fate

(***************************************************************************)
(* A step that changes only the stages of pipeline p leaves the fate of    *)
(* every context unchanged except, possibly, that of p's context when p is *)
(* its current pipeline and it waits.                                      *)
(***************************************************************************)
LEMMA OtherFates ==
    ASSUME IInv, NEW p \in Pipes,
           caller' = caller, issued' = issued,
           \A q \in Pipes \ {p} : stage'[q] = stage[q],
           NEW c \in Contexts, ~(caller[c] = "waiting" /\ Current(c) = p)
    PROVE  Fate(c)' = Fate(c)
<1>1. CASE caller[c] = "idle"
  BY <1>1 DEF Fate
<1>2. CASE caller[c] = "waiting"
  <2>1. Current(c) \in Pipes \ {p} /\ Current(c)' = Current(c)
    BY <1>2, CurrentPipe DEF Current
  <2>2. stage'[Current(c)] = stage[Current(c)]
    BY <2>1
  <2>. QED
    BY <1>2, <2>1, <2>2 DEF Fate, AllDone, Failed
<1>. QED
  BY <1>1, <1>2 DEF IInv, TypeOK

LEMMA QueryRefines ==
    ASSUME IInv, NEW c \in Contexts, NEW r \in Requests, Query(c, r)
    PROVE  QS!Next
<1>1. caller[c] = "idle" /\ issued[c] < MaxQueries
      /\ issued' = [issued EXCEPT ![c] = @ + 1] /\ free' = free
  BY DEF Query
<1>2. CASE ErrorOf(r) # "none"
  <2>1. ErrorOf(r) \in CompileErrors
    BY <1>2 DEF ErrorOf, CompileErrors
  <2>2. caller' = caller /\ stage' = stage
        /\ reply' = [reply EXCEPT ![c] = ErrorOf(r)]
    BY <1>2 DEF Query
  <2>3. ASSUME NEW d \in Contexts PROVE Fate(d)' = Fate(d)
    <3>1. CASE d = c
      BY <1>1, <2>2, <3>1 DEF Fate
    <3>2. CASE d # c
      <4>1. Current(d)' = Current(d)
        BY <1>1, <3>2 DEF IInv, TypeOK, Current
      <4>. QED
        BY <2>2, <4>1 DEF Fate, AllDone, Failed
    <3>. QED
      BY <3>1, <3>2
  <2>4. QS!Reject(c, ErrorOf(r))
    BY <1>1, <2>2, <2>3 DEF QS!Reject, Fate
  <2>. QED
    BY <2>1, <2>4 DEF QS!Next, QS!CompileErrors, CompileErrors
<1>3. CASE ErrorOf(r) = "none"
  <2> DEFINE p == <<c, issued[c] + 1>>
  <2>1. /\ caller' = [caller EXCEPT ![c] = "waiting"]
        /\ stage' = [stage EXCEPT ![p] = [s \in Stages |-> "pending"]]
        /\ reply' = reply
    BY <1>3 DEF Query
  <2>2. p \in Pipes /\ Current(c)' = p
    BY <1>1 DEF IInv, TypeOK, Pipes, Current
  <2>3. Fate(c)' = "none"
    BY <2>1, <2>2 DEF IInv, TypeOK, Fate, AllDone, Failed
  <2>4. ASSUME NEW d \in Contexts, d # c PROVE Fate(d)' = Fate(d)
    <3>1. caller'[d] = caller[d] /\ Current(d)' = Current(d)
      BY <1>1, <2>1, <2>4 DEF IInv, TypeOK, Current
    <3>2. CASE caller[d] = "waiting"
      <4>1. Current(d) \in Pipes /\ Current(d) # p
        BY <3>2, <2>4, CurrentPipe DEF Current
      <4>2. stage'[Current(d)] = stage[Current(d)]
        BY <2>1, <4>1 DEF IInv, TypeOK
      <4>. QED
        BY <3>1, <4>2 DEF Fate, AllDone, Failed
    <3>. QED
      BY <3>1, <3>2 DEF Fate, IInv, TypeOK
  <2>5. QS!Accept(c)
    BY <1>1, <1>3, <2>1, <2>3, <2>4 DEF QS!Accept, Fate
  <2>. QED
    BY <2>5 DEF QS!Next
<1>. QED
  BY <1>2, <1>3


(***************************************************************************)
(* A stage step of pipeline p in which the fate of p's context, when p is  *)
(* its current pipeline and it waits, stays or goes from "none" to f, is   *)
(* a stutter of the service or its Decide step.                            *)
(***************************************************************************)
LEMMA DecideOrStutter ==
    ASSUME IInv, NEW p \in Pipes, NEW f \in {"done", "failed"},
           caller' = caller, issued' = issued, reply' = reply,
           \A q \in Pipes \ {p} : stage'[q] = stage[q],
           caller[p[1]] = "waiting" /\ Current(p[1]) = p =>
               \/ Fate(p[1])' = Fate(p[1])
               \/ Fate(p[1]) = "none" /\ Fate(p[1])' = f
    PROVE  [QS!Next]_QS!vars
<1> DEFINE c0 == p[1]
<1>1. c0 \in Contexts
  BY DEF Pipes
<1>2. ASSUME NEW c \in Contexts, c # c0 PROVE Fate(c)' = Fate(c)
  <2>1. Current(c) # p
    BY <1>2 DEF Current
  <2>. QED
    BY <1>2, <2>1, OtherFates
<1>3. CASE caller[c0] = "waiting" /\ Current(c0) = p /\ Fate(c0)' = Fate(c0)
  <2>1. \A c \in Contexts : Fate(c)' = Fate(c)
    BY <1>2, <1>3
  <2>2. FateMap' = FateMap
    BY <2>1 DEF FateMap
  <2>. QED
    BY <2>2 DEF QS!vars, FateMap
<1>4. CASE caller[c0] = "waiting" /\ Current(c0) = p /\ Fate(c0)' # Fate(c0)
  <2>1. Fate(c0) = "none" /\ Fate(c0)' = f
    BY <1>4
  <2>2. FateMap' = [FateMap EXCEPT ![c0] = f]
    BY <1>1, <1>2, <2>1 DEF FateMap
  <2>3. QS!Decide(c0, f)
    BY <1>1, <1>4, <2>1, <2>2 DEF QS!Decide, FateMap
  <2>. QED
    BY <1>1, <2>3 DEF QS!Next
<1>5. CASE ~(caller[c0] = "waiting" /\ Current(c0) = p)
  <2>1. \A c \in Contexts : Fate(c)' = Fate(c)
    BY <1>2, <1>5, OtherFates
  <2>2. FateMap' = FateMap
    BY <2>1 DEF FateMap
  <2>. QED
    BY <2>2 DEF QS!vars, FateMap
<1>. QED
  BY <1>3, <1>4, <1>5

\* Starting a stage decides nothing: a stage was pending before and one runs after.
LEMMA StartStageRefines ==
    ASSUME IInv, NEW p \in Pipes, NEW s \in Stages, StartStage(p, s)
    PROVE  [QS!Next]_QS!vars
<1>1. /\ stage[p][s] = "pending"
      /\ stage' = [stage EXCEPT ![p][s] = "running"]
      /\ caller' = caller /\ issued' = issued /\ reply' = reply
  BY DEF StartStage
<1>2. \A q \in Pipes, t \in Stages :
         stage'[q][t] = IF q = p /\ t = s THEN "running" ELSE stage[q][t]
  BY <1>1 DEF IInv, TypeOK
<1>3. \A q \in Pipes \ {p} : stage'[q] = stage[q]
  BY <1>1 DEF IInv, TypeOK
<1>4. ~AllDone(p) /\ ~AllDone(p)' /\ (Failed(p)' <=> Failed(p))
  BY <1>1, <1>2 DEF AllDone, Failed
<1>5. caller[p[1]] = "waiting" /\ Current(p[1]) = p => Fate(p[1])' = Fate(p[1])
  <2>1. Current(p[1])' = Current(p[1])
    BY <1>1 DEF Current
  <2>. QED
    BY <1>1, <1>4, <2>1 DEF Fate
<1>. QED
  BY <1>1, <1>3, <1>5, DecideOrStutter


\* Finishing a stage decides "done" when it was the last one, else nothing.
LEMMA FinishStageRefines ==
    ASSUME IInv, NEW p \in Pipes, NEW s \in Stages, FinishStage(p, s)
    PROVE  [QS!Next]_QS!vars
<1>1. /\ stage[p][s] = "running"
      /\ stage' = [stage EXCEPT ![p][s] = "done"]
      /\ caller' = caller /\ issued' = issued /\ reply' = reply
  BY DEF FinishStage
<1>2. \A q \in Pipes, t \in Stages :
         stage'[q][t] = IF q = p /\ t = s THEN "done" ELSE stage[q][t]
  BY <1>1 DEF IInv, TypeOK
<1>3. \A q \in Pipes \ {p} : stage'[q] = stage[q]
  BY <1>1 DEF IInv, TypeOK
<1>4. /\ ~AllDone(p)
      /\ Failed(p)' <=> Failed(p)
      /\ Failed(p) => ~AllDone(p)'
  BY <1>1, <1>2 DEF AllDone, Failed
<1>5. caller[p[1]] = "waiting" /\ Current(p[1]) = p =>
          \/ Fate(p[1])' = Fate(p[1])
          \/ Fate(p[1]) = "none" /\ Fate(p[1])' = "done"
  <2>1. Current(p[1])' = Current(p[1])
    BY <1>1 DEF Current
  <2>. QED
    BY <1>1, <1>4, <2>1 DEF Fate
<1>. QED
  BY <1>1, <1>3, <1>5, DecideOrStutter

\* A failing stage decides "failed" unless the query had already failed.
LEMMA FailStageRefines ==
    ASSUME IInv, NEW p \in Pipes, NEW s \in Stages, FailStage(p, s)
    PROVE  [QS!Next]_QS!vars
<1>1. /\ stage[p][s] = "running"
      /\ stage' = [stage EXCEPT ![p] =
                    [t \in Stages |->
                       IF t = s THEN "failed"
                       ELSE IF stage[p][t] = "pending" THEN "cancelled"
                       ELSE stage[p][t]]]
      /\ caller' = caller /\ issued' = issued /\ reply' = reply
  BY DEF FailStage
<1>2. stage'[p][s] = "failed"
  BY <1>1 DEF IInv, TypeOK
<1>3. \A q \in Pipes \ {p} : stage'[q] = stage[q]
  BY <1>1 DEF IInv, TypeOK
<1>4. ~AllDone(p) /\ ~AllDone(p)' /\ Failed(p)'
  BY <1>1, <1>2 DEF AllDone, Failed
<1>5. caller[p[1]] = "waiting" /\ Current(p[1]) = p =>
          \/ Fate(p[1])' = Fate(p[1])
          \/ Fate(p[1]) = "none" /\ Fate(p[1])' = "failed"
  <2>1. Current(p[1])' = Current(p[1])
    BY <1>1 DEF Current
  <2>. QED
    BY <1>1, <1>4, <2>1 DEF Fate
<1>. QED
  BY <1>1, <1>3, <1>5, DecideOrStutter

\* GetResult is the service's Return: the reply is what was decided.
LEMMA GetResultRefines ==
    ASSUME IInv, NEW c \in Contexts, GetResult(c)
    PROVE  QS!Next
<1>1. /\ caller[c] = "waiting"
      /\ AllDone(Current(c)) \/ Failed(Current(c))
      /\ caller' = [caller EXCEPT ![c] = "idle"]
      /\ reply' = [reply EXCEPT ![c] =
                     IF AllDone(Current(c)) THEN "OK" ELSE "QueryFailed"]
      /\ issued' = issued /\ stage' = stage
  BY DEF GetResult
<1>2. Fate(c) # "none" /\ Fate(c)' = "none"
  BY <1>1 DEF Fate, IInv, TypeOK
<1>3. reply'[c] = IF Fate(c) = "done" THEN "OK" ELSE "QueryFailed"
  BY <1>1 DEF Fate, IInv, TypeOK
<1>4. ASSUME NEW d \in Contexts, d # c PROVE Fate(d)' = Fate(d)
  BY <1>1, <1>4 DEF Fate, Current, AllDone, Failed, IInv, TypeOK
<1>5. FateMap' = [FateMap EXCEPT ![c] = "none"]
  BY <1>2, <1>4 DEF FateMap
<1>6. QS!Return(c)
  BY <1>1, <1>2, <1>3, <1>5 DEF QS!Return, FateMap, IInv, TypeOK
<1>. QED
  BY <1>6 DEF QS!Next


LEMMA NextRefines == IInv /\ [Next]_vars => [QS!Next]_QS!vars
<1> SUFFICES ASSUME IInv, [Next]_vars PROVE [QS!Next]_QS!vars
  OBVIOUS
<1>1. CASE \E c \in Contexts, r \in Requests : Query(c, r)
  BY <1>1, QueryRefines
<1>2. CASE \E p \in Pipes, s \in Stages : StartStage(p, s)
  BY <1>2, StartStageRefines
<1>3. CASE \E p \in Pipes, s \in Stages : FinishStage(p, s)
  BY <1>3, FinishStageRefines
<1>4. CASE \E p \in Pipes, s \in Stages : FailStage(p, s)
  BY <1>4, FailStageRefines
<1>5. CASE \E c \in Contexts : GetResult(c)
  BY <1>5, GetResultRefines
<1>6. CASE Terminated \/ UNCHANGED vars
  <2>1. caller' = caller /\ issued' = issued /\ reply' = reply /\ stage' = stage
    BY <1>6 DEF Terminated, vars
  <2>2. FateMap' = FateMap
    BY <2>1 DEF FateMap, Fate, Current, AllDone, Failed
  <2>. QED
    BY <2>1, <2>2 DEF QS!vars, FateMap
<1>. QED
  BY <1>1, <1>2, <1>3, <1>4, <1>5, <1>6 DEF Next

(***************************************************************************)
(* QueryContext::Query with the shared scheduler implements the service   *)
(* its callers are promised, for every set of contexts, stage DAG, pool    *)
(* size and query bound: every call raises a compile error or blocks, a    *)
(* blocked query is decided once, and the call returns what was decided.   *)
(***************************************************************************)
THEOREM Refinement == Spec => ImplementsService
<1>1. Init => QS!Init
  BY InitRefines
<1>2. IInv /\ [Next]_vars => [QS!Next]_QS!vars
  BY NextRefines
<1>. QED
  BY <1>1, <1>2, IInvHolds, PTL DEF Spec, ImplementsService, QS!Spec

=============================================================================
