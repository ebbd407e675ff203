# TLA+ models of the query core

This directory holds TLA+ models of the query compile-and-execute core in
`src/`. Each model comes with TLC configurations that check it on small
instances and TLAPS proofs of its main invariants for every instance.

## The system and its parts

`QueryContext::Query` (`src/src/main/query_context.cpp`) runs on the caller's
thread and works through these steps:

1. It parses the SQL text.
2. It checks that there is exactly one statement.
3. It builds the logical plan. Binding happens here, and `Binding::MakeBinding` creates one binding per table reference.
4. It optimises the plan.
5. It lowers the plan to physical operators.
6. It creates the pipeline.
7. It hands the pipeline to the process-wide scheduler (`Infinity::instance().scheduler()`).
8. It blocks in `pipeline->GetResult()`.

Each of steps 1 to 5 raises an exception on failure (ParseError, PlannerError,
BindError, ExecutorError), and nothing is scheduled after one of them fails.

The scheduler and pipeline are not in the excerpt. Spec sections 4.6, 4.7 and 5
describe them:

- A worker pool runs the stages of every submitted pipeline.
- A stage starts only when its producer stages are done.
- A failing operator cancels the query's remaining stages.
- `GetResult` returns once every stage is done or the query has failed.

The other parts that are in the excerpt:

- **`Profiler`** (`src/src/main/profiler.cpp`): a stopwatch with a human-readable rendering.
- **`KnnFlatIPBlas`** (`src/src/storage/indexstore/knn_flat/knn_flat_ip_blas.h`): the result arrays of flat inner-product kNN search, with per-query accessors.
- **`ColumnVector`**: visible only through its unit test (`src/test/common/column_vector/column_vector_varchar.cpp`).
- Smaller pieces:
  - the AND function and its registration
  - the insert binder's delegation
  - the `TableRef` and `ColumnIdentifier` declarations
  - cast and resource-counter tests

## Modules

| Module | Models | State | Actions |
|---|---|---|---|
| `QueryExecution` | `QueryContext::Query`, plus the scheduler from the spec | `caller`, `issued`, `reply`, `rootType` per context; `stage[p][s]` per pipeline; `free` workers | `Query`, `StartStage`, `FinishStage`, `FailStage`, `GetResult` |
| `Binding` | `Binding::MakeBinding`, both overloads | `pc`, `names`, `types`, loop counter `idx`, `name2index`, `result`, `outcome` | `Call`, `LoopStep` (one loop iteration), `Return` |
| `Profiler` | `Profiler` | `now`, `finished`, `begin_ts`, `end_ts` | `Begin`, `End`, `Tick` (the clock); operators `ElapsedInternal` and `ElapsedToString` |
| `KnnFlatIPBlas` | constructor, `GetDistances`/`GetIDs` and the `Get*ByIdx` accessors | `query_count`, `top_k`, array lengths, the last slice returned | `GetDistanceByIdx`, `GetIDByIdx` |
| `QueryService` | the promise `Query` makes its caller (spec 4.7, 5, 7), stages hidden | `caller`, `issued`, `reply`, `fate` per context | `Reject`, `Accept`, `Decide`, `Return` |
| `QueryResult` | `QueryResult::ToString` | `rootType`, `columns`, `blocks`, loop `pc` and `idx`, the stream `ss`, the returned `out` | `CallToString` (the switch), `HeaderStep`, `HeaderEnd`, `BlockStep`, `Return` |
| `ColumnVector` | `ColumnVector` as the varchar test and spec 4.8 show it | `vec[v]` (initialized, type, capacity, tail, `buffer_`) per handle; `buf[b]` (slots, heap manager attached) per VectorBuffer | `Initialize`, `AppendValue`, `Reserve`, `ShallowCopy`, `Reset`; operator `GetValue` |
| `QueryExecution_proofs` | TLAPS proofs about `QueryExecution` | | |
| `QueryRefinement_proofs` | TLAPS proof that `QueryExecution` implements `QueryService` | | |
| `Binding_proofs`, `Profiler_proofs` | TLAPS proofs of `TypeOK` and `BindingCorrect` (Binding), `ElapsedNonNegative`, `ElapsedReadable` | | |
| `QueryResult_proofs` | TLAPS proof of `RenderingCorrect`, with the loop invariant of `ToString` | | |

`PROJECT.json` maps every definition to the lines of code it translates. Some
definitions model code that is not under `src/`; those are marked
`spec_modelled`.

In `QueryExecution`:

- A pipeline is named `<<context, n>>`, where `n` is the number of the context's Query call.
- The compile phase is a single action, `Query`, because it touches no shared state. `ErrorOf` gives the outcome of each request shape, in the order the code checks.
- A stage runs as one step. This follows spec 5: a batch completes or fails atomically.
- `GetResult` wakes the caller. The reply is `OK` if the pipeline completed and `QueryFailed` if it failed.
- `Fate(c)` is the refinement mapping to `QueryService`: an idle caller has nothing decided; a waiting caller's query is `done` when every stage of its current pipeline is done, `failed` when a stage failed, and undecided otherwise. `QS == INSTANCE QueryService WITH fate <- ...` and `ImplementsService == QS!Spec`.

In `QueryResult`, the stringstream is the sequence of pieces written to it (a column name, a block rendering, `" "` or the newline), and each loop iteration is a step, so the order of writes and the separator test are visible. `Rendering` is the reference output of spec 6 and end-to-end scenario 2.

In `ColumnVector`, the class is not in `src/`. Its operations follow spec 4.8 and what `column_vector_varchar.cpp` expects (the map names those test lines):

- `Initialize` allocates a fresh buffer with an attached heap; a constant vector gets one slot (test line 188).
- `AppendValue` writes slot `tail` of the handle's buffer; a constant vector refuses a second value (line 217).
- `Reserve` throws on a constant vector (line 207), is a no-op when not growing (line 55), and otherwise grows the capacity, keeping slots and heap.
- `ShallowCopy` copies every field, `buffer_` included (lines 81-90), so two handles share one buffer with separate tails.
- `Reset` zeroes capacity and tail and leaves `buffer_` set, but nulls the buffer's `heap_mgr_` (lines 246-252).

A value is a model value that is either inline or heap-backed. Whether a `Reserve` on one handle of a shared pair moves the other handle's data is decided by code outside the excerpt; the model keeps the shared slots.

## Runs

| Run | Config | Bounds | Checks | Result |
|---|---|---|---|---|
| qe_safety | `MCQueryExecution.cfg` | 2 contexts, 2 workers, 2 queries each, stages 1,2 → 3 (a join) | `TypeOK`, `WorkerConservation`, `NoPartialResult` | pass |
| qe_liveness | `MCQueryExecutionLive.cfg` | same, 1 query each, `FairSpec` | `QueryReturns` | pass |
| qe_inflight | `MCQueryExecutionInFlight.cfg` | as qe_safety | `OneInFlight` | violation (expected) |
| binding | `MCBinding.cfg` | names {n1,n2}, types {t1,t2}, up to 3 columns | `TypeOK`, `BindingCorrect` | pass |
| profiler | `MCProfiler.cfg` | clock readings on and one past 10^3, 10^6 and 10^9 ns | `ElapsedNonNegative`, `ElapsedReadable` | pass |
| knn_index | `MCKnnFlatIPBlas.cfg` | query_count and topk in 0..2, idx in -1..2 | `SliceInBounds` | violation (expected) |
| qe_refinement | `MCQueryExecutionRefine.cfg` | as qe_safety | `ImplementsService` (`QS!Spec`) | pass |
| query_result | `MCQueryResult.cfg` | every root type; names {a,b} in up to 3 columns; blocks {k1,k2}, up to 2 | `RenderingCorrect` | pass |
| cv_reset | `MCColumnVectorReset.cfg` | two handles, two buffers, one inline and one heap value, default capacity 1, Reserve up to 2 | `HeapValuesLive` | violation (expected) |

Why these bounds are enough:

- **QueryExecution.** Two contexts and two workers are the smallest setting with contention for the pool. Two queries per context are the smallest setting in which a failed query can overlap the context's next one. Three stages with a join are the smallest setting with two independent stages (so one can fail while the other runs) and a dependent stage (so cancellation matters). Symmetry over contexts is sound because no definition distinguishes them.
- **Binding.** Two names and three columns cover every pattern of duplicates: none, adjacent, separated and repeated.
- **Profiler.** The clock readings are chosen so that their differences land exactly on each unit boundary and one past it. The model's clock only moves forward (`Tick`): `Now()` is declared in `profiler.h`, outside `src/`, and is assumed to read a monotonic (steady) clock. With a clock that can step back, `ElapsedNonNegative` would not hold, and nothing in `src/` rules that out.
- **QueryResult.** Three columns over two names give zero, one and several separators and repeated names; two blocks show their order.
- **ColumnVector.** Two handles are the vector and its clone of the test. Two buffer addresses let one handle re-initialise while the other still holds the old buffer. A default capacity of 1 with Reserve to 2 reaches a full vector, a grown one and the constant vector's single slot. One inline and one heap value are enough to tell a heap-backed slot from one that needs no heap. Symmetry over handles and over buffer addresses is sound, because no definition names one of them.

Fairness (qe_liveness only):

- Each worker finishes or fails the stage it runs, because no operator yields mid-batch (spec 5).
- The pool keeps starting ready stages while a thread is free.
- A woken caller returns.
- Callers are not required to issue more queries.

Each run also comes with mutants, listed in `PROJECT.json`. Each mutant is a
plausible bug in one mapped definition, for example:

- a stage started before its producers are done;
- a worker that is not returned to the pool;
- no cancellation on failure;
- first-wins instead of last-wins in the binding map;
- `finished_` not cleared by `Begin`;
- the wrong `duration_cast`.

For every checked property, at least one mutant breaks it.

## Findings

- **qe_inflight (spec gap).** Spec 4.7 bounds `GetResult` only from below: it returns no earlier than the query completes or fails. It also promises at most one pipeline in flight per context. What it leaves open is whether `GetResult` waits for the stages that were already running when a sibling failed to drain. If it returns at the failure, those stages keep their workers, Query returns, and the same context schedules its next pipeline (`query_context.cpp:103`) while the old one still runs.
- **cv_reset (divergence between the test and spec 4.8).** The test expects `Reset` to null `buffer_->heap_mgr_` and keep `buffer_` (`column_vector_varchar.cpp:251`), and `ShallowCopy` copies `buffer_` itself (line 88). Initialize, append a heap-backed value, shallow copy, then reset the source: the copy is still initialised and its heap string has no heap. Spec 4.8 says the shared heap lives as long as the longer-lived holder.
- **knn_index (code bug).** `GetDistanceByIdx` and `GetIDByIdx` reject only `idx >= query_count_`. A negative index returns a pointer before the result arrays (`knn_flat_ip_blas.h:59`, `:67`).

## What is proved

`QueryExecution_proofs.tla` proves `Spec => []IInv` with TLAPS, for all
constants that satisfy `ConstantsAssumption`:

- a non-empty finite set of contexts;
- a finite set of stages whose dependencies point to lower-numbered stages;
- positive numbers of workers and queries.

From `Spec => []IInv` it derives three theorems:

- `TypeCorrect` (`TypeOK`)
- `PoolConserved` (`WorkerConservation`)
- `ResultsComplete` (`NoPartialResult`)

The inductive invariant `IInv` is the conjunction of `TypeOK`,
`WorkerConservation` and `NoPartialResult` with two strengthenings:

- **`Unissued`**: a pipeline that has not been issued has every stage at `none`. Without it, `Query` could seem to reset a pipeline with running stages, which would break `WorkerConservation`.
- **`ReplyIssued`**: a waiting caller, or a caller with reply `OK`, has issued at least one query. This keeps `Current(c)` inside `Pipes`.

The proof has one lemma per action. For each action, it computes the new set
`Running` and uses `FiniteSetTheorems` to track its cardinality. A shared lemma,
`SetStage`, states what a one-stage update does to the stage map and to
`Running`.

The same module proves `CancelledHolds` (`Spec => []CancelledOnFailure`): a
pipeline with a failed stage has no stage left pending, so the scheduler has
nothing of a failed query left to start (spec 4.7). That invariant holds for
three reasons:

- `FailStage` cancels every pending stage of the query in the step that marks the failure.
- `StartStage` and `FinishStage` create no pending stage and no failure.
- `Query` fills only a pipeline that was never created. By `Unissued` that pipeline has no failed stage.

TLC checked `CancelledOnFailure` on the `qe_safety` instance (279,920 states)
before the proof was written.

`QueryRefinement_proofs.tla` proves `Refinement`: `Spec => ImplementsService`,
that is `QueryExecution` implements `QueryService` under `Fate`, for the same
constants. Initial states map to `QS!Init`. Under `IInv`, every step maps to a
service step or a stutter:

- `Query` maps to `Reject` or `Accept`.
- `GetResult` maps to `Return`. Its reply matches the fate that was decided.
- A stage step touches one pipeline `p`. Lemma `OtherFates` shows that only the fate of `p`'s own context can change, and only when `p` is its current pipeline and it waits. Lemma `DecideOrStutter` turns "that fate stays, or goes from undecided to `f`" into a `Decide` step or a stutter. `FinishStage` of the last stage decides `done`, the first `FailStage` decides `failed`, and everything else stutters. A failure can never become a completion, because the failed stage stays failed.

From `IInv` the refinement proof needs only the types and that a waiting caller's current pipeline is one of `Pipes`.

`Binding_proofs.tla` proves `BindingsCorrect` (`Spec => []BindingCorrect`) for
name and type lists of every length. The invariant is the loop invariant of
`binding.cpp` lines 26-28, stated without `CHOOSE` as `MapsLast(names, idx,
name2index)`: the map covers exactly the first `idx` names, each mapped to
its last position among them. `LoopStep` extends it by one position. Lemma
`LastPosUnique` shows that a position with that property is unique, so it is
the `LastPos` of the property.

The same module proves `TypeCorrect` (`Spec => []TypeOK` for `Binding`).
`TypeOK` is inductive by itself. The argument is that the position `LoopStep`
stores fits the map's range `0..MaxColumns - 1`. Lemma `ListLen` shows that a
caller's list has at most `MaxColumns` items, and the loop guard gives
`idx < Len(names)`. Lemma `AssignType` shows that an insert keeps the map a
partial function from names to positions.

`QueryResult_proofs.tla` proves `RenderingAlwaysCorrect`
(`Spec => []RenderingCorrect`) for every number of columns and blocks.
`RenderingCorrect` speaks only of the returned string, so it is not inductive.
The inductive invariant says what the stringstream holds at each point of each
loop of `query_context.cpp` lines 45-63:

- **`HeaderLoop`**: after `idx` names, the stream holds the newline and `HeaderPrefix(columns, idx)`. That is the first `idx` names, each followed by a space except the last one of the list. It is defined position by position, like `Joined`: odd positions hold names, even positions hold spaces.
- **`BlockLoop`**: the stream holds the whole header line and `SubSeq(blocks, 1, idx)`.

Four lemmas carry the proof:

- `HeaderPrefixStep`: one iteration of the header loop extends the prefix by one name and its separator.
- `HeaderPrefixFull`: after the last name the prefix is the reference header `Joined(columns)`, or nothing for no columns.
- `BlocksStep`: one iteration of the block loop extends the block prefix by one block.
- `AssocPieces`: associativity of `\o` with the piece type fixed.

They are proved element by element with `SequenceTheorems` (`SeqEqual`,
`ConcatProperties`, `SubSeqRecursiveSecond`, `SubSeqFull`). TLC checked the
inductive invariant on the `query_result` instance before the proof was written.

`Profiler_proofs.tla` proves two theorems for every set of clock readings
(`ProfilerAssumption`):

- `ElapsedNeverNegative`. The invariant `Ordered` says both time points are at most the clock, and a stopped watch stopped after it started. Without it, a `Begin` after `End` would look as if it could make the duration negative.
- `AlwaysReadable`. Lemma `RenderingTruncates` proves the rendering correct for every duration `d` in `Nat`, one case per unit.

Some things stay with TLC:

- Liveness (`QueryReturns`, and the liveness half of the service refinement), because it needs fairness and ENABLED reasoning, which the installed provers do not handle.
- The violation runs. They show counterexamples, which a proof cannot.

Every other invariant and action property of a passing run has a theorem.

## Not modelled

- **ColumnVector, partly**: the module serves one question, the lifetime of the heap that `ShallowCopy` shares (run cv_reset); its capacity and constant-vector rules are single guards, not checked as properties. The null bitmap, the logical data type and `SetDataType`/`SetVectorType` are left out. Those two calls only throw once the vector is initialised (test lines 38-39), and no property distinguishes their data.
- **The AND function** (`and.cpp`): `AndFunction::Run` is `left and right` on booleans, a pure function. `RegisterAndFunction` makes one insertion into a `Catalog` whose `AddFunctionSet` is not in the excerpt.
- **Insert binder** (`insert_binder.cpp`): it only delegates to `ExpressionBinder::BuildExpression`, which is not in the excerpt. Its failure is the `BindError` path of `Query`.
- **`TableRef` and `ColumnIdentifier`** (`table_ref.h`, `column_identifier.h`): a constructor that stores its two arguments, and declarations whose definitions are not in the excerpt. They have no state and no control flow.
- **`KnnFlatIPBlas::Begin`, `Search`, `End`**: they are declared but not defined in the excerpt.
- **Parser, optimiser rules, physical planner and pipeline builder**: they are not in the excerpt. They appear in the model only as the error outcomes of `Query` and as the stage DAG `Deps`.

## Plan for later work

1. A refinement of `QueryResult` to a one-step `ToString`, and of `Binding` to a one-step `MakeBinding`. Both could reuse the loop invariants proved here.
2. Liveness of the refinement: under `Fairness`, every `Accept` is followed by a `Return`. This stays with TLC.
