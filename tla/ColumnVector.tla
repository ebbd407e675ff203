----------------------------- MODULE ColumnVector -----------------------------
(***************************************************************************)
(* ColumnVector handles and the VectorBuffers they point to.  The class    *)
(* itself is not in this excerpt; its operations follow spec 4.8 and what  *)
(* src/test/common/column_vector/column_vector_varchar.cpp expects of      *)
(* them.  A vector is a handle (initialized, vector type, capacity_,       *)
(* tail_index_, buffer_); the slots and the heap manager of variable-      *)
(* length values live in the buffer, which ShallowCopy shares between two  *)
(* handles.  Reset leaves buffer_ in place and detaches the buffer's heap  *)
(* manager (test lines 246-252 and 398-404: buffer_ non-null,              *)
(* buffer_->heap_mgr_ null).  A value is inline or heap-backed (spec 4.8,  *)
(* the inline threshold); a heap-backed slot needs the heap manager.       *)
(***************************************************************************)
EXTENDS Naturals

CONSTANTS
    Vectors,      \* ColumnVector objects (model values)
    BufIds,       \* addresses VectorBuffers can be allocated at
    InlineVals,   \* values at or below the inline threshold
    HeapVals,     \* values above it
    VectorSize,   \* DEFAULT_VECTOR_SIZE, the default capacity
    MaxCap        \* bound: largest capacity Reserve is asked for

Vals == InlineVals \cup HeapVals

Empty == "empty"
None == "none"

Slots == 0..(MaxCap - 1)

VARIABLES
    vec,    \* vec[v]: the fields of ColumnVector v
    buf     \* buf[b]: the slots of VectorBuffer b and whether heap_mgr_ is set

vars == <<vec, buf>>

Handles == [init : BOOLEAN, vtype : {"flat", "constant"}, cap : 0..MaxCap,
            tail : 0..MaxCap, buffer : BufIds \cup {None}]

TypeOK ==
    /\ vec \in [Vectors -> Handles]
    /\ buf \in [BufIds -> [slots : [Slots -> Vals \cup {Empty}], heap : BOOLEAN]]

\* Constructed, not yet initialised: ColumnVector column_vector(data_type).
Init ==
    /\ vec = [v \in Vectors |-> [init |-> FALSE, vtype |-> "flat", cap |-> 0,
                                 tail |-> 0, buffer |-> None]]
    /\ buf = [b \in BufIds |-> [slots |-> [i \in Slots |-> Empty], heap |-> FALSE]]

\* A buffer no other handle points to, which an allocation may reuse.
Unshared(b, v) == \A w \in Vectors \ {v} : vec[w].buffer # b

(***************************************************************************)
(* Initialize(capacity, type): legal on an uninitialised vector; allocates *)
(* a fresh buffer with an empty heap and sets the tail to 0.  A constant   *)
(* vector has the one slot of test line 184.                               *)
(***************************************************************************)
Initialize(v, t) ==
    /\ ~vec[v].init
    /\ \E b \in BufIds :
          /\ Unshared(b, v)
          /\ vec' = [vec EXCEPT ![v] = [init |-> TRUE, vtype |-> t,
                        cap |-> IF t = "constant" THEN 1 ELSE VectorSize,
                        tail |-> 0, buffer |-> b]]
          /\ buf' = [buf EXCEPT ![b] = [slots |-> [i \in Slots |-> Empty],
                                        heap |-> TRUE]]

(***************************************************************************)
(* AppendValue(x): a constant vector takes one value and then throws       *)
(* StorageError (test line 217); a flat one appends while below capacity.  *)
(* The value is written to slot tail_index_ of the buffer.                 *)
(***************************************************************************)
AppendValue(v, x) ==
    /\ vec[v].init
    /\ vec[v].tail < vec[v].cap
    /\ vec[v].vtype = "constant" => vec[v].tail = 0
    /\ buf' = [buf EXCEPT ![vec[v].buffer].slots[vec[v].tail] = x]
    /\ vec' = [vec EXCEPT ![v].tail = @ + 1]

(***************************************************************************)
(* Reserve(n): StorageError on a constant vector (test line 207), a no-op  *)
(* when n does not exceed the capacity (line 54), otherwise the capacity   *)
(* grows, slots and heap kept.                                             *)
(***************************************************************************)
Reserve(v, n) ==
    /\ vec[v].init
    /\ vec[v].vtype = "flat"
    /\ n > vec[v].cap
    /\ vec' = [vec EXCEPT ![v].cap = n]
    /\ UNCHANGED buf

(***************************************************************************)
(* dst.ShallowCopy(src), test lines 81-90: every field of src, buffer_     *)
(* included, is copied into dst; the two handles now share one buffer.     *)
(***************************************************************************)
ShallowCopy(dst, src) ==
    /\ dst # src
    /\ vec[src].init
    /\ vec' = [vec EXCEPT ![dst] = vec[src]]
    /\ UNCHANGED buf

(***************************************************************************)
(* Reset(), test lines 130-135 and 246-252: capacity and tail go to 0, the *)
(* vector is uninitialised, buffer_ stays set and its heap_mgr_ is reset.  *)
(***************************************************************************)
Reset(v) ==
    /\ vec' = [vec EXCEPT ![v].init = FALSE, ![v].cap = 0, ![v].tail = 0]
    /\ buf' = IF vec[v].buffer = None THEN buf
              ELSE [buf EXCEPT ![vec[v].buffer].heap = FALSE]

Next ==
    \/ \E v \in Vectors, t \in {"flat", "constant"} : Initialize(v, t)
    \/ \E v \in Vectors, x \in Vals : AppendValue(v, x)
    \/ \E v \in Vectors, n \in 0..MaxCap : Reserve(v, n)
    \/ \E dst, src \in Vectors : ShallowCopy(dst, src)
    \/ \E v \in Vectors : Reset(v)

Spec == Init /\ [][Next]_vars

\* GetValue(i) on vector v: TypeError at or past the tail (test line 75).
GetValue(v, i) ==
    IF i < vec[v].tail THEN buf[vec[v].buffer].slots[i] ELSE "TypeError"

-----------------------------------------------------------------------------
(***************************************************************************)
(* Spec 4.8: a shallow copy shares the heap buffer, whose lifetime is that *)
(* of the longer-lived holder: a heap-backed value an initialised vector   *)
(* can still read has its heap manager attached.                           *)
(***************************************************************************)
HeapValuesLive ==
    \A v \in Vectors : \A i \in Slots :
        vec[v].init /\ i < vec[v].tail /\ GetValue(v, i) \in HeapVals
            => buf[vec[v].buffer].heap

=============================================================================
