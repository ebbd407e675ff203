---------------------------- MODULE KnnFlatIPBlas ----------------------------
(***************************************************************************)
(* The result side of KnnFlatIPBlas (src/src/storage/indexstore/knn_flat/  *)
(* knn_flat_ip_blas.h): the constructor sizes the id and distance arrays   *)
(* for top_k results per query and hands them to the heap result handler;  *)
(* GetDistanceByIdx and GetIDByIdx return the slice of query idx, starting *)
(* at element idx * top_k_, after checking the index.  Arrays are modelled *)
(* by their lengths and an access by the element range it exposes.        *)
(* Begin, Search and End are declared here but defined outside this        *)
(* excerpt; they fill the arrays and do not change their sizes.            *)
(***************************************************************************)
EXTENDS Integers

CONSTANTS
    MaxQueryCount,  \* largest query_count a caller constructs with (in Nat)
    MaxTopK         \* largest topk a caller constructs with (in Nat)

VARIABLES
    query_count,  \* query_count_
    top_k,        \* top_k_
    idLen,        \* elements of *id_array_ (heap_ids_tab)
    disLen,       \* elements of distance_array_ (heap_dis_tab)
    access        \* the slice the last Get*ByIdx call returned, or its error

vars == <<query_count, top_k, idLen, disLen, access>>

\* sizeof(f32): the one instantiation, KnnFlatIPBlas<f32>, line 86.
SizeOfDistType == 4

\* Indices a caller may pass: an i64, so one below zero as well.
Indices == -1..MaxQueryCount

NoAccess == [table |-> "none", first |-> 0, last |-> 0]

TypeOK ==
    /\ query_count \in 0..MaxQueryCount
    /\ top_k \in 0..MaxTopK
    /\ idLen \in Nat /\ disLen \in Nat
    /\ access \in [table : {"none", "ids", "distances", "ExecutorError"},
                   first : Int, last : Int]

(***************************************************************************)
(* The constructor, lines 19-34, for some query_count and topk: the      *)
(* id_array_ holds topk * query_count entries and distance_array_          *)
(* sizeof(DistType) * topk * query_count.                                  *)
(***************************************************************************)
Init ==
    \E qc \in 0..MaxQueryCount, k \in 0..MaxTopK :
        /\ query_count = qc /\ top_k = k
        /\ idLen = k * qc
        /\ disLen = SizeOfDistType * k * qc
        /\ access = NoAccess

\* The slice [idx * top_k_, idx * top_k_ + top_k_ - 1] of table t, or the
\* ExecutorError of the index check of lines 59-61 and 67-69.
Slice(t, idx) ==
    IF idx >= query_count THEN [table |-> "ExecutorError", first |-> 0, last |-> 0]
    ELSE [table |-> t, first |-> idx * top_k, last |-> idx * top_k + top_k - 1]

\* GetDistances and GetIDs, lines 47-55: the whole table of the result
\* handler, top_k_ results for each of the query_count_ queries.
GetDistances ==
    /\ access' = [table |-> "distances", first |-> 0, last |-> query_count * top_k - 1]
    /\ UNCHANGED <<query_count, top_k, idLen, disLen>>

GetIDs ==
    /\ access' = [table |-> "ids", first |-> 0, last |-> query_count * top_k - 1]
    /\ UNCHANGED <<query_count, top_k, idLen, disLen>>

\* GetDistanceByIdx, lines 57-63.
GetDistanceByIdx(idx) ==
    /\ access' = Slice("distances", idx)
    /\ UNCHANGED <<query_count, top_k, idLen, disLen>>

\* GetIDByIdx, lines 65-71.
GetIDByIdx(idx) ==
    /\ access' = Slice("ids", idx)
    /\ UNCHANGED <<query_count, top_k, idLen, disLen>>

Next ==
    \/ GetDistances \/ GetIDs
    \/ \E idx \in Indices : GetDistanceByIdx(idx) \/ GetIDByIdx(idx)

Spec == Init /\ [][Next]_vars

-----------------------------------------------------------------------------
(***************************************************************************)
(* Result access is bounds-checked (spec 7: an index out of range in       *)
(* result access is an ExecutorError): a slice Get*ByIdx returns lies      *)
(* inside the array it points into.                                        *)
(***************************************************************************)
SliceInBounds ==
    access.table \in {"ids", "distances"} /\ access.first <= access.last =>
        /\ 0 <= access.first
        /\ access.last < IF access.table = "ids" THEN idLen ELSE disLen

=============================================================================
