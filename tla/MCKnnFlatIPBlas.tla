--------------------------- MODULE MCKnnFlatIPBlas ---------------------------
EXTENDS KnnFlatIPBlas

=============================================================================
