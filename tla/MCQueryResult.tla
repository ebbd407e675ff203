---------------------------- MODULE MCQueryResult ----------------------------
EXTENDS QueryResult, TLC

\* Column names are interchangeable, and so are block renderings.
PieceSymmetry == Permutations(ColumnNames) \cup Permutations(Blocks)

=============================================================================
