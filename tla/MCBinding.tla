------------------------------ MODULE MCBinding ------------------------------
EXTENDS Binding, TLC

\* Two names make duplicates possible in every list of two or more columns.
NameSymmetry == Permutations(Names)

=============================================================================
