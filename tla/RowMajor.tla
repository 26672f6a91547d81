------------------------------- MODULE RowMajor -------------------------------
(***************************************************************************)
(* Arrays of given extents laid out row after row: the flat index of a     *)
(* position and the position of a flat index.                              *)
(***************************************************************************)
EXTENDS Integers, Sequences, FiniteSets, SequencesExt

Size(dims) == FoldLeft(LAMBDA a, b : a * b, 1, dims)
Stride(dims, i) == Size(SubSeq(dims, i + 1, Len(dims)))
Flat(dims, at) == FoldLeft(LAMBDA a, b : a + b, 0, [i \in DOMAIN dims |-> at[i] * Stride(dims, i)])
At(dims, f) == [i \in DOMAIN dims |-> (f \div Stride(dims, i)) % dims[i]]
Indices(dims) == 0 .. Size(dims) - 1
Grid(dims) == {At(dims, f) : f \in Indices(dims)}
Inside(dims, at) == \A i \in DOMAIN dims : at[i] \in 0 .. dims[i] - 1
=============================================================================
