------------------------------- MODULE CsrBlock -------------------------------
(***************************************************************************)
(* A sparse block of csr_block.rs: a sequence of rows, a row a sequence of *)
(* [at, value] in the order of their columns, at most one per column.      *)
(***************************************************************************)
EXTENDS Integers, Sequences, SequencesExt

(* The members of a set of numbers, in order. *)
Ascending(S) == [k \in 1..Cardinality(S) |-> CHOOSE x \in S : Cardinality({y \in S : y < x}) = k - 1]

ColumnsIn(row) == {row[e].at : e \in DOMAIN row}
ValueAt(row, k) == row[CHOOSE e \in DOMAIN row : row[e].at = k].value

(* Rows of the source go in one after the other, so the new rows ascend.   *)
Transposed(c, nCols) ==
  [k \in 1..nCols |->
     LET from == Ascending({j \in DOMAIN c : k \in ColumnsIn(c[j])})
     IN [e \in DOMAIN from |-> [at |-> from[e], value |-> ValueAt(c[from[e]], k)]]]

IsStructurallyValid(c, nCols) == \A i \in DOMAIN c : \A e \in DOMAIN c[i] : c[i][e].at \in 1..nCols
=============================================================================
