------------------------------- MODULE Shapes -------------------------------
(* The shapes of tensors.                                                  *)
EXTENDS Integers, Sequences

(* Specification only: the elements a shape stands for, as an integer of   *)
(* no width.  The code multiplies in machine integers.                     *)
Product(shape) == LET p[k \in 0..Len(shape)] == IF k = 0 THEN 1 ELSE p[k - 1] * shape[k]
                  IN p[Len(shape)]
=============================================================================
