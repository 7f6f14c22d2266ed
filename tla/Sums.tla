--------------------------------- MODULE Sums ---------------------------------
(* The sum of the values of a function with a finite domain. *)
EXTENDS Integers, Functions

Sum(f) == FoldFunction(+, 0, f)
===============================================================================
