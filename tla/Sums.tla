-------------------------------- MODULE Sums --------------------------------
(***************************************************************************)
(* The sum of the values of a function, as a relation: amounts add up to a *)
(* total if as many coins as the total can be dealt out so that everybody  *)
(* has as many as his amount.  Nothing is defined by recursion, so what    *)
(* this says of a sum can be proved (SumProofs), also of a function with   *)
(* infinitely many arguments.                                              *)
(***************************************************************************)
EXTENDS Integers, FiniteSets

CoinsOf(holder, x) == {c \in DOMAIN holder : holder[c] = x}

AddsUp(amounts, total) ==
  \E holder \in [1 .. total -> DOMAIN amounts] :
    \A x \in DOMAIN amounts : amounts[x] = Cardinality(CoinsOf(holder, x))
=============================================================================
