------------------------- MODULE MC_BmcProperties -------------------------
(* Model-checking instance of BmcProperties: two properties of the program *)
(* and the loop's unwinding assertion, unwound up to depth 2.              *)
EXTENDS BmcProperties, TLC

CONSTANTS p1, p2, ua

MCProps == {p1, p2}

\* The property identifiers are interchangeable.
MCSymmetry == Permutations(MCProps)

=============================================================================
