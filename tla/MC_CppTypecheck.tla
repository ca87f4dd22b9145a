-------------------------- MODULE MC_CppTypecheck --------------------------
(* Model-checking instance of CppTypecheck: three symbols, one item.       *)
EXTENDS CppTypecheck

=============================================================================
