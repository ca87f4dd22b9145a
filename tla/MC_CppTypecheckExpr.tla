------------------------ MODULE MC_CppTypecheckExpr ------------------------
EXTENDS CppTypecheckExpr
=============================================================================
