---------------------------- MODULE MC_CppCleanUp ----------------------------
EXTENDS CppCleanUp
=============================================================================
