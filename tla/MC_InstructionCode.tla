------------------------- MODULE MC_InstructionCode -------------------------
EXTENDS InstructionCode
=============================================================================
