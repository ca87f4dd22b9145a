------------------------ MODULE InstructionCodeProofs ------------------------
(***************************************************************************)
(* Proofs about the instruction classes of goto_instruction_code.h, for     *)
(* every set of value types and every length of argument list: an          *)
(* instruction built by a constructor and edited through its class's       *)
(* accessors passes its class's check(), and an accessor of a successfully *)
(* cast reference never reads past the operands.                           *)
(***************************************************************************)
EXTENDS InstructionCode, SequenceTheorems, TLAPS

\* An instruction: a statement and a sequence of expressions.
Instruction == [statement : Stmt, ops : Seq(Expr)]

\* The instruction is well formed.
CodeOK == code \in Instruction

\* The inductive invariant: check() holds of the instruction while only
\* typed accessors changed it, and for as long as a successful cast of it
\* is in use; no accessor read has gone wrong.
CheckInv ==
    /\ CodeOK
    /\ ~generic => Check(code)
    /\ cast = "ok" => Check(code)
    /\ CastAccessSafe

USE InstructionAssumption


\* The operands the constructors and accessors write are expressions.
LEMMA ExprMembers ==
    /\ Nil \in Expr
    /\ Operand \subseteq Expr
    /\ Symbols \subseteq Expr
    /\ \A as \in ArgLists : Arguments(as) \in Expr
    /\ Arguments(<< >>) \in Expr
<1>1. << >> \in ArgLists
  <2>1. << >> \in [1 .. 0 -> Operand]
    OBVIOUS
  <2>. QED
    BY <2>1 DEF ArgLists
<1>. QED
  BY <1>1 DEF Expr, Operand, Symbols

\* The operand vectors the constructors build are sequences.
LEMMA TupleSeq ==
    ASSUME NEW S, NEW a \in S, NEW b \in S, NEW c \in S
    PROVE  /\ <<a>> \in Seq(S)
           /\ <<a, b>> \in Seq(S)
           /\ <<a, b, c>> \in Seq(S)
<1>1. /\ <<a>> \in [1 .. 1 -> S]
      /\ <<a, b>> \in [1 .. 2 -> S]
      /\ <<a, b, c>> \in [1 .. 3 -> S]
  OBVIOUS
<1>. QED
  BY <1>1, SeqDef

\* What check() and the accessors amount to for each statement.
LEMMA CheckCases ==
    ASSUME NEW c
    PROVE  /\ c.statement = "assign" =>
                 Check(c) = CheckAssign(c) /\ AccessorOps(c.statement) = 2
           /\ c.statement = "dead" =>
                 Check(c) = CheckDead(c) /\ AccessorOps(c.statement) = 1
           /\ c.statement = "function_call" =>
                 Check(c) = CheckCall(c) /\ AccessorOps(c.statement) = 3
           /\ c.statement \in {"assume", "assert"} =>
                 Check(c) = CheckOneOperand(c) /\ AccessorOps(c.statement) = 1
BY DEF Check, AccessorOps

\* Every constructor builds a well-formed instruction that passes check().
LEMMA ConstructedChecks ==
    \A c \in Constructed : c \in Instruction /\ Check(c)
<1> SUFFICES ASSUME NEW c \in Constructed PROVE c \in Instruction /\ Check(c)
  OBVIOUS
<1> USE ExprMembers DEF Instruction, Check, CheckAssign, CheckDead, CheckCall,
                        CheckOneOperand, Code, Stmt
<1>1. CASE c = AssignDefault
  BY <1>1 DEF AssignDefault
<1>2. CASE \E l, r \in Operand : c = Assign(l, r)
  BY <1>2 DEF Assign
<1>3. CASE \E sym \in Symbols : c = Dead(sym)
  BY <1>3 DEF Dead, Symbols
<1>4. CASE \E f \in Operand : c = CallOf(f)
  <2>1. PICK f \in Operand : c = CallOf(f)
    BY <1>4
  <2>2. <<Nil, f, Arguments(<< >>)>> \in Seq(Expr)
    BY TupleSeq
  <2>. QED
    BY <2>1, <2>2 DEF CallOf
<1>5. CASE \E l, f \in Operand, as \in ArgLists : c = Call(l, f, as)
  <2>1. PICK l, f \in Operand, as \in ArgLists : c = Call(l, f, as)
    BY <1>5
  <2>2. <<l, f, Arguments(as)>> \in Seq(Expr)
    BY TupleSeq
  <2>. QED
    BY <2>1, <2>2 DEF Call
<1>6. CASE \E f \in Operand, as \in ArgLists : c = CallArgs(f, as)
  <2>1. PICK f \in Operand, as \in ArgLists : c = CallArgs(f, as)
    BY <1>6
  \* The argument list replaces the third operand of CallOf(function).
  <2>2. c = Code("function_call", <<Nil, f, Arguments(as)>>)
    <3>1. [<<Nil, f, Arguments(<< >>)>> EXCEPT ![3] = Arguments(as)]
            = <<Nil, f, Arguments(as)>>
      <4>1. \A x, y, z : [<<x, f, y>> EXCEPT ![3] = z] = <<x, f, z>>
        OBVIOUS
      <4>. QED
        BY <4>1, Zenon
    <3>. QED
      BY <2>1, <3>1 DEF CallArgs, CallOf, Code
  <2>3. <<Nil, f, Arguments(as)>> \in Seq(Expr)
    BY TupleSeq
  <2>. QED
    BY <2>2, <2>3
<1>7. CASE \E e \in Operand : c = Assume(e) \/ c = Assert(e)
  <2>1. PICK e \in Operand : c = Assume(e) \/ c = Assert(e)
    BY <1>7
  <2>2. <<e>> \in Seq(Expr)
    BY TupleSeq
  <2>. QED
    <3>1. c.statement \in {"assume", "assert"} /\ c.ops = <<e>>
      BY <2>1 DEF Assume, Assert, Code
    <3>2. Check(c) = CheckOneOperand(c)
      BY <3>1, CheckCases
    <3>. QED
      BY <2>1, <2>2, <3>1, <3>2 DEF Assume, Assert, Code, CheckOneOperand
<1>. QED
  BY <1>1, <1>2, <1>3, <1>4, <1>5, <1>6, <1>7 DEF Constructed

\* Replacing one operand keeps the statement and the number of operands.
LEMMA ReplaceOperand ==
    ASSUME NEW c \in Instruction, NEW i \in 1 .. Len(c.ops), NEW e \in Expr
    PROVE  LET d == [c EXCEPT !.ops[i] = e]
           IN  /\ d \in Instruction
               /\ d.statement = c.statement
               /\ Len(d.ops) = Len(c.ops)
               /\ d.ops[i] = e
               /\ \A j \in 1 .. Len(c.ops) \ {i} : d.ops[j] = c.ops[j]
BY DEF Instruction

-----------------------------------------------------------------------------

LEMMA CheckInit == Init => CheckInv
BY ConstructedChecks DEF Init, CheckInv, CodeOK, Instruction, CastAccessSafe

LEMMA CheckStep == CheckInv /\ [Next]_vars => CheckInv'
<1> SUFFICES ASSUME CheckInv, [Next]_vars PROVE CheckInv'
  OBVIOUS
<1>0. code \in Instruction
  BY DEF CheckInv, CodeOK, Instruction
<1>1. CASE TypedEdit
  \* The edit is allowed only while check() holds, and it writes an
  \* operand the class's accessor may write: a symbol for code_deadt.
  <2>1. Check(code)
    BY <1>1 DEF TypedEdit, CheckInv
  <2>2. PICK i \in 1 .. AccessorOps(code.statement), e \in Expr :
              /\ i <= Len(code.ops)
              /\ code.statement = "dead" => e \in Symbols
              /\ code' = [code EXCEPT !.ops[i] = e]
    BY <1>1, ExprMembers DEF TypedEdit
  <2>3. i \in 1 .. Len(code.ops)
    BY <2>2, <1>0 DEF AccessorOps, Instruction
  <2>4. /\ code' \in Instruction
        /\ code'.statement = code.statement
        /\ Len(code'.ops) = Len(code.ops)
        /\ code'.ops[i] = e
    BY <1>0, <2>2, <2>3, ReplaceOperand
  <2>5. Check(code')
    BY <2>1, <2>2, <2>3, <2>4 DEF Check, CheckAssign, CheckDead, CheckCall,
                                 CheckOneOperand, Symbols
  <2>. QED
    BY <1>1, <2>4, <2>5 DEF TypedEdit, CheckInv, CodeOK, Instruction, CastAccessSafe
<1>2. CASE GenericEdit
  \* Any change is allowed, but it marks the instruction and drops the cast.
  <2>1. code' \in Instruction
    <3>1. CASE \E i \in 1 .. Len(code.ops), e \in Operand :
                 code' = [code EXCEPT !.ops[i] = e]
      BY <1>0, <3>1, ReplaceOperand, ExprMembers
    <3>2. CASE \E n \in 0 .. 3 :
                 code' = [code EXCEPT !.ops = [j \in 1 .. n |->
                                        IF j <= Len(code.ops) THEN code.ops[j]
                                        ELSE Nil]]
      <4>1. PICK n \in 0 .. 3 :
                 code' = [code EXCEPT !.ops = [j \in 1 .. n |->
                                        IF j <= Len(code.ops) THEN code.ops[j]
                                        ELSE Nil]]
        BY <3>2
      <4>2. \A j \in 1 .. Len(code.ops) : code.ops[j] \in Expr
        BY <1>0, ElementOfSeq DEF Instruction
      <4>3. [j \in 1 .. n |-> IF j <= Len(code.ops) THEN code.ops[j] ELSE Nil]
              \in [1 .. n -> Expr]
        BY <4>2, ExprMembers
      <4>4. [j \in 1 .. n |-> IF j <= Len(code.ops) THEN code.ops[j] ELSE Nil]
              \in Seq(Expr)
        BY <4>3, SeqDef
      <4>. QED
        BY <1>0, <4>1, <4>4 DEF Instruction
    <3>. QED
      BY <1>2, <3>1, <3>2 DEF GenericEdit
  <2>2. generic' /\ cast' = "none"
    BY <1>2, Zenon DEF GenericEdit
  <2>. QED
    BY <1>2, <2>1, <2>2 DEF GenericEdit, CheckInv, CodeOK, Instruction, CastAccessSafe
<1>3. CASE CastTo
  BY <1>3 DEF CastTo, CheckInv, CodeOK, CastAccessSafe
<1>4. CASE ReadAccessor
  \* The cast succeeded, so check() holds: every index an accessor uses is
  \* in range and code_deadt's operand is a symbol.
  <2>1. Check(code)
    BY <1>4 DEF ReadAccessor, CheckInv
  <2>2. PICK i \in 1 .. AccessorOps(code.statement) :
              access' = IF i > Len(code.ops) THEN "out_of_range"
                        ELSE IF code.statement = "dead" /\ code.ops[i].id # "symbol"
                             THEN "bad_cast" ELSE "in_range"
    BY <1>4 DEF ReadAccessor
  <2>3. i <= Len(code.ops)
    <3>1. CASE code.statement = "assign"
      BY <2>1, <3>1 DEF AccessorOps, Check, CheckAssign
    <3>2. CASE code.statement = "function_call"
      BY <2>1, <3>2 DEF AccessorOps, Check, CheckCall
    <3>3. CASE code.statement = "dead"
      BY <2>1, <3>3 DEF AccessorOps, Check, CheckDead
    <3>4. CASE code.statement \in {"assume", "assert"}
      <4>1. Check(code) = CheckOneOperand(code) /\ AccessorOps(code.statement) = 1
        BY <3>4, CheckCases
      <4>2. Len(code.ops) = 1
        BY <2>1, <4>1 DEF CheckOneOperand
      <4>. QED
        BY <2>2, <4>1, <4>2
    <3>. QED
      BY <1>0, <3>1, <3>2, <3>3, <3>4 DEF Instruction, Stmt
  <2>4. code.statement = "dead" => code.ops[i].id = "symbol"
    BY <1>0, <2>1 DEF AccessorOps, Check, CheckDead, Instruction
  <2>5. access' = "in_range"
    BY <2>2, <2>3, <2>4
  <2>. QED
    BY <1>4, <2>5 DEF ReadAccessor, CheckInv, CodeOK, CastAccessSafe
<1>5. CASE Validate
  BY <1>5 DEF Validate, CheckInv, CodeOK, CastAccessSafe
<1>6. CASE UNCHANGED vars
  BY <1>6 DEF vars, CheckInv, CodeOK, CastAccessSafe
<1>. QED
  BY <1>1, <1>2, <1>3, <1>4, <1>5, <1>6 DEF Next

\* An instruction made by one of the constructors of code_assignt,
\* code_deadt, code_function_callt, code_assumet or code_assertt, and
\* changed only through its class's accessors, always passes the class's
\* check(), so its to_code_* cast cannot fail.
THEOREM TypedInstructionsCheck == Spec => []TypedUseChecks
<1>1. CheckInv => TypedUseChecks
  BY DEF CheckInv, TypedUseChecks
<1>. QED
  BY <1>1, CheckInit, CheckStep, PTL DEF Spec

\* After a successful to_code_* cast, no accessor of the cast reference
\* reads an operand past the end, and code_deadt's symbol() always finds a
\* symbol, whatever was done to the operands through exprt before the cast.
THEOREM CastAccessorsSafe == Spec => []CastAccessSafe
<1>1. CheckInv => CastAccessSafe
  BY DEF CheckInv
<1>. QED
  BY <1>1, CheckInit, CheckStep, PTL DEF Spec

=============================================================================
