--------------------------- MODULE InstructionCode ---------------------------
(***************************************************************************)
(* The instruction classes of goto_instruction_code.h: code_assignt,       *)
(* code_deadt, code_function_callt, code_assumet and code_assertt.  A       *)
(* codet is a statement and a vector of operands; each class fixes its     *)
(* layout in its constructors, reads it through accessors (lhs() is op0,   *)
(* ...), and guards it with check() / validate_expr(), which the casts     *)
(* to_code_* run after their PRECONDITION on the statement.  The operands  *)
(* stay reachable through exprt::operands(), so a client can change the    *)
(* layout behind a class's back.                                           *)
(*                                                                         *)
(* One instruction is followed from its construction through edits, casts *)
(* and accessor reads.  An expression is its id and its type; an argument  *)
(* list is the ID_arguments expression whose operands are the arguments.   *)
(***************************************************************************)
EXTENDS Naturals, Sequences

CONSTANTS
    DataTypes,  \* value types of expressions
    MaxArgs     \* longest argument list

ASSUME InstructionAssumption == MaxArgs \in Nat

\* ID_empty, the type of nil_exprt; a value type; a code type returning a
\* value type.
EmptyType == <<"empty">>
DataType(t) == <<"data", t>>
CodeType(t) == <<"code", t>>
Types == {EmptyType} \cup {DataType(t) : t \in DataTypes}
                    \cup {CodeType(t) : t \in DataTypes}
IsCodeType(t) == t[1] = "code"
ReturnType(t) == DataType(t[2])

Nil == [id |-> "nil", type |-> EmptyType, args |-> << >>]
Operand == {Nil} \cup [id : {"symbol", "constant"}, type : Types \ {EmptyType},
                       args : {<< >>}]
ArgLists == UNION {[1 .. n -> Operand] : n \in 0 .. MaxArgs}
Arguments(as) == [id |-> "arguments", type |-> EmptyType, args |-> as]
Expr == Operand \cup {Arguments(as) : as \in ArgLists}

Stmt == {"assign", "dead", "function_call", "assume", "assert"}

Code(stmt, ops) == [statement |-> stmt, ops |-> ops]

-----------------------------------------------------------------------------
(* Constructors.                                                           *)

\* code_assignt() resizes the operands to two nil expressions.
AssignDefault == Code("assign", <<Nil, Nil>>)
Assign(lhs, rhs) == Code("assign", <<lhs, rhs>>)

\* code_deadt takes a symbol_exprt.
Dead(sym) == Code("dead", <<sym>>)

\* Mutant: the one-argument constructor leaves out the ID_arguments operand.
CallOfNoArguments(function) == Code("function_call", <<Nil, function>>)

\* code_function_callt(function): no lhs, no arguments.
CallOf(function) ==
    Code("function_call", <<Nil, function, Arguments(<< >>)>>)

\* code_function_callt(lhs, function, arguments), and
\* code_function_callt(function, arguments) through CallOf.
Call(lhs, function, as) ==
    Code("function_call", <<lhs, function, Arguments(as)>>)
CallArgs(function, as) ==
    [CallOf(function) EXCEPT !.ops[3] = Arguments(as)]

Assume(e) == Code("assume", <<e>>)
Assert(e) == Code("assert", <<e>>)

Symbols == {e \in Operand : e.id = "symbol"}

Constructed ==
    {AssignDefault}
    \cup {Assign(l, r) : l, r \in Operand}
    \cup {Dead(s) : s \in Symbols}
    \cup {CallOf(f) : f \in Operand}
    \cup {Call(l, f, as) : l, f \in Operand, as \in ArgLists}
    \cup {CallArgs(f, as) : f \in Operand, as \in ArgLists}
    \cup {Assume(e) : e \in Operand}
    \cup {Assert(e) : e \in Operand}

-----------------------------------------------------------------------------
(* check(), validate_expr() and validate().                                *)

\* Mutant: the assignment's check accepts any non-empty operand vector.
CheckAssignAtLeastOne(c) == Len(c.ops) >= 1

\* code_assignt::check
CheckAssign(c) == Len(c.ops) = 2

\* code_deadt::check: one operand, and it is a symbol.
CheckDead(c) == Len(c.ops) = 1 /\ c.ops[1].id = "symbol"

\* code_function_callt::check
CheckCall(c) == Len(c.ops) = 3

\* validate_operands(x, 1, ...) of validate_expr for assume and assert.
CheckOneOperand(c) == Len(c.ops) = 1

\* What the cast to_code_<statement> checks after its PRECONDITION.
Check(c) ==
    CASE c.statement = "assign"        -> CheckAssign(c)
      [] c.statement = "dead"          -> CheckDead(c)
      [] c.statement = "function_call" -> CheckCall(c)
      [] OTHER                         -> CheckOneOperand(c)

\* The type of operand i; an operand past the end reads as no type.
OpType(c, i) == IF i <= Len(c.ops) THEN c.ops[i].type ELSE <<"none">>

\* validate() beyond check(): the assignment's sides have one type; a call
\* with a lhs returns its type, read through to_code_type, whose
\* PRECONDITION aborts when the callee's type is not a code type.
ValidateVerdict(c) ==
    IF ~Check(c) THEN "invalid"
    ELSE CASE c.statement = "assign" ->
                IF OpType(c, 1) = OpType(c, 2) THEN "valid" ELSE "invalid"
           [] c.statement = "function_call" /\ c.ops[1].id # "nil" ->
                IF ~IsCodeType(c.ops[2].type) THEN "abort"
                ELSE IF c.ops[1].type = ReturnType(c.ops[2].type)
                     THEN "valid" ELSE "invalid"
           [] OTHER -> "valid"

\* The operands the class's accessors read.
AccessorOps(stmt) ==
    CASE stmt = "assign"        -> 2
      [] stmt = "function_call" -> 3
      [] OTHER                  -> 1

-----------------------------------------------------------------------------

VARIABLES
    code,       \* the instruction
    generic,    \* its operands were changed through exprt::operands()
    cast,       \* outcome of the last to_code_* cast
    verdict,    \* outcome of the last validate()
    access      \* outcome of the last accessor read

vars == <<code, generic, cast, verdict, access>>

Init ==
    /\ code \in Constructed
    /\ generic = FALSE
    /\ cast = "none"
    /\ verdict = "none"
    /\ access = "none"

\* Writes through the class's own accessors: lhs(), rhs(), function(),
\* arguments(), assumption(), assertion(); symbol() of code_deadt is a
\* symbol_exprt.  They are used on the object as constructed or on the
\* reference a cast returned.
TypedEdit ==
    /\ ~generic \/ cast = "ok"
    /\ \E i \in 1 .. AccessorOps(code.statement), e \in Expr :
          /\ i <= Len(code.ops)
          /\ code.statement = "dead" => e \in Symbols
          /\ code.statement = "function_call" /\ i = 3 =>
                e \in {Arguments(as) : as \in ArgLists}
          /\ ~(code.statement = "function_call" /\ i = 3) => e \in Operand
          /\ code' = [code EXCEPT !.ops[i] = e]
    /\ UNCHANGED <<generic, cast, verdict, access>>

\* exprt::operands(): an operand replaced, or the vector resized with
\* nil operands.  A reference cast before is followed no further (its
\* check is stale).
GenericEdit ==
    /\ \/ \E i \in 1 .. Len(code.ops), e \in Operand :
             code' = [code EXCEPT !.ops[i] = e]
       \/ \E n \in 0 .. 3 :
             code' = [code EXCEPT !.ops = [j \in 1 .. n |->
                                    IF j <= Len(code.ops) THEN code.ops[j]
                                    ELSE Nil]]
    /\ generic' = TRUE
    /\ cast' = "none"
    /\ UNCHANGED <<verdict, access>>

\* to_code_<stmt>: PRECONDITION on the statement, then the class's check.
CastTo ==
    /\ \E stmt \in Stmt :
          cast' = IF code.statement # stmt THEN "precondition"
                  ELSE IF Check(code) THEN "ok" ELSE "check_failed"
    /\ UNCHANGED <<code, generic, verdict, access>>

\* An accessor of the cast reference reads operand i; code_deadt's
\* symbol() reads op0 as a symbol_exprt.
ReadAccessor ==
    /\ cast = "ok"
    /\ \E i \in 1 .. AccessorOps(code.statement) :
          access' = IF i > Len(code.ops) THEN "out_of_range"
                    ELSE IF code.statement = "dead" /\ code.ops[i].id # "symbol"
                         THEN "bad_cast" ELSE "in_range"
    /\ UNCHANGED <<code, generic, cast, verdict>>

\* validate(code, ns, vm).
Validate ==
    /\ verdict' = ValidateVerdict(code)
    /\ UNCHANGED <<code, generic, cast, access>>

Next == TypedEdit \/ GenericEdit \/ CastTo \/ ReadAccessor \/ Validate

Spec == Init /\ [][Next]_vars

-----------------------------------------------------------------------------

TypeOK ==
    /\ code.statement \in Stmt /\ code.ops \in Seq(Expr)
    /\ generic \in BOOLEAN
    /\ cast \in {"none", "ok", "precondition", "check_failed"}
    /\ verdict \in {"none", "valid", "invalid", "abort"}
    /\ access \in {"none", "in_range", "out_of_range", "bad_cast"}

\* An instruction made by a constructor and changed only through its
\* class's accessors keeps the layout its class's check() demands, so a
\* cast of it to its own class never fails.
TypedUseChecks ==
    ~generic => Check(code)

\* Once a cast has succeeded, every accessor read of the cast reference
\* finds the operand it indexes, and code_deadt's symbol() finds a symbol,
\* however the operands were changed before the cast.
CastAccessSafe ==
    access \notin {"out_of_range", "bad_cast"}

=============================================================================
