------------------------- MODULE CppTypecheckProofs -------------------------
(***************************************************************************)
(* Proofs about the top-level pass of the C++ type checker, for every size *)
(* of symbol table and parse tree: do_not_typechecked() converts every     *)
(* used body before typecheck() returns, the constructors the dynamic      *)
(* initialization block calls among them.                                  *)
(***************************************************************************)
EXTENDS CppTypecheck, SequenceTheorems, TLAPS

USE NAssumption, NumItemsAssumption DEF Syms

\* The part of the state the two proofs read, with its types.
StateOK ==
    /\ refs \in [Syms -> SUBSET Syms]
    /\ initValue \in [Syms -> Value]
    /\ value \in [Syms -> Value]
    /\ used \in [Syms -> BOOLEAN]
    /\ pos \in Nat /\ pos >= 1
    /\ present \subseteq Syms
    /\ inserts \in [Syms -> SUBSET Syms]

LEMMA StateInit == Init => StateOK
<1> SUFFICES ASSUME Init PROVE StateOK
  OBVIOUS
<1>1. refs \in [Syms -> SUBSET Syms]
  BY DEF Init
<1>3. used \in [Syms -> BOOLEAN] /\ value \in [Syms -> Value]
      /\ initValue \in [Syms -> Value]
  BY Zenon DEF Init
<1>4. pos \in Nat /\ pos >= 1
  BY SMT DEF Init
<1>5. present \subseteq Syms /\ inserts \in [Syms -> SUBSET Syms]
  BY DEF Init
<1>. QED
  BY <1>1, <1>3, <1>4, <1>5 DEF StateOK

LEMMA StateStep == StateOK /\ [Next]_vars => StateOK'
<1> SUFFICES ASSUME StateOK, [Next]_vars PROVE StateOK'
  OBVIOUS
<1>1. CASE ConvertItem
  BY <1>1 DEF ConvertItem, StateOK, tableVars
<1>2. CASE ConvertUnknown
  BY <1>2 DEF ConvertUnknown, StateOK, tableVars, Phase
<1>3. CASE BeginInitialization
  BY <1>3 DEF BeginInitialization, StateOK, tableVars
<1>10. CASE SkipInitialization
  BY <1>10 DEF SkipInitialization, StateOK, tableVars
<1>11. CASE EndInitialization
  BY <1>11 DEF EndInitialization, StateOK, tableVars
<1>9. CASE InitializeSymbol
  <2>1. pos \in Syms
    BY <1>9 DEF InitializeSymbol, StateOK
  <2>2. used' \in [Syms -> BOOLEAN]
    BY <1>9, <2>1 DEF InitializeSymbol, StateOK
  <2>. QED
    BY <1>9, <2>1, <2>2 DEF InitializeSymbol, StateOK, tableVars, Value
<1>4. CASE ConvertNotTypechecked
  \* The symbols the conversion inserts are symbols of the table's range.
  <2>1. pos \in Syms
    BY <1>4 DEF ConvertNotTypechecked, StateOK
  <2>2. present' \subseteq Syms
    BY <1>4, <2>1 DEF ConvertNotTypechecked, StateOK
  <2>. QED
    BY <1>4, <2>2 DEF ConvertNotTypechecked, StateOK, tableVars, Value
<1>5. CASE SkipSymbol
  BY <1>5 DEF SkipSymbol, StateOK, tableVars
<1>6. CASE RepeatPass
  BY <1>6 DEF RepeatPass, StateOK, tableVars
<1>7. CASE FinishNotTypechecked
  BY <1>7 DEF FinishNotTypechecked, StateOK, tableVars, Phase, Value
<1>8. CASE UNCHANGED vars
  BY <1>8 DEF vars, StateOK
<1>. QED
  BY <1>1, <1>2, <1>3, <1>4, <1>5, <1>6, <1>7, <1>8, <1>9, <1>10, <1>11 DEF Next

-----------------------------------------------------------------------------
(* Every used body is converted.                                           *)

\* The inductive invariant behind UsedBodiesConverted:
\*  - a body left not typechecked by the items stays so until it is
\*    converted, except that the final loop makes an unused one nil;
\*  - a pass that has converted nothing so far has inserted nothing and
\*    has met no used body still not typechecked among the symbols of the
\*    table it visited;
\*  - when the pass is over no body of the table is left not typechecked
\*    (a symbol a conversion would have inserted, had it run, is not in
\*    the table).
UsedInv ==
    /\ StateOK
    /\ \A s \in Syms : initValue[s] = "not_tc" =>
          \/ value[s] \in {"not_tc", "code"}
          \/ phase = "done" /\ value[s] = "nil" /\ ~used[s]
    /\ phase = "not_typechecked" => pos \in 1 .. N + 1
    /\ phase = "not_typechecked" /\ ~cont =>
          \A s \in 1 .. pos - 1 : ~(s \in present /\ value[s] = "not_tc" /\ used[s])
    /\ phase = "done" => \A s \in present : value[s] # "not_tc"

LEMMA UsedInit == Init => UsedInv
BY StateInit DEF Init, UsedInv

LEMMA UsedStep == UsedInv /\ [Next]_vars => UsedInv'
<1> SUFFICES ASSUME UsedInv, [Next]_vars PROVE UsedInv'
  OBVIOUS
<1>0. StateOK'
  BY StateStep DEF UsedInv
<1>1. CASE ConvertItem
  BY <1>0, <1>1 DEF ConvertItem, UsedInv, StateOK, tableVars
<1>2. CASE ConvertUnknown
  BY <1>0, <1>2 DEF ConvertUnknown, UsedInv, StateOK, tableVars, Phase
<1>3. CASE BeginInitialization \/ SkipInitialization
  BY <1>0, <1>3 DEF BeginInitialization, SkipInitialization, UsedInv, StateOK,
                    tableVars
<1>9. CASE InitializeSymbol
  \* Only a constructor-call initializer becomes nil; a body left not
  \* typechecked is not one.
  BY <1>0, <1>9 DEF InitializeSymbol, UsedInv, StateOK, tableVars
<1>10. CASE EndInitialization
  BY <1>0, <1>10 DEF EndInitialization, UsedInv, StateOK, tableVars
<1>4. CASE ConvertNotTypechecked
  BY <1>0, <1>4 DEF ConvertNotTypechecked, UsedInv, tableVars
<1>5. CASE SkipSymbol
  \* With nothing converted, value and used are those of the pass's start,
  \* and the guard adds the symbol just visited.
  BY <1>0, <1>5 DEF SkipSymbol, UsedInv, StateOK, tableVars
<1>6. CASE RepeatPass
  BY <1>0, <1>6 DEF RepeatPass, UsedInv, StateOK, tableVars
<1>7. CASE FinishNotTypechecked
  <2>1. \A s \in present : ~(value[s] = "not_tc" /\ used[s])
    BY <1>0, <1>7 DEF FinishNotTypechecked, UsedInv, StateOK
  <2>. QED
    BY <1>0, <1>7, <2>1 DEF FinishNotTypechecked, UsedInv, StateOK, tableVars,
                      Phase, Value
<1>8. CASE UNCHANGED vars
  BY <1>0, <1>8 DEF vars, UsedInv, StateOK, tableVars
<1>. QED
  BY <1>1, <1>2, <1>3, <1>4, <1>5, <1>6, <1>7, <1>8, <1>9, <1>10 DEF Next

\* When typecheck() returns normally, every body that the items left not
\* typechecked and that converted code, or the dynamic initialization
\* block, uses has been converted by do_not_typechecked(): its repeated
\* passes stop only after a pass that met no used body still unconverted.
THEOREM UsedBodiesAreConverted == Spec => []UsedBodiesConverted
<1>1. UsedInv => UsedBodiesConverted
  BY DEF UsedInv, StateOK, UsedBodiesConverted
<1>. QED
  BY <1>1, UsedInit, UsedStep, PTL DEF Spec

-----------------------------------------------------------------------------
(* The constructors the initialization block calls are converted.         *)

\* The inductive invariant behind InitCallsConverted: the objects dynamic_initializations lists are data; the
\* symbols a data symbol's initialization references are in the table
\* (only converting a body inserts symbols, and the table only grows);
\* the block holds data symbols; and every constructor a symbol of the
\* block is initialized with is marked used.
BlockInv ==
    /\ StateOK
    /\ initBlock \in Seq(Syms \ isCode)
    /\ isCode \subseteq Syms /\ dyn \subseteq Syms \ isCode
    /\ \A s \in Syms \ isCode : refs[s] \subseteq present
    /\ \A i \in 1 .. Len(initBlock) : \A t \in refs[initBlock[i]] : used[t]

LEMMA BlockInit == Init => BlockInv
<1> SUFFICES ASSUME Init PROVE BlockInv
  OBVIOUS
<1>1. \A s \in Syms \ isCode : inserts[s] = {}
  \* A data symbol's value is nil or a constructor call, never a body to
  \* convert, so converting it inserts nothing.
  BY DEF Init, TableOK
<1>2. \A s \in Syms \ isCode : refs[s] \subseteq present
  BY <1>1 DEF Init, TableOK
<1>. QED
  BY <1>2, StateInit DEF Init, BlockInv

LEMMA BlockStep == BlockInv /\ [Next]_vars => BlockInv'
<1> SUFFICES ASSUME BlockInv, [Next]_vars PROVE BlockInv'
  OBVIOUS
<1>0. StateOK'
  BY StateStep DEF BlockInv
<1>1. CASE InitializeSymbol
  \* The symbol appended is data, what its initialization references is
  \* in the table, and the step marks all of it used.
  <2>1. pos \in dyn /\ pos \in Syms \ isCode
    BY <1>1 DEF InitializeSymbol, DynInitialized, BlockInv
  <2>2. initBlock' = Append(initBlock, pos)
    BY <1>1 DEF InitializeSymbol
  <2>3. /\ initBlock' \in Seq(Syms \ isCode)
        /\ Len(initBlock') = Len(initBlock) + 1
        /\ \A i \in 1 .. Len(initBlock) : initBlock'[i] = initBlock[i]
        /\ initBlock'[Len(initBlock) + 1] = pos
    BY <2>1, <2>2, AppendProperties DEF BlockInv
  <2>4. \A t \in Syms : used[t] \/ t \in refs[pos] => used'[t]
    BY <1>1 DEF InitializeSymbol
  <2>5. \A i \in 1 .. Len(initBlock) : initBlock[i] \in Syms
    BY DEF BlockInv
  <2>6. ASSUME NEW i \in 1 .. Len(initBlock'), NEW t \in refs[initBlock'[i]]
        PROVE  used'[t]
    <3>1. CASE i \in 1 .. Len(initBlock)
      <4>1. t \in refs[initBlock[i]] /\ initBlock[i] \in Syms
        BY <2>3, <2>5, <3>1
      <4>2. used[t] /\ t \in Syms
        BY <3>1, <4>1 DEF BlockInv, StateOK
      <4>. QED
        BY <2>4, <4>2
    <3>2. CASE i = Len(initBlock) + 1
      <4>1. t \in refs[pos] /\ t \in Syms
        BY <2>1, <2>3, <3>2 DEF BlockInv, StateOK
      <4>. QED
        BY <2>4, <4>1
    <3>. QED
      BY <2>3, <3>1, <3>2 DEF BlockInv
  <2>7. UNCHANGED <<present, dyn, isCode, refs>>
    BY <1>1 DEF InitializeSymbol, tableVars
  <2>. QED
    BY <1>0, <2>3, <2>6, <2>7 DEF BlockInv
<1>2. CASE ConvertNotTypechecked
  \* The conversion only adds to the table and to the used symbols.
  <2>1. pos \in Syms
    BY <1>2 DEF ConvertNotTypechecked, BlockInv, StateOK
  <2>2. /\ present \subseteq present'
        /\ \A t \in Syms : used[t] => used'[t]
        /\ UNCHANGED <<initBlock, dyn, isCode, refs>>
    BY <1>2, <2>1 DEF ConvertNotTypechecked, tableVars
  <2>3. \A i \in 1 .. Len(initBlock) : initBlock[i] \in Syms
    BY DEF BlockInv
  <2>. QED
    BY <1>0, <2>2, <2>3 DEF BlockInv, StateOK
<1>3. CASE EndInitialization
  BY <1>0, <1>3 DEF EndInitialization, BlockInv, tableVars
<1>4. CASE ConvertItem \/ ConvertUnknown \/ BeginInitialization \/ SkipInitialization
           \/ SkipSymbol \/ RepeatPass \/ FinishNotTypechecked \/ UNCHANGED vars
  <2>1. UNCHANGED <<initBlock, used, present, dyn, isCode, refs>>
    BY <1>4 DEF ConvertItem, ConvertUnknown, BeginInitialization, SkipInitialization,
                SkipSymbol, RepeatPass, FinishNotTypechecked, vars, tableVars
  <2>. QED
    BY <1>0, <2>1 DEF BlockInv
<1>. QED
  BY <1>1, <1>2, <1>3, <1>4 DEF Next

\* When typecheck() returns normally, every constructor that the dynamic
\* initialization block calls and whose body the items left not
\* typechecked has been converted: static_and_dynamic_initialization()
\* runs before do_not_typechecked() and marks each such constructor used,
\* and do_not_typechecked() converts every used body (UsedBodiesAreConverted).
THEOREM InitConstructorsConverted == Spec => []InitCallsConverted
<1>1. Spec => []BlockInv
  BY BlockInit, BlockStep, PTL DEF Spec
<1>2. BlockInv /\ UsedBodiesConverted => InitCallsConverted
  <2> SUFFICES ASSUME BlockInv, UsedBodiesConverted, phase = "done",
                      NEW i \in 1 .. Len(initBlock), NEW t \in refs[initBlock[i]],
                      initValue[t] = "not_tc"
               PROVE  value[t] = "code"
    BY DEF InitCallsConverted
  <2>1. initBlock[i] \in Syms \ isCode
    BY DEF BlockInv
  <2>2. used[t]
    BY DEF BlockInv
  <2>3. t \in present
    \* The block holds data symbols, and what their initializations
    \* reference is in the table.
    BY <2>1 DEF BlockInv
  <2>. QED
    BY <2>2, <2>3 DEF UsedBodiesConverted
<1>. QED
  BY <1>1, <1>2, UsedBodiesAreConverted, PTL

=============================================================================
