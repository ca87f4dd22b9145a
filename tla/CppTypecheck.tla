---------------------------- MODULE CppTypecheck ----------------------------
(***************************************************************************)
(* The top-level pass of the C++ type checker (cpp_typecheck.cpp):         *)
(* typecheck() converts the parse tree's items, builds the dynamic         *)
(* initialization block, then runs do_not_typechecked(), the fixed point   *)
(* that converts the function bodies left as cpp_not_typechecked and       *)
(* found used, and finally drops the bodies that were never used.          *)
(*                                                                         *)
(* Symbols are 1 .. N, in the order the symbol table's iterator visits     *)
(* them.  The symbol table produced by the items is chosen in Init: which  *)
(* symbols are code, whose bodies are still not typechecked, what each      *)
(* body references (converting it marks those symbols used) and, for a     *)
(* data symbol, the constructor its initialization calls.  Converting an   *)
(* item is abstracted to its dispatch and its error path.                  *)
(*                                                                         *)
(* convert_function() may insert symbols into the table while              *)
(* do_not_typechecked() iterates over it (instances it creates).  A symbol *)
(* of 1 .. N not yet present is one that converting a body inserts; its    *)
(* place in the iteration order may be before or after the iterator.      *)
(* (A table with fewer symbols behaves as one with an extra inert symbol, *)
(* so every place of 1 .. N holds a symbol at some time.)                  *)
(***************************************************************************)
EXTENDS Naturals, Sequences

CONSTANTS
    N,          \* number of symbols in the table
    NumItems,   \* number of items in the parse tree
    ParsedItems \* the kinds of item the parser may produce

ASSUME NAssumption == N \in Nat \ {0}
ASSUME NumItemsAssumption == NumItems \in Nat

Syms == 1 .. N

\* cpp_itemt kinds convert() dispatches on; any other is an error.
ItemKinds == {"declaration", "linkage_spec", "namespace_spec", "using",
              "static_assert"}
AnyItem == ItemKinds \cup {"unknown"}

ASSUME ParsedItemsAssumption == ParsedItems \subseteq AnyItem

\* A symbol's value: a typechecked body or initializer ("code"), a body
\* still marked cpp_not_typechecked, an initializer that is a constructor
\* call, or nil.
Value == {"nil", "code", "not_tc", "ctor_call"}

Phase == {"convert", "static_init", "not_typechecked", "done", "failed"}

VARIABLES
    items,      \* the parse tree's items, a sequence of kinds
    present,    \* the symbols in the table
    inserts,    \* [Syms -> SUBSET Syms]: what converting a body inserts
    isCode,     \* symbols of code type
    refs,       \* [Syms -> SUBSET Syms]: what a body or constructor call uses
    dyn,        \* dynamic_initializations: static data symbols, in order
    isExtern,   \* symbols declared extern
    isPod,      \* symbols of POD type
    initValue,  \* the values the items left, before this pass
    value,      \* [Syms -> Value]
    used,       \* [Syms -> BOOLEAN]: the ID_is_used flag
    initBlock,  \* the dynamic initialization block: symbols it initializes
    phase,      \* where typecheck() is
    pos,        \* next item, or next symbol of the current pass
    cont        \* do_not_typechecked's loop flag

tableVars == <<items, inserts, isCode, refs, isExtern, isPod, initValue>>
vars == <<items, present, inserts, isCode, refs, dyn, isExtern, isPod,
          initValue, value, used, initBlock, phase, pos, cont>>

-----------------------------------------------------------------------------

\* A symbol table the items can leave: bodies reference code that exists
\* or that converting them inserts; a data symbol's initialization calls
\* at most one constructor; the symbols a typechecked body or initializer
\* references are marked used; only converting a body inserts symbols.
TableOK(code, r, v, u) ==
    /\ \A s \in Syms : r[s] \subseteq code \cap (present \cup inserts[s])
    /\ \A s \in Syms : v[s] # "not_tc" => inserts[s] = {}
    /\ \A s \in Syms \ code : \A a, b \in r[s] : a = b
    /\ \A s \in code : v[s] \in {"nil", "code", "not_tc"}
    /\ \A s \in Syms \ code : v[s] \in {"nil", "ctor_call"}
    /\ \A s \in Syms : v[s] \in {"code", "ctor_call"} => r[s] \subseteq {t \in Syms : u[t]}

Init ==
    /\ items \in [1 .. NumItems -> ParsedItems]
    /\ present \in SUBSET Syms
    /\ inserts \in [Syms -> SUBSET (Syms \ present)]
    /\ \A s \in Syms : s \notin inserts[s]
    /\ Syms = present \cup UNION {inserts[s] : s \in Syms}
    /\ isCode \in SUBSET Syms
    /\ refs \in [Syms -> SUBSET isCode]
    /\ value \in [Syms -> Value]
    /\ used \in [Syms -> BOOLEAN]
    /\ TableOK(isCode, refs, value, used)
    /\ dyn \in SUBSET (present \ isCode)
    /\ isExtern \in SUBSET dyn
    /\ isPod \in SUBSET dyn
    /\ initValue = value
    /\ initBlock = << >>
    /\ phase = "convert"
    /\ pos = 1
    /\ cont = FALSE

\* convert(item) for a known kind of item.
ConvertItem ==
    /\ phase = "convert"
    /\ pos <= NumItems
    /\ items[pos] \in ItemKinds
    /\ pos' = pos + 1
    /\ UNCHANGED <<tableVars, present, dyn, value, used, initBlock, phase, cont>>

\* convert(item) on an unknown parse-tree element: error and throw 0,
\* which ends typecheck().
ConvertUnknown ==
    /\ phase = "convert"
    /\ pos <= NumItems
    /\ items[pos] \notin ItemKinds
    /\ phase' = "failed"
    /\ UNCHANGED <<tableVars, present, dyn, value, used, initBlock, pos, cont>>

\* The symbols static_and_dynamic_initialization() initializes dynamically:
\* not extern, not POD, and with an initializer or a default constructor.
DynInitialized(s) ==
    /\ s \in dyn \ (isExtern \cup isPod)
    /\ value[s] = "ctor_call" \/ refs[s] # {}

\* typecheck() calls static_and_dynamic_initialization() once every item
\* is converted; its loop over the symbols starts with an empty block.
BeginInitialization ==
    /\ phase = "convert"
    /\ pos = NumItems + 1
    /\ phase' = "static_init"
    /\ pos' = 1
    /\ UNCHANGED <<tableVars, present, dyn, value, used, initBlock, cont>>

\* Mutant: the constructor call added to the block does not mark the
\* constructor used.
InitializeSymbolNoUse ==
    /\ phase = "static_init"
    /\ pos <= N
    /\ DynInitialized(pos)
    /\ initBlock' = Append(initBlock, pos)
    /\ value' = [value EXCEPT ![pos] = IF @ = "ctor_call" THEN "nil" ELSE @]
    /\ pos' = pos + 1
    /\ UNCHANGED <<tableVars, present, dyn, used, phase, cont>>

\* A symbol initialized dynamically: its initializer moves into the block
\* and its value becomes nil (zero initialization by __CPROVER_initialize);
\* a symbol without one gets its default constructor call, which uses the
\* constructor.
InitializeSymbol ==
    /\ phase = "static_init"
    /\ pos <= N
    /\ DynInitialized(pos)
    /\ initBlock' = Append(initBlock, pos)
    /\ value' = [value EXCEPT ![pos] = IF @ = "ctor_call" THEN "nil" ELSE @]
    /\ used' = [t \in Syms |-> used[t] \/ t \in refs[pos]]
    /\ pos' = pos + 1
    /\ UNCHANGED <<tableVars, present, dyn, phase, cont>>

\* An extern or POD symbol, one with neither an initializer nor a default
\* constructor, or one not in dynamic_initializations: nothing to add.
SkipInitialization ==
    /\ phase = "static_init"
    /\ pos <= N
    /\ ~DynInitialized(pos)
    /\ pos' = pos + 1
    /\ UNCHANGED <<tableVars, present, dyn, value, used, initBlock, phase, cont>>

\* dynamic_initializations is cleared, the block becomes the body of the
\* initialization procedure, and typecheck() goes on to do_not_typechecked().
EndInitialization ==
    /\ phase = "static_init"
    /\ pos = N + 1
    /\ dyn' = {}
    /\ phase' = "not_typechecked"
    /\ pos' = 1
    /\ cont' = FALSE
    /\ UNCHANGED <<tableVars, present, value, used, initBlock>>

\* One symbol of a pass of do_not_typechecked(): a used body still not
\* typechecked gets its value (the default operator= or the body held as
\* the single operand) and convert_function() typechecks it, marking what
\* it references as used and inserting the symbols it creates.
ConvertNotTypechecked ==
    /\ phase = "not_typechecked"
    /\ pos <= N
    /\ pos \in present /\ value[pos] = "not_tc" /\ used[pos]
    /\ value' = [value EXCEPT ![pos] = "code"]
    /\ used' = [t \in Syms |-> used[t] \/ t \in refs[pos]]
    /\ present' = present \cup inserts[pos]
    /\ cont' = TRUE
    /\ pos' = pos + 1
    /\ UNCHANGED <<tableVars, dyn, initBlock, phase>>

\* Mutant: cont = true is set for every symbol visited.
SkipSymbolSetsCont ==
    /\ phase = "not_typechecked"
    /\ pos <= N
    /\ ~(pos \in present /\ value[pos] = "not_tc" /\ used[pos])
    /\ pos' = pos + 1
    /\ cont' = TRUE
    /\ UNCHANGED <<tableVars, present, dyn, value, used, initBlock, phase>>

\* A symbol that needs no conversion (or a place in the order where no
\* symbol is).
SkipSymbol ==
    /\ phase = "not_typechecked"
    /\ pos <= N
    /\ ~(pos \in present /\ value[pos] = "not_tc" /\ used[pos])
    /\ pos' = pos + 1
    /\ UNCHANGED <<tableVars, present, dyn, value, used, initBlock, phase, cont>>

\* End of a pass that converted something: run another.
RepeatPass ==
    /\ phase = "not_typechecked"
    /\ pos = N + 1
    /\ cont
    /\ pos' = 1
    /\ cont' = FALSE
    /\ UNCHANGED <<tableVars, present, dyn, value, used, initBlock, phase>>

\* Mutant: a single pass, whatever it converted.
FinishNotTypecheckedOnePass ==
    /\ phase = "not_typechecked"
    /\ pos = N + 1
    /\ value' = [s \in Syms |->
                    IF s \in present /\ value[s] = "not_tc" THEN "nil" ELSE value[s]]
    /\ phase' = "done"
    /\ UNCHANGED <<tableVars, present, dyn, used, initBlock, pos, cont>>

\* End of a pass that converted nothing: the bodies still not typechecked
\* become nil.
FinishNotTypechecked ==
    /\ phase = "not_typechecked"
    /\ pos = N + 1
    /\ ~cont
    /\ value' = [s \in Syms |->
                    IF s \in present /\ value[s] = "not_tc" THEN "nil" ELSE value[s]]
    /\ phase' = "done"
    /\ UNCHANGED <<tableVars, present, dyn, used, initBlock, pos, cont>>

Next ==
    \/ ConvertItem
    \/ ConvertUnknown
    \/ BeginInitialization
    \/ InitializeSymbol
    \/ SkipInitialization
    \/ EndInitialization
    \/ ConvertNotTypechecked
    \/ SkipSymbol
    \/ RepeatPass
    \/ FinishNotTypechecked

\* typecheck() is a sequential pass that keeps running until it returns.
Spec == Init /\ [][Next]_vars /\ WF_vars(Next)

-----------------------------------------------------------------------------

TypeOK ==
    /\ items \in [1 .. NumItems -> AnyItem]
    /\ present \subseteq Syms
    /\ inserts \in [Syms -> SUBSET Syms]
    /\ isCode \subseteq Syms
    /\ refs \in [Syms -> SUBSET Syms]
    /\ dyn \subseteq Syms
    /\ isExtern \subseteq Syms /\ isPod \subseteq Syms
    /\ initValue \in [Syms -> Value]
    /\ value \in [Syms -> Value]
    /\ used \in [Syms -> BOOLEAN]
    /\ initBlock \in Seq(Syms)
    /\ phase \in Phase
    /\ pos \in 1 .. (IF N > NumItems THEN N ELSE NumItems) + 1
    /\ cont \in BOOLEAN

\* When typecheck() returns, every function body that was left not
\* typechecked and is used (by converted code or by the dynamic
\* initialization block's constructor calls) has been converted, also
\* when convert_function() inserted it behind the iterator; the final
\* loop of do_not_typechecked() only drops bodies nobody uses.
UsedBodiesConverted ==
    phase = "done" =>
        \A s \in present :
            (initValue[s] = "not_tc" /\ used[s]) => value[s] = "code"

\* The constructors the dynamic initialization block calls keep their
\* bodies: when typecheck() returns, every constructor an object of the
\* block is initialized with, whose body was left not typechecked, has been
\* converted.  static_and_dynamic_initialization() runs before
\* do_not_typechecked() and marks them used, so the final loop of
\* do_not_typechecked() does not drop them as unused.
InitCallsConverted ==
    phase = "done" =>
        \A i \in 1 .. Len(initBlock) : \A t \in refs[initBlock[i]] :
            initValue[t] = "not_tc" => value[t] = "code"

\* typecheck() returns: the fixed point is reached.
Terminates == <>(phase \in {"done", "failed"})

=============================================================================
