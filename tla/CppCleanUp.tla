----------------------------- MODULE CppCleanUp -----------------------------
(***************************************************************************)
(* clean_up(), the last phase of the C++ type checker (cpp_typecheck.cpp). *)
(* One walk over the symbol table erases the templates and the member      *)
(* functions whose typechecking was deferred and never done, and splits    *)
(* every struct or union type's components into its data members (kept as *)
(* components) and its function members (appended to ID_methods); static   *)
(* members and member types are dropped from both.                          *)
(*                                                                         *)
(* Symbols are 1 .. N in iteration order; components are 1 .. NumComps,     *)
(* and a type's components are a sequence of distinct ones in increasing   *)
(* order: an identifier stands for its place in the declaration order.     *)
(* The loop over a struct's components is taken one component per step.   *)
(***************************************************************************)
EXTENDS Naturals, Sequences

CONSTANTS
    N,          \* symbols in the table
    NumComps    \* component identifiers

ASSUME CleanUpAssumption == N \in Nat /\ NumComps \in Nat

Syms == 1 .. N
Comps == 1 .. NumComps

\* What a symbol's type is, as far as clean_up() tells symbols apart: a
\* struct or a union type, whose components are split, or anything else.
SymKind == {"struct_union", "other"}

\* A component: a static member (function or data), a member type, a
\* method (code type) or a data member.
CompKind == {"static_code", "static_data", "type", "code", "data"}

\* The component lists a struct or union can declare: distinct components
\* in declaration order.
DeclOrders == {q \in UNION {[1 .. k -> Comps] : k \in 0 .. NumComps} :
                  \A i, j \in DOMAIN q : i < j => q[i] < q[j]}

VARIABLES
    isTemplate, \* type.get_bool(ID_is_template)
    deferred,   \* the symbol's name is in deferred_typechecking
    kind,       \* [Syms -> SymKind]
    compKind,   \* [Comps -> CompKind]
    declared,   \* [Syms -> Seq(Comps)]: components before clean_up (ghost)
    table,      \* the symbols still in the table
    components, \* [Syms -> Seq(Comps)]: the type's components
    methods,    \* [Syms -> Seq(Comps)]: the type's ID_methods
    it,         \* the iterator: the symbol being visited, or the next one
    compPos,    \* position in the loop over it's components; 0 outside it
    dataMembers \* the data_members collected so far

vars == <<isTemplate, deferred, kind, compKind, declared, table, components,
          methods, it, compPos, dataMembers>>
inputs == <<isTemplate, deferred, kind, compKind, declared>>

Init ==
    /\ isTemplate \in [Syms -> BOOLEAN]
    /\ deferred \in [Syms -> BOOLEAN]
    /\ kind \in [Syms -> SymKind]
    /\ compKind \in [Comps -> CompKind]
    /\ declared \in [Syms -> DeclOrders]
    /\ \A s \in Syms : kind[s] = "other" => declared[s] = << >>
    /\ table = Syms
    /\ components = declared
    /\ methods = [s \in Syms |-> << >>]
    /\ it = 1
    /\ compPos = 0
    /\ dataMembers = << >>

-----------------------------------------------------------------------------

\* Mutant: only templates are erased; the deferred_typechecking lookup is
\* left out.
Erased_TemplatesOnly(s) == isTemplate[s]

\* The symbols clean_up() erases: templates and member functions whose
\* deferred typechecking never happened.
Erased(s) == isTemplate[s] \/ deferred[s]

\* Mutant: the iterator is advanced after the erase, skipping a symbol.
EraseSymbolSkip ==
    /\ it <= N /\ compPos = 0
    /\ Erased(it)
    /\ table' = table \ {it}
    /\ it' = it + 2
    /\ UNCHANGED <<inputs, components, methods, compPos, dataMembers>>

\* cur_it is erased after it has moved on to the next symbol.
EraseSymbol ==
    /\ it <= N /\ compPos = 0
    /\ Erased(it)
    /\ table' = table \ {it}
    /\ it' = it + 1
    /\ UNCHANGED <<inputs, components, methods, compPos, dataMembers>>

\* Mutant: only is_type members are skipped, static ones are classified.
Skipped_NoStatic(c) == compKind[c] = "type"

\* The components neither list keeps: static members and member types.
Skipped(c) == compKind[c] \in {"static_code", "static_data", "type"}

IsFunctionMember(c) == ~Skipped(c) /\ compKind[c] = "code"
IsDataMember(c) == ~Skipped(c) /\ compKind[c] # "code"

\* A struct or union: the loop over its components starts, with no data
\* members collected and ID_methods added to the type.
BeginSplit ==
    /\ it <= N /\ compPos = 0
    /\ ~Erased(it)
    /\ kind[it] = "struct_union"
    /\ compPos' = 1
    /\ dataMembers' = << >>
    /\ UNCHANGED <<inputs, table, components, methods, it>>

\* The component the loop is at.
Current == components[it][compPos]

InLoop == it <= N /\ compPos \in 1 .. Len(components[it])

\* A static member or a member type: skip it.
SkipComponent ==
    /\ InLoop /\ Skipped(Current)
    /\ compPos' = compPos + 1
    /\ UNCHANGED <<inputs, table, components, methods, it, dataMembers>>

\* function_members.push_back(): ID_methods grows in place.
PushFunctionMember ==
    /\ InLoop /\ IsFunctionMember(Current)
    /\ methods' = [methods EXCEPT ![it] = Append(@, Current)]
    /\ compPos' = compPos + 1
    /\ UNCHANGED <<inputs, table, components, it, dataMembers>>

\* data_members.push_back().
PushDataMember ==
    /\ InLoop /\ IsDataMember(Current)
    /\ dataMembers' = Append(dataMembers, Current)
    /\ compPos' = compPos + 1
    /\ UNCHANGED <<inputs, table, components, methods, it>>

\* After the loop the data members are swapped into the components, and
\* the walk goes on with the next symbol.
SwapComponents ==
    /\ it <= N /\ compPos = Len(components[it]) + 1
    /\ components' = [components EXCEPT ![it] = dataMembers]
    /\ compPos' = 0
    /\ dataMembers' = << >>
    /\ it' = it + 1
    /\ UNCHANGED <<inputs, table, methods>>

\* Any other symbol is left alone.
SkipSymbol ==
    /\ it <= N /\ compPos = 0
    /\ ~Erased(it)
    /\ kind[it] = "other"
    /\ it' = it + 1
    /\ UNCHANGED <<inputs, table, components, methods, compPos, dataMembers>>

Done == it > N

Next ==
    \/ EraseSymbol \/ SkipSymbol
    \/ BeginSplit \/ SkipComponent \/ PushFunctionMember \/ PushDataMember
    \/ SwapComponents

Spec == Init /\ [][Next]_vars

-----------------------------------------------------------------------------

TypeOK ==
    /\ table \subseteq Syms
    /\ components \in [Syms -> Seq(Comps)]
    /\ methods \in [Syms -> Seq(Comps)]
    /\ it \in 1 .. N + 2
    /\ compPos \in 0 .. NumComps + 1
    /\ dataMembers \in Seq(Comps)

InSeq(seq, c) == \E i \in DOMAIN seq : seq[i] = c

\* After clean_up() the table holds exactly the symbols that are neither
\* templates nor deferred member functions: none of those survives the
\* erase-while-iterating walk, and no other symbol is lost or erased twice.
TableCleaned ==
    Done => table = {s \in Syms : ~isTemplate[s] /\ ~deferred[s]}

\* After clean_up() every declared component of a kept struct or union is
\* in exactly one place: a data member among the components, a function
\* member among the methods, or dropped because it is static or a type;
\* both lists keep the declaration order.
ComponentsSplit ==
    Done =>
        \A s \in table : kind[s] # "other" =>
              /\ \A c \in Comps : InSeq(declared[s], c) =>
                    /\ InSeq(components[s], c) = (compKind[c] = "data")
                    /\ InSeq(methods[s], c) = (compKind[c] = "code")
              /\ \A c \in Comps :
                    InSeq(components[s], c) \/ InSeq(methods[s], c)
                        => InSeq(declared[s], c)
              /\ \A i, j \in DOMAIN components[s] :
                    i < j => components[s][i] < components[s][j]
              /\ \A i, j \in DOMAIN methods[s] :
                    i < j => methods[s][i] < methods[s][j]

=============================================================================
