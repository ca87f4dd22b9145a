-------------------------- MODULE CppCleanUpProofs --------------------------
(***************************************************************************)
(* Proofs about clean_up(), for every size of symbol table and every       *)
(* number of components: its erase-while-iterating walk leaves exactly the *)
(* symbols that are neither templates nor deferred member functions, and   *)
(* its loop over a struct's components splits them into data members and   *)
(* methods, each list in declaration order.                                *)
(***************************************************************************)
EXTENDS CppCleanUp, SequenceTheorems, TLAPS

USE CleanUpAssumption

\* A list of components in strictly increasing (declaration) order.
Sorted(q) == \A i, j \in DOMAIN q : i < j => q[i] < q[j]

\* q lists, in declaration order, exactly the components among the first k
\* of the declared list d whose kind under ck is K.
Holds(q, d, k, ck, K) ==
    /\ q \in Seq(Comps)
    /\ Sorted(q)
    /\ \A c \in Comps : InSeq(q, c) <=> (\E i \in 1 .. k : d[i] = c) /\ ck[c] = K

\* A struct or union whose loop is over: its components hold the data
\* members and its methods the function members of everything declared.
SplitDone(s) ==
    /\ Holds(components[s], declared[s], Len(declared[s]), compKind, "data")
    /\ Holds(methods[s], declared[s], Len(declared[s]), compKind, "code")

\* The types the walk keeps.
CleanTypes ==
    /\ isTemplate \in [Syms -> BOOLEAN]
    /\ deferred \in [Syms -> BOOLEAN]
    /\ kind \in [Syms -> SymKind]
    /\ compKind \in [Comps -> CompKind]
    /\ declared \in [Syms -> DeclOrders]
    /\ components \in [Syms -> Seq(Comps)]
    /\ methods \in [Syms -> Seq(Comps)]
    /\ it \in 1 .. N + 1
    /\ compPos \in 0 .. NumComps + 1

\* The walk has erased exactly the symbols before it that clean_up() erases.
TableInv == table = {s \in Syms : s >= it \/ ~Erased(s)}

\* The symbols from it on are as the items left them (ID_methods of the
\* symbol at it fills only once its loop has started).
Untouched ==
    /\ \A s \in Syms : s >= it => components[s] = declared[s]
    /\ \A s \in Syms : s > it => methods[s] = << >>
    /\ compPos = 0 /\ it <= N => methods[it] = << >>

\* Every kept struct or union before it has been split.
Visited ==
    \A s \in Syms : s < it /\ ~Erased(s) /\ kind[s] = "struct_union" =>
        SplitDone(s)

\* Inside the loop over the components of it, data_members and ID_methods hold
\* the split of the components before compPos.
LoopInv ==
    compPos # 0 =>
        /\ it <= N
        /\ ~Erased(it)
        /\ kind[it] = "struct_union"
        /\ compPos <= Len(declared[it]) + 1
        /\ Holds(dataMembers, declared[it], compPos - 1, compKind, "data")
        /\ Holds(methods[it], declared[it], compPos - 1, compKind, "code")

\* The inductive invariant of the walk.
CleanInv == CleanTypes /\ TableInv /\ Untouched /\ Visited /\ LoopInv

-----------------------------------------------------------------------------
(* Lemmas about the component lists.                                       *)

\* A declared list is a sequence of components, no longer than there are
\* components, in increasing order.
LEMMA DeclOrderFacts ==
    ASSUME NEW d \in DeclOrders
    PROVE  /\ d \in Seq(Comps)
           /\ Len(d) \in 0 .. NumComps
           /\ Sorted(d)
<1>1. PICK k \in 0 .. NumComps : d \in [1 .. k -> Comps]
  BY DEF DeclOrders
<1>2. d \in Seq(Comps) /\ Len(d) = k
  BY <1>1
<1>3. Sorted(d)
  BY DEF DeclOrders, Sorted
<1>. QED
  BY <1>1, <1>2, <1>3

\* Before the loop, nothing is collected.
LEMMA HoldsEmpty ==
    ASSUME NEW d, NEW ck, NEW K
    PROVE  Holds(<< >>, d, 0, ck, K)
BY DEF Holds, Sorted, InSeq

\* A component of another kind leaves the list as it is.
LEMMA HoldsSkip ==
    ASSUME NEW d \in DeclOrders, NEW k \in 0 .. Len(d) - 1, NEW ck, NEW K,
           NEW q, Holds(q, d, k, ck, K), ck[d[k + 1]] # K
    PROVE  Holds(q, d, k + 1, ck, K)
<1>1. d \in Seq(Comps) /\ Len(d) \in Nat
  BY DeclOrderFacts
<1>. QED
  BY <1>1 DEF Holds

\* A component of the kind is appended, after everything collected before
\* it, which comes earlier in the declaration order.
LEMMA HoldsAppend ==
    ASSUME NEW d \in DeclOrders, NEW k \in 0 .. Len(d) - 1, NEW ck, NEW K,
           NEW q, Holds(q, d, k, ck, K), ck[d[k + 1]] = K
    PROVE  Holds(Append(q, d[k + 1]), d, k + 1, ck, K)
<1>1. d \in Seq(Comps) /\ Len(d) \in Nat /\ Sorted(d)
  BY DeclOrderFacts
<1>2. d[k + 1] \in Comps
  BY <1>1
<1>3. \A i \in 1 .. Len(q) : q[i] < d[k + 1]
  <2>1. SUFFICES ASSUME NEW i \in 1 .. Len(q) PROVE q[i] < d[k + 1]
    OBVIOUS
  <2>2. q \in Seq(Comps) /\ q[i] \in Comps /\ InSeq(q, q[i])
    BY DEF Holds, InSeq
  <2>3. PICK m \in 1 .. k : d[m] = q[i]
    BY <2>2 DEF Holds
  <2>. QED
    BY <1>1, <2>3 DEF Sorted
<1>4. Append(q, d[k + 1]) \in Seq(Comps)
  BY <1>2 DEF Holds
<1>5. Sorted(Append(q, d[k + 1]))
  BY <1>2, <1>3 DEF Holds, Sorted
<1>6. \A c \in Comps : InSeq(Append(q, d[k + 1]), c) <=> InSeq(q, c) \/ c = d[k + 1]
  <2>1. q \in Seq(Comps)
    BY DEF Holds
  <2>2. /\ DOMAIN q = 1 .. Len(q)
        /\ DOMAIN Append(q, d[k + 1]) = 1 .. Len(q) + 1
        /\ \A i \in 1 .. Len(q) : Append(q, d[k + 1])[i] = q[i]
        /\ Append(q, d[k + 1])[Len(q) + 1] = d[k + 1]
    BY <1>2, <2>1, AppendProperties, LenProperties
  <2>. QED
    BY <2>1, <2>2 DEF InSeq
<1>. QED
  BY <1>4, <1>5, <1>6 DEF Holds

-----------------------------------------------------------------------------
(* The walk preserves CleanInv.                                            *)

LEMMA CleanInit == Init => CleanInv
<1> SUFFICES ASSUME Init PROVE CleanInv
  OBVIOUS
<1>1. isTemplate \in [Syms -> BOOLEAN] /\ deferred \in [Syms -> BOOLEAN]
  BY Zenon DEF Init
<1>2. components \in [Syms -> Seq(Comps)]
  BY DeclOrderFacts DEF Init
<1>3. CleanTypes
  BY <1>1, <1>2 DEF Init, CleanTypes, Syms
<1>4. TableInv /\ Untouched /\ Visited /\ LoopInv
  BY DEF Init, TableInv, Untouched, Visited, LoopInv, Syms
<1>. QED
  BY <1>3, <1>4 DEF CleanInv

\* Every step of the walk leaves clean_up()'s inputs alone.
LEMMA InputsUnchanged == [Next]_vars => UNCHANGED inputs
BY DEF Next, vars, inputs, EraseSymbol, SkipSymbol, BeginSplit, SkipComponent,
       PushFunctionMember, PushDataMember, SwapComponents

LEMMA CleanStep == CleanInv /\ [Next]_vars => CleanInv'
<1> SUFFICES ASSUME CleanInv, [Next]_vars PROVE CleanInv'
  OBVIOUS
<1>0. /\ it \in 1 .. N + 1 /\ compPos \in 0 .. NumComps + 1
      /\ \A s \in Syms : /\ declared[s] \in DeclOrders
                         /\ declared[s] \in Seq(Comps)
                         /\ Len(declared[s]) \in 0 .. NumComps
      /\ \A s \in Syms : components[s] \in Seq(Comps) /\ methods[s] \in Seq(Comps)
  BY DeclOrderFacts DEF CleanInv, CleanTypes
<1>1. /\ UNCHANGED inputs
      /\ \A s \in Syms : Erased(s)' = Erased(s)
  BY InputsUnchanged DEF inputs, Erased
<1>2. it <= N => it \in Syms /\ components[it] = declared[it]
  BY <1>0 DEF CleanInv, Untouched, Syms
\* In the loop, the component at compPos is the declared one.
<1>3. ASSUME InLoop
      PROVE  /\ it \in Syms /\ compPos \in 1 .. Len(declared[it])
             /\ compPos - 1 \in 0 .. Len(declared[it]) - 1
             /\ Current = declared[it][compPos - 1 + 1]
             /\ Current \in Comps
             /\ compPos + 1 \in 0 .. NumComps + 1
             /\ Holds(dataMembers, declared[it], compPos - 1, compKind, "data")
             /\ Holds(methods[it], declared[it], compPos - 1, compKind, "code")
  <2>1. it \in Syms /\ compPos \in 1 .. Len(declared[it])
    BY <1>0, <1>2, <1>3 DEF InLoop
  <2>2. compPos # 0
    BY <1>0, <2>1
  <2>3. /\ Holds(dataMembers, declared[it], compPos - 1, compKind, "data")
        /\ Holds(methods[it], declared[it], compPos - 1, compKind, "code")
    BY <2>2 DEF CleanInv, LoopInv
  <2>4. Current = declared[it][compPos]
    BY <1>2, <2>1 DEF Current, Syms
  <2>5. declared[it] \in Seq(Comps) /\ Len(declared[it]) \in 0 .. NumComps
    BY <1>0, <2>1
  <2>6. declared[it][compPos] \in Comps
    BY <2>1, <2>5
  <2>. QED
    BY <2>1, <2>3, <2>4, <2>5, <2>6
\* When the loop is done, the components are all visited.
<1>4. ASSUME SwapComponents
      PROVE  /\ it \in Syms /\ compPos # 0
             /\ compPos - 1 = Len(declared[it])
  BY <1>0, <1>2, <1>4 DEF SwapComponents
<1>5. CleanTypes'
  <2>1. /\ isTemplate' \in [Syms -> BOOLEAN]
        /\ deferred' \in [Syms -> BOOLEAN]
        /\ kind' \in [Syms -> SymKind]
        /\ compKind' \in [Comps -> CompKind]
        /\ declared' \in [Syms -> DeclOrders]
    BY <1>1, Zenon DEF CleanInv, CleanTypes, inputs
  <2>2. components' \in [Syms -> Seq(Comps)]
    <3>1. CASE SwapComponents
      <4>1. dataMembers \in Seq(Comps)
        BY <1>4, <3>1 DEF CleanInv, LoopInv, Holds
      <4>. QED
        BY <3>1, <4>1 DEF SwapComponents, CleanInv, CleanTypes
    <3>2. CASE ~SwapComponents
      <4>1. components' = components
        BY <3>2 DEF Next, vars, EraseSymbol, SkipSymbol, BeginSplit, SkipComponent,
                    PushFunctionMember, PushDataMember
      <4>. QED
        BY <4>1 DEF CleanInv, CleanTypes
    <3>. QED
      BY <3>1, <3>2
  <2>3. methods' \in [Syms -> Seq(Comps)]
    <3>1. CASE PushFunctionMember
      <4>1. Current \in Comps /\ it \in Syms
        BY <1>3, <3>1 DEF PushFunctionMember
      <4>2. Append(methods[it], Current) \in Seq(Comps)
        BY <1>0, <4>1
      <4>. QED
        BY <3>1, <4>2 DEF PushFunctionMember, CleanInv, CleanTypes
    <3>2. CASE ~PushFunctionMember
      <4>1. methods' = methods
        BY <3>2 DEF Next, vars, EraseSymbol, SkipSymbol, BeginSplit, SkipComponent,
                    SwapComponents, PushDataMember
      <4>. QED
        BY <4>1 DEF CleanInv, CleanTypes
    <3>. QED
      BY <3>1, <3>2
  <2>4. it' \in 1 .. N + 1 /\ compPos' \in 0 .. NumComps + 1
    <3>1. CASE EraseSymbol \/ SkipSymbol
      BY <1>0, <3>1 DEF EraseSymbol, SkipSymbol
    <3>2. CASE SwapComponents
      BY <1>0, <3>2 DEF SwapComponents
    <3>3. CASE BeginSplit
      BY <1>0, <3>3 DEF BeginSplit
    <3>4. CASE SkipComponent \/ PushFunctionMember \/ PushDataMember
      BY <1>0, <1>3, <3>4 DEF SkipComponent, PushFunctionMember, PushDataMember
    <3>5. CASE UNCHANGED vars
      BY <1>0, <3>5 DEF vars
    <3>. QED
      BY <3>1, <3>2, <3>3, <3>4, <3>5 DEF Next
  <2>. QED
    BY <2>1, <2>2, <2>3, <2>4 DEF CleanTypes
<1>6. TableInv'
  <2>1. CASE EraseSymbol
    BY <1>0, <1>1, <2>1 DEF EraseSymbol, CleanInv, TableInv, Syms
  <2>2. CASE SkipSymbol
    BY <1>0, <1>1, <2>2 DEF SkipSymbol, CleanInv, TableInv, Syms
  <2>3. CASE SwapComponents
    <3>1. ~Erased(it)
      BY <1>4, <2>3 DEF CleanInv, LoopInv
    <3>. QED
      BY <1>0, <1>1, <2>3, <3>1 DEF SwapComponents, CleanInv, TableInv, Syms
  <2>4. CASE BeginSplit \/ SkipComponent \/ PushFunctionMember \/ PushDataMember
    BY <1>1, <2>4 DEF BeginSplit, SkipComponent, PushFunctionMember, PushDataMember,
                      CleanInv, TableInv
  <2>5. CASE UNCHANGED vars
    BY <1>1, <2>5 DEF vars, CleanInv, TableInv
  <2>. QED
    BY <2>1, <2>2, <2>3, <2>4, <2>5 DEF Next
<1>7. Untouched'
  <2>1. CASE EraseSymbol \/ SkipSymbol
    BY <1>1, <1>0, <2>1 DEF EraseSymbol, SkipSymbol, CleanInv, Untouched, inputs, Syms
  <2>2. CASE SwapComponents
    BY <1>1, <1>0, <1>4, <2>2 DEF SwapComponents, CleanInv, Untouched, inputs, Syms
  <2>3. CASE BeginSplit
    BY <1>1, <2>3 DEF BeginSplit, CleanInv, Untouched, inputs
  <2>4. CASE SkipComponent \/ PushDataMember
    BY <1>1, <1>0, <2>4 DEF SkipComponent, PushDataMember, CleanInv, Untouched, inputs
  <2>5. CASE PushFunctionMember
    BY <1>1, <1>0, <2>5 DEF PushFunctionMember, CleanInv, Untouched, inputs, Syms
  <2>6. CASE UNCHANGED vars
    BY <1>1, <2>6 DEF vars, CleanInv, Untouched, inputs
  <2>. QED
    BY <1>1, <2>1, <2>2, <2>3, <2>4, <2>5, <2>6 DEF Next
<1>8. Visited'
  <2>1. CASE EraseSymbol \/ SkipSymbol \/ BeginSplit \/ SkipComponent \/ PushDataMember
    <3>1. \A s \in Syms : SplitDone(s)' = SplitDone(s)
      BY <1>1, <2>1 DEF EraseSymbol, SkipSymbol, BeginSplit, SkipComponent,
                        PushDataMember, SplitDone, inputs
    <3>2. \A s \in Syms : s < it' /\ ~Erased(s) /\ kind[s] = "struct_union" => s < it
      BY <1>0, <2>1 DEF EraseSymbol, SkipSymbol, BeginSplit, SkipComponent,
                        PushDataMember, Syms
    <3>. QED
      BY <1>0, <1>1, <3>1, <3>2 DEF CleanInv, Visited, Syms, inputs
  <2>2. CASE PushFunctionMember
    <3>1. \A s \in Syms : s # it => SplitDone(s)' = SplitDone(s)
      BY <1>1, <2>2 DEF PushFunctionMember, SplitDone, inputs
    <3>2. it' = it /\ kind' = kind
      BY <2>2 DEF PushFunctionMember, inputs
    <3>. QED
      BY <1>0, <1>1, <3>1, <3>2 DEF CleanInv, Visited, Syms
  <2>3. CASE SwapComponents
    <3>1. \A s \in Syms : s # it => SplitDone(s)' = SplitDone(s)
      BY <1>1, <2>3 DEF SwapComponents, SplitDone, inputs
    <3>2. \A s \in Syms : s = it => SplitDone(s)'
      <4>1. /\ Holds(dataMembers, declared[it], Len(declared[it]), compKind, "data")
            /\ Holds(methods[it], declared[it], Len(declared[it]), compKind, "code")
        BY <1>4, <2>3 DEF CleanInv, LoopInv
      <4>2. components'[it] = dataMembers /\ methods' = methods
        BY <1>4, <2>3 DEF SwapComponents, CleanInv, CleanTypes
      <4>. QED
        BY <1>1, <4>1, <4>2 DEF SplitDone, inputs
    <3>. QED
      BY <1>0, <1>1, <2>3, <3>1, <3>2 DEF SwapComponents, CleanInv, Visited, inputs, Syms
  <2>4. CASE UNCHANGED vars
    BY <1>1, <2>4 DEF vars, CleanInv, Visited, SplitDone, inputs
  <2>. QED
    BY <2>1, <2>2, <2>3, <2>4 DEF Next
<1>9. LoopInv'
  <2>1. CASE EraseSymbol \/ SkipSymbol \/ SwapComponents
    BY <2>1 DEF EraseSymbol, SkipSymbol, SwapComponents, LoopInv
  <2>2. CASE BeginSplit
    <3>1. it <= N /\ ~Erased(it) /\ kind[it] = "struct_union" /\ compPos = 0
      BY <2>2 DEF BeginSplit
    <3>2. methods[it] = << >> /\ it \in Syms
      BY <1>0, <3>1 DEF CleanInv, Untouched, Syms
    <3>3. /\ Holds(<< >>, declared[it], 0, compKind, "data")
          /\ Holds(<< >>, declared[it], 0, compKind, "code")
      BY HoldsEmpty
    <3>4. /\ compPos' = 1 /\ dataMembers' = << >> /\ it' = it /\ methods' = methods
          /\ kind' = kind /\ declared' = declared /\ compKind' = compKind
      BY <2>2 DEF BeginSplit, inputs
    <3>. QED
      BY <1>0, <1>1, <3>1, <3>2, <3>3, <3>4 DEF LoopInv
  <2>3. CASE SkipComponent
    <3>1. InLoop /\ Skipped(Current)
      BY <2>3 DEF SkipComponent
    <3>2. compKind[declared[it][compPos - 1 + 1]] \notin {"data", "code"}
      BY <1>3, <3>1 DEF Skipped
    <3>3. /\ Holds(dataMembers, declared[it], compPos - 1 + 1, compKind, "data")
          /\ Holds(methods[it], declared[it], compPos - 1 + 1, compKind, "code")
      BY <1>0, <1>3, <3>1, <3>2, HoldsSkip
    <3>4. ~Erased(it) /\ kind[it] = "struct_union"
      BY <1>0, <1>3, <3>1 DEF CleanInv, LoopInv
    <3>5. /\ compPos' = compPos + 1 /\ dataMembers' = dataMembers /\ it' = it
          /\ methods' = methods
          /\ kind' = kind /\ declared' = declared /\ compKind' = compKind
      BY <2>3 DEF SkipComponent, inputs
    <3>. QED
      BY <1>0, <1>1, <1>3, <3>1, <3>3, <3>4, <3>5 DEF LoopInv, Syms
  <2>4. CASE PushFunctionMember
    <3>1. InLoop /\ IsFunctionMember(Current)
      BY <2>4 DEF PushFunctionMember
    <3>2. compKind[declared[it][compPos - 1 + 1]] = "code"
      BY <1>3, <3>1 DEF IsFunctionMember
    <3>3. /\ Holds(dataMembers, declared[it], compPos - 1 + 1, compKind, "data")
          /\ Holds(Append(methods[it], declared[it][compPos - 1 + 1]), declared[it],
                   compPos - 1 + 1, compKind, "code")
      BY <1>0, <1>3, <3>1, <3>2, HoldsSkip, HoldsAppend
    <3>4. ~Erased(it) /\ kind[it] = "struct_union"
      BY <1>0, <1>3, <3>1 DEF CleanInv, LoopInv
    <3>5. /\ compPos' = compPos + 1 /\ dataMembers' = dataMembers /\ it' = it
          /\ kind' = kind /\ declared' = declared /\ compKind' = compKind
      BY <2>4 DEF PushFunctionMember, inputs
    <3>6. methods'[it] = Append(methods[it], Current)
      BY <1>3, <3>1, <2>4 DEF PushFunctionMember, CleanInv, CleanTypes
    <3>. QED
      BY <1>0, <1>1, <1>3, <3>1, <3>3, <3>4, <3>5, <3>6 DEF LoopInv, Syms
  <2>5. CASE PushDataMember
    <3>1. InLoop /\ IsDataMember(Current)
      BY <2>5 DEF PushDataMember
    <3>2. compKind[declared[it][compPos - 1 + 1]] = "data"
      BY <1>3, <3>1 DEF IsDataMember, Skipped, CleanInv, CleanTypes, CompKind
    <3>3. /\ Holds(Append(dataMembers, declared[it][compPos - 1 + 1]), declared[it],
                   compPos - 1 + 1, compKind, "data")
          /\ Holds(methods[it], declared[it], compPos - 1 + 1, compKind, "code")
      BY <1>0, <1>3, <3>1, <3>2, HoldsSkip, HoldsAppend
    <3>4. ~Erased(it) /\ kind[it] = "struct_union"
      BY <1>0, <1>3, <3>1 DEF CleanInv, LoopInv
    <3>5. /\ compPos' = compPos + 1 /\ dataMembers' = Append(dataMembers, Current)
          /\ it' = it /\ methods' = methods
          /\ kind' = kind /\ declared' = declared /\ compKind' = compKind
      BY <2>5 DEF PushDataMember, inputs
    <3>. QED
      BY <1>0, <1>1, <1>3, <3>1, <3>3, <3>4, <3>5 DEF LoopInv, Syms
  <2>6. CASE UNCHANGED vars
    BY <1>1, <2>6 DEF vars, CleanInv, LoopInv, inputs, Erased
  <2>. QED
    BY <2>1, <2>2, <2>3, <2>4, <2>5, <2>6 DEF Next
<1>. QED
  BY <1>5, <1>6, <1>7, <1>8, <1>9 DEF CleanInv

-----------------------------------------------------------------------------
(* The theorems.                                                           *)

\* When clean_up() has walked the whole table, the table holds exactly the
\* symbols that are neither templates nor in deferred_typechecking:
\* advancing the iterator before erasing cur_it visits every symbol once.
THEOREM CleanUpErasesExactly == Spec => []TableCleaned
<1>1. CleanInv => TableCleaned
  BY DEF CleanInv, CleanTypes, TableInv, TableCleaned, Done, Erased, Syms
<1>. QED
  BY <1>1, CleanInit, CleanStep, PTL DEF Spec

\* When clean_up() has walked the whole table, every kept struct or union
\* has its declared components split by the loop of push_back()s: the data
\* members (and only they) in the components, the function members (and
\* only they) in ID_methods, static members and member types in neither,
\* each list in declaration order.
THEOREM CleanUpSplitsComponents == Spec => []ComponentsSplit
<1>1. CleanInv => ComponentsSplit
  <2> SUFFICES ASSUME CleanInv, Done, NEW s \in table, kind[s] # "other"
               PROVE  /\ \A c \in Comps : InSeq(declared[s], c) =>
                            /\ InSeq(components[s], c) = (compKind[c] = "data")
                            /\ InSeq(methods[s], c) = (compKind[c] = "code")
                      /\ \A c \in Comps :
                            InSeq(components[s], c) \/ InSeq(methods[s], c)
                                => InSeq(declared[s], c)
                      /\ \A i, j \in DOMAIN components[s] :
                            i < j => components[s][i] < components[s][j]
                      /\ \A i, j \in DOMAIN methods[s] :
                            i < j => methods[s][i] < methods[s][j]
    BY DEF ComponentsSplit
  <2>1. s \in Syms /\ s < it /\ ~Erased(s) /\ kind[s] = "struct_union"
    BY DEF CleanInv, CleanTypes, TableInv, Done, SymKind, Syms
  <2>2. SplitDone(s)
    BY <2>1 DEF CleanInv, Visited
  <2>3. declared[s] \in Seq(Comps)
    BY <2>1, DeclOrderFacts DEF CleanInv, CleanTypes
  <2>4. DOMAIN declared[s] = 1 .. Len(declared[s])
    BY <2>3
  <2>. QED
    BY <2>2, <2>4 DEF SplitDone, Holds, InSeq, Sorted
<1>. QED
  BY <1>1, CleanInit, CleanStep, PTL DEF Spec

=============================================================================
