# TLA+ models of the CBMC excerpt

This directory holds TLA+ models of the code under `src/`, with TLC configurations that
model-check them and TLAPS proofs. The code in `src/` is an excerpt of CBMC:

- `src/src/cpp/cpp_typecheck.cpp` is the top level of the C++ front end's type checker.
  Appended to it is `bmc_util.h`, the utilities of the bounded model checker's driver
  (lines 341-594 of the file).
- `src/unnamed/part_000` is the unit tests of the SMT2 struct encoder.
- `src/unnamed/part_001` is the constructors of `struct_abstract_objectt`.
- `src/unnamed/part_002` is `goto_instruction_code.h`, the instruction classes.

`spec.md` describes the bounded model checker: symbolic execution → equation →
post-processing → decision procedure → property verdicts → trace. Of that pipeline, only
the property-registry utilities of `bmc_util.h` are in `src/`. The rest is modelled from
the spec only where a verdict depends on it.

## Components and how they interact

| Component | Source | Module(s) | Status |
|---|---|---|---|
| Property registry updates and the property decider | `cpp_typecheck.cpp` 451-513 (`bmc_util.h`) | `BmcProperties`, `BmcPropertiesProofs`, `PropertyRegistry` | partly |
| Symbolic executor and equation | spec §4.2, §4.3 | inside `BmcProperties`, as the per-depth instances of each assertion | partly (spec) |
| Trace builder, graphml, coverage | spec §4.5; declarations in `bmc_util.h` | — | not modelled (formatting) |
| C++ typecheck pass: `convert`, `static_and_dynamic_initialization`, `do_not_typechecked` | `cpp_typecheck.cpp` 24-60, 153-264 | `CppTypecheck`, `CppTypecheckProofs` | partly |
| `clean_up` | `cpp_typecheck.cpp` 266-324 | `CppCleanUp`, `CppCleanUpProofs` | modelled |
| `cpp_typecheck(expr)` wrapper | `cpp_typecheck.cpp` 96-137 | `CppTypecheckExpr`, `CppTypecheckExprProofs` | modelled |
| Queries (`this_struct_type`, `to_string`, `builtin_factory`, `contains_cpp_name`) | `cpp_typecheck.cpp` | — | not modelled (no state) |
| Instruction classes | `part_002` | `InstructionCode`, `InstructionCodeProofs` | partly (`code_inputt`/`code_outputt` bodies not in src) |
| Struct encoder tests | `part_000` | — | planned |
| `struct_abstract_objectt` constructors | `part_001` | — | not modelled (they only assert the type id) |

The C++ typechecker's phases run in the order `typecheck()` fixes (lines 53-59):
`CppTypecheck` covers conversion, initialization and the not-typechecked fixed point,
and `CppCleanUp` starts from the table these phases leave. The typechecker produces the
goto program whose instructions `InstructionCode` describes. Symbolic execution turns
those instructions into the equation that `BmcProperties` decides.

## Modules

### BmcProperties: the property-status life cycle

- **State.** `status` is the property registry (`propertiest`), which maps each
  property, and the loop's unwinding assertion `UnwindProp`, to NOT_CHECKED, UNKNOWN,
  PASS, FAIL or ERROR. `unwound` is the depth of the current equation. `pc` is the
  position in the driver loop. `converted` records whether the equation has been
  converted for the solver.
- **Program abstraction.** The program is chosen in `Init` and never changes.
  `prog[p][d]` says what property `p`'s assertion is at unwinding depth `d`: absent,
  constant true after simplification, valid but left to the solver, or violable.
  `uaInst` is the unwinding assertion at the bound. `deep[p]` is a counterexample that
  needs more unwindings than the bound, which is possible only if the loop can run past
  it (`uaInst = "viol"`).
- **Actions.**
  - `Symex` runs symbolic execution, then `update_properties_status_from_symex_target_equation`.
  - `SolveSat` / `SolveUnsat` / `SolveError` are the three answers of `run_property_decider`.
    Each begins with the conversion of `prepare_property_decider` (`Prepared`).
    `SolveSat` FAILs a non-empty subset of the violable goals, the goals true in the
    solver's model, and the driver then solves again.
  - `NothingToSolve` is the case with no UNKNOWN property.
  - `Resume` extends the equation by one unwinding in incremental mode (`--incremental-loop`).
  - `Finish` runs `update_status_of_not_checked_properties` and then
    `update_status_of_unknown_properties`.
- **Constants.** `Incremental` selects set_pass = false and per-unwinding solving.
  `UnwindingAssertions` selects `--unwinding-assertions`.

### PropertyRegistry: what the registry promises

- **State.** `verdict` maps each property to its status. `cex` is the set of properties
  that some execution within the bound violates; it never changes.
- **Step.** `Advance` moves any number of properties at once. Each moves only as
  `Allowed` permits: a decided status (PASS, FAIL, ERROR) stays. An open one (NOT_CHECKED,
  UNKNOWN) may stay, become UNKNOWN, PASS or ERROR, and may become FAIL only if the
  property is in `cex`.
- It is written from the spec's description of `propertiest`, since no single function
  of `src/` states the contract. `BmcProperties` implements it under the mapping
  `verdict <- status`, `cex <- CexWithinBound` (the properties violable at the bound).
  TLAPS proves this (`DriverImplementsRegistry`).

### CppTypecheck: `typecheck()`

- **Symbol table.** Symbols are `1..N` in iteration order. `present` is the set of those
  in the table. `inserts[s]` is the set of symbols that converting body `s` inserts (for
  instance instantiated defaults). They may sit anywhere in the order, before or after
  the iterator. Init chooses any table that the items could leave, constrained by
  `TableOK`:
  - which symbols are code;
  - which bodies are still `cpp_not_typechecked`;
  - what each body references (`refs`), which `convert_function` marks used;
  - which static data symbols need dynamic initialization, and which of those are
    extern or POD.
- **Actions.**
  - `ConvertItem` / `ConvertUnknown` are the dispatch of `convert(cpp_itemt&)`. An
    unknown item makes it `throw 0`.
  - `BeginInitialization`, `InitializeSymbol`, `SkipInitialization` and
    `EndInitialization` are the loop of `static_and_dynamic_initialization`, one symbol
    per step, in symbol order. `InitializeSymbol` appends the symbol to the block, moves
    a constructor-call initializer out of it (`make_nil`) and marks used the
    constructors that the call references. `SkipInitialization` is the `continue` for an
    extern or POD symbol. `EndInitialization` is `dynamic_initializations.clear()`.
  - `ConvertNotTypechecked` / `SkipSymbol` are one symbol of a pass of
    `do_not_typechecked`. A conversion adds `inserts[pos]` to the table. A place in the
    order that holds no symbol is skipped.
  - `RepeatPass` and `FinishNotTypechecked` are the `while(cont)` test and the final
    loop that makes the remaining values nil.
- **Ghost variable.** `initValue`, the values the items left, exists only for the properties.

### CppCleanUp: `clean_up()`

- **State.** The walk over `1..N` with `it`, and the set `table` of symbols not erased.
  Each struct or union has `components` and `methods`. A component is static code,
  static data, a type, code or data.
- **Actions.**
  - `EraseSymbol` handles templates and deferred members.
  - The split of a struct or union is the code's loop over its components, one
    component per step, with `compPos` the loop position and `dataMembers` the local
    vector. `BeginSplit` sets up the loop, `SkipComponent` skips static members and
    types, `PushFunctionMember` and `PushDataMember` are the two `push_back`s, and
    `SwapComponents` is the final `swap` and the iterator's advance.
  - `SkipSymbol` handles every other symbol.

### CppTypecheckExpr: `cpp_typecheck(expr, handler, ns)`

- **State.** The handler's error count, `errors_before`, and how `typecheck_expr` ended:
  by returning, or by throwing one of the four caught types.
- **Actions.**
  - `LogError` is an error message that `typecheck_expr` ends with `eom` before it
    continues.
  - `CatchInt`, `CatchMessage` and `TypecheckReturns` are the ways `typecheck_expr`
    ends, with the matching catch clause.
  - `ReturnResult` is the count comparison on line 136.
  - `NextCall` is the next call on the same handler.

### InstructionCode: `goto_instruction_code.h`

- **Representation.** An instruction is its statement and its operand sequence. An
  expression is its id and its type. The argument list is the `ID_arguments` operand.
- **Constructors.** `AssignDefault`, `Assign`, `Dead`, `CallOf`, `Call`, `CallArgs`,
  `Assume` and `Assert` give the initial states.
- **Actions.**
  - `TypedEdit` writes through the class's accessors.
  - `GenericEdit` goes through `exprt::operands()`, which stays public.
  - `CastTo` is `to_code_*`: its PRECONDITION, then `check` / `validate_expr`.
  - `ReadAccessor` reads an operand through the cast reference.
  - `Validate` is `validate`, which checks the types of the assignment and the call.

## Runs

| Run | Cfg | Checks | Result |
|---|---|---|---|
| `bmc_all` | `BmcAll.cfg` | TypeOK, FailIsReal, SoundPass, BoundSound, StatusMonotonic, AllDecided | pass (≈360k states) |
| `bmc_incremental` | `BmcIncremental.cfg` | EarlyPassByShortcut, FailIsReal, StatusMonotonic, AllDecided | pass (≈550k states) |
| `bmc_incremental_bound` | `BmcIncrementalBound.cfg` | BoundSound | violation (finding 1) |
| `cpp_typecheck` | `CppTypecheck.cfg` | UsedBodiesConverted, InitCallsConverted, Terminates | pass (≈4.2M states, about 80 s) |
| `cpp_clean_up` | `CppCleanUp.cfg` | TableCleaned, ComponentsSplit | pass (≈1.04M states) |
| `cpp_typecheck_expr` | `CppTypecheckExpr.cfg` | MessagesReported | pass |
| `cpp_typecheck_expr_throw` | `CppTypecheckExprThrow.cfg` | ThrowReported | violation (finding 2) |
| `instruction_code` | `InstructionCode.cfg` | TypedUseChecks, CastAccessSafe | pass |

What the properties say:
- **FailIsReal.** A FAIL has a violable instance within the explored unwinding.
- **SoundPass.** A PASS has none. It is checked in single-shot mode only; in
  incremental mode it fails, and that is finding 1.
- **BoundSound.** This is the spec's Soundness-under-bound. With unwinding assertions,
  when a property with a real counterexample ends PASS, the unwinding assertion does not
  also end PASS.
- **StatusMonotonic.** Terminal statuses never change, and nothing returns to
  NOT_CHECKED.
- **AllDecided.** The run ends with every property terminal.
- **EarlyPassByShortcut.** In incremental mode, before the final update, a property is
  PASS only if all its conditions were constant true in the equation of some unwinding
  so far. An UNSAT answer is given with set_pass false and decides nothing, so a
  property is never passed on a shallow equation and then left unchecked on the deeper
  ones. The mutant that ignores set_pass breaks it; StatusMonotonic and AllDecided do
  not notice that bug, because an early PASS is a legal move and still ends decided.
- **UsedBodiesConverted.** Every body of the table that was not typechecked and is used
  has been converted when `typecheck()` returns. This includes a body that a conversion
  inserted behind the iterator: the pass that inserted it set `cont`, so another pass
  runs.
- **InitCallsConverted.** When `typecheck()` returns, every constructor that the
  initialization block calls, and whose body was left not typechecked, has been
  converted. `static_and_dynamic_initialization` runs before `do_not_typechecked`, and
  the default-constructor call it builds marks the constructor used. Otherwise the final
  loop of `do_not_typechecked` would drop that body as unused. This property relates the
  two phases; the mutant whose call does not mark the constructor used breaks it, while
  UsedBodiesConverted still holds.
- **Terminates.** The fixed point ends.
- **TableCleaned.** `clean_up` erases exactly the templates and the deferred members.
- **ComponentsSplit.** `clean_up` partitions each kept struct's components into data
  members and methods, in declaration order.
- **MessagesReported.** The wrapper fails exactly when that call logged an error or
  threw a message-carrying exception.
- **TypedUseChecks.** Instructions built by constructors and edited through accessors
  keep the layout their `check()` demands.
- **CastAccessSafe.** After a successful cast, accessor reads stay in range.

Every property of a passing run has a mutant in `PROJECT.json`. A mutant is a plausible
bug in the mapped code, for example a dropped guard, a missing reset or a skipped
iterator step, and TLC finds the property violated under that run's own configuration.

### Bounds

- **BMC.** Two properties and the unwinding assertion, with bound 2, so depths 0, 1 and
  2. This is the smallest bound at which the incremental loop both resumes and reaches
  the bound. It also allows an instance that is constant true at one depth and violable
  at a deeper one. Every program over these depths is enumerated.
- **CppTypecheck.** Three symbols, enough for a body that is used only by a body later in
  iteration order, which forces a second pass, and for a symbol inserted before or after
  the iterator by the conversion of a third. Every place of `1..3` holds a symbol at some
  time: a place that never does behaves as an inert symbol, so the smaller tables add
  nothing. There is one item, known or unknown.
- **CppCleanUp.** Three symbols, so that two consecutive erased symbols can be followed
  by a struct. Two components of each of the five kinds.
- **CppTypecheckExpr.** Three calls of up to two errors each.
- **InstructionCode.** One value type, its code type, and argument lists of length up
  to 1.

### Fairness

- `BmcProperties` and `CppTypecheck` assume weak fairness of `Next`. Each is one
  sequential, single-threaded procedure (spec §5), which keeps running until it returns.
  The only blocking call is the solver, and a solver that never answers is the ERROR
  outcome of `SolveError`.
- The other modules check safety only.
- Runs use `CHECK_DEADLOCK FALSE` because the checker and the typechecker terminate:
  `pc = "done"` and `phase ∈ {"done","failed"}` are final states. `InstructionCode`
  checks for deadlock.

## Findings

1. **Incremental mode and the constant-true shortcut** (spec gap).
   - `update_properties_status_from_symex_target_equation` (line 451) sets PASS for a
     property whose conditions in the current equation are all constant true, and PASS
     is terminal.
   - In incremental mode the equation grows one unwinding at a time. A property whose
     shallow instances are constant true is therefore PASS before its deeper, violable
     instance is added, and it is never solved again.
   - If the unwinding assertion is itself constant true, the run ends with that property
     a plain PASS although an execution within the bound violates it.
   - The spec's Soundness-under-bound and "PASS must mean no counterexample under this
     bound" do not hold for this interaction. The spec's own rules (the shortcut plus
     monotonicity plus incremental extension) allow it.
   - TLC's trace: `p2` is `true` at depth 1 and `viol` at depth 2, `uaInst = "true"`,
     and the final state is all PASS.
2. **`catch(int)` in `cpp_typecheck(expr)`** (line 117).
   - The handler opens an error message and never ends it with `eom`, so it is not
     counted.
   - An int thrown by `typecheck_expr` without a preceding counted error message
     therefore yields "no error".
   - The spec's note on exception-based control flow treats an integer throw as a
     failure to propagate.

## Proofs (TLAPS)

`BmcPropertiesProofs.tla` proves seven theorems for every set of properties and every bound
`MaxUnwind ∈ Nat`. Five hold under both option settings; two are stated for single-shot
mode. The assumptions are `PropsAssumption`,
`MaxUnwindAssumption` and `OptionsAssumption`.

- **`TypeCorrect == Spec => []TypeOK`.**
  - `TypeInit` proves that the initial states are typed.
  - `TypeStep` has one case per action. Each registry update maps a registry to a
    registry (lemma `UpdatesTyped`), and so does the conversion `Prepared`
    (`PreparedTyped`).
- **`FailVerdictsReal == Spec => []FailIsReal`.**
  - FailIsReal alone is not inductive: it needs the type invariant. The inductive
    invariant is `FailInv == TypeOK /\ FailIsReal`.
  - `NewFailViolated` shows that a step leaves a property FAIL only if the property was
    already FAIL, or if it is violable at the current depth. Only `SatStatus` writes
    FAIL, and only on goals of `Violated`. `PrepareStatus` and the other updates neither
    write nor erase FAIL (`PreparedKeepsFail`).
  - `UnwoundGrows` shows that no step shrinks the equation or changes the program.
  - `ViolableMonotone` shows that a violable instance stays violable as the equation
    grows.
  - These three facts give `FailInvStep`, and PTL combines it with `Init => FailInv`.
- **`RegistryMonotonic == Spec => StatusMonotonic`** (an action property).
  - From `[]TypeOK`, every step satisfies `MonotoneAt(p)` for each property (lemma
    `MonotoneStep`, one case per action).
  - The conversion only moves NOT_CHECKED to UNKNOWN (`PreparedMonotone`).
  - The SAT, UNSAT and ERROR answers write only goals that are UNKNOWN after the
    conversion.
  - The equation updates touch only NOT_CHECKED and UNKNOWN properties.

- **`SinglePassSound == ~Incremental => (Spec => []SoundPass)`.**
  - The theorem is stated for single-shot mode only. In incremental mode SoundPass is
    false (finding 1), and TLC shows it.
  - The inductive invariant `SoundInv` has these parts:
    - before symex, every property is NOT_CHECKED;
    - after symex, the equation is the full one (`unwound = MaxUnwind`), so `Resume`
      is disabled;
    - a PASS property has no violable instance;
    - a property left NOT_CHECKED after symex has no violable instance, because it has
      no instance at all (`ViolableCases`);
    - once the solver is done (`pc` is `next` or `done`), no UNKNOWN property is
      violable. The last answer was UNSAT on all goals, ERROR, or there were no goals.
  - SoundPass alone is not inductive. `Finish` passes every NOT_CHECKED and UNKNOWN
    property, so the invariant must already say those are not violable.
  - `PreparedStatus` shows that the conversion only moves NOT_CHECKED to UNKNOWN. One
    step per action shows that `SoundInv` is preserved.
- **`SinglePassBoundSound == ~Incremental => (Spec => []BoundSound)`.**
  - The inductive invariant `BoundInv` is `SoundInv` plus two facts. A counterexample
    beyond the bound (`deep`) exists only if the unwinding assertion is violable. At
    `done` every property is terminal.
  - A PASS property with a real counterexample therefore has it beyond the bound. The
    unwinding assertion is then violable at the bound, so it is not PASS and is
    terminal: it is FAIL or ERROR.

- **`DriverImplementsRegistry == Spec => ImplementsRegistry`** (refinement).
  - `Init` maps to the registry's initial state: every status is NOT_CHECKED, and
    `CexWithinBound` is a set of properties.
  - `CexFixed` shows that `CexWithinBound` never changes, because no step changes the
    program or the bound (`UnwoundGrows`).
  - `StepAllowed` shows that each step moves every property within `Allowed`, from
    `FailInv`. Terminal statuses stay (`MonotoneStep`). A new FAIL is violable at the
    current depth (`NewFailViolated`), hence at the bound (`ViolableMonotone`).
  - PTL combines the step lemma with `Spec => []FailInv`.
  - The refinement is a consequence of FailIsReal and StatusMonotonic, which the runs
    check, so no run checks it separately; the theorem states it for every bound.
- **`IncrementalPassOnlyByShortcut == Spec => []EarlyPassByShortcut`.**
  - The inductive invariant is `EarlyInv == TypeOK /\ EarlyPassByShortcut`. In
    single-shot mode it holds trivially.
  - `Shortcut(p, j)` says that some unwinding up to `j` had all of `p`'s conditions
    constant true. `ShortcutGrows` shows that it stays true as the equation grows.
  - The registry update of `Symex` and `Resume` passes `p` only when the equation just
    built qualifies. The SAT, UNSAT (set_pass false) and ERROR answers write no PASS:
    the conversion only moves NOT_CHECKED to UNKNOWN (`PreparedStatus`). `Finish` leads
    to `done`, where the property no longer applies.

`CppTypecheckProofs.tla` proves two theorems for every table size `N >= 1` and every
number of items, from `NAssumption` and `NumItemsAssumption`:

- **`UsedBodiesAreConverted == Spec => []UsedBodiesConverted`.**
  - The inductive invariant `UsedInv` has four parts:
    - a body left not typechecked stays so until it is converted, unless the final loop
      makes an unused one nil;
    - `pos` stays in `1..N+1`;
    - a pass that has converted nothing so far has inserted nothing, and has met no used
      body of the table still not typechecked;
    - after the final loop no body of the table is not typechecked.
  - The third part is what makes the fixed point work. It is why `FinishNotTypechecked`,
    whose guard is `~cont`, leaves no used body unconverted, even when earlier passes
    inserted symbols.
- **`InitConstructorsConverted == Spec => []InitCallsConverted`.**
  - The inductive invariant `BlockInv` has these parts:
    - the block holds data symbols only, those that `dynamic_initializations` lists;
    - what a data symbol's initialization references is in the table, since only
      converting a body inserts symbols and the table only grows;
    - every constructor that a symbol of the block is initialized with is marked used.
  - `InitializeSymbol` appends the symbol and marks its constructors used in one step.
    The proof splits on whether the index is an old one or the new last one, using
    `AppendProperties`. No later step clears `used`.
  - At `done`, `UsedBodiesAreConverted` gives the conclusion for these used bodies. The
    theorem combines `[]BlockInv` with that theorem by PTL.

Both rest on the typing lemmas `StateInit` and `StateStep` about the part of the
state they read.

`CppTypecheckExprProofs.tla` proves, for every `MaxErrors` and `MaxCalls`:

- **`FailureReported == Spec => []MessagesReported`.**
  - The inductive invariant `ReportInv` relates the handler's count to the current call.
    The count is `errors_before`, plus the errors the call ended with `eom`, plus one if
    a message-carrying exception was caught (`CallErrors`).
  - While typecheck_expr runs, its outcome is not yet set. After `ReturnResult`, the
    result is the comparison of the counts.
  - `NextCall` re-establishes the invariant because it takes `errors_before` afresh.
    The `NextCallStaleBefore` mutant breaks exactly this.

`InstructionCodeProofs.tla` proves, for every set of value types and every `MaxArgs`:

- **`TypedInstructionsCheck == Spec => []TypedUseChecks`** and
  **`CastAccessorsSafe == Spec => []CastAccessSafe`.**
  - Both rest on one inductive invariant, `CheckInv`. The instruction is a well-formed
    statement with a sequence of expressions. `check()` holds while only typed
    accessors have changed it, and also while a successful cast is in use.
  - `ConstructedChecks` shows, per constructor, that every constructor's result passes
    `check()`. It uses `TupleSeq`, which says that operand tuples are sequences.
  - `ReplaceOperand` shows that an accessor write keeps the statement and the operand
    count. `CheckCases` unfolds `check()` and the accessor count per statement.
  - A generic edit may break `check()`, but it sets `generic` and drops the cast.

`CppCleanUpProofs.tla` proves, for every table size:

- **`CleanUpErasesExactly == Spec => []TableCleaned`.**
  - The inductive invariant `TableInv` has one main part: the table is the set of
    symbols from `it` on, plus the visited symbols that `clean_up` keeps.
  - Each step moves `it` by one and erases the visited symbol exactly when it is a
    template or deferred. This is the order of `it++` before `erase(cur_it)`.
- **`CleanUpSplitsComponents == Spec => []ComponentsSplit`.**
  - `Holds(q, d, k, ck, K)` says that `q` is the sorted list of the components among
    the first `k` of declaration order `d` whose kind `ck` is `K`. Declaration orders
    are strictly increasing (`DeclOrderFacts`).
  - The loop invariant `LoopInv` says that, at loop position `compPos`, the data
    members and the methods hold exactly the data and code components before
    `compPos`. `HoldsEmpty`, `HoldsSkip` and `HoldsAppend` show that the loop's first
    step, a skip and a `push_back` preserve it. At `SwapComponents` the position is
    past the end, so the swapped-in list is the full split (`SplitDone`).
  - `Visited` says that every kept struct before `it` is split and `Untouched` that
    every symbol from `it` on still has its declared components and, until its loop
    starts, no methods.
    `TableInv` from the first theorem and the typing `CleanTypes` complete the
    inductive invariant `CleanInv`. `CleanStep` has one step per conjunct.

The following are model-checked only:
- **Liveness** (`AllDecided`, `Terminates`). It depends on fairness and ENABLED, which
  TLAPS does not handle here.
- **SoundPass and BoundSound in incremental mode.** There they fail (finding 1), and
  the theorems above are stated for single-shot mode.
- **What a recursive definition computes for every input.** The planned struct encoder
  is such a definition. The provers cannot instantiate the library's induction
  theorems, and a module that reaches a RECURSIVE operator loses the SMT backend, so
  such modules stay TLC-only.

## Not modelled

- Symbolic execution, slicing and the memory model are in the spec, not in `src/`. Only
  their result is modelled: per-depth assertion instances.
- Trace building, graphml, coverage and help text are formatting.
- `typecheck_method_bodies` and `convert_function` are outside `src/` and are abstracted
  to the symbols a body uses.
- The symbol table's container behaviour. Insertion during `do_not_typechecked` is
  modelled, but whether `symbol_tablet`'s iterator stays valid across an insertion is a
  property of code outside `src/`.
- `struct_abstract_objectt` is constructors only.

## Further work

1. A `StructEncoding` module: the encoder modelled from spec §4.1 as a recursive
   definition with a write-once cache, checked against the cases of `part_000` (the
   24-bit struct, arrays of it, 2×4 nested arrays). It would be TLC-only because of the
   recursion.
2. A composition of `CppTypecheck` and `CppCleanUp` on one symbol table.
