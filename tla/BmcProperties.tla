--------------------------- MODULE BmcProperties ---------------------------
(***************************************************************************)
(* The property-status life cycle of the bounded model checker.            *)
(*                                                                         *)
(* Symbolic execution unwinds the program's loop up to a depth and leaves  *)
(* an equation; every assertion reached at some depth is an ASSERT step of *)
(* the equation carrying its property identifier.  The driver updates the  *)
(* property registry from the equation, converts the equation for the      *)
(* decision procedure, solves until no property is left UNKNOWN and        *)
(* finally turns the properties still NOT_CHECKED or UNKNOWN into PASS.    *)
(* In incremental mode (--incremental-loop) the equation is extended one   *)
(* unwinding at a time and solved after each, without declaring PASS on    *)
(* an UNSAT answer (set_pass = FALSE).                                      *)
(*                                                                         *)
(* The program under verification is abstracted to what a verdict depends  *)
(* on: for each property and each unwinding depth, whether an assertion    *)
(* instance of that property exists there and whether it is constant true  *)
(* after simplification, not provable by simplification but valid, or      *)
(* violable by some execution with that many iterations.                    *)
(***************************************************************************)
EXTENDS Naturals

CONSTANTS
    Props,               \* property identifiers of the program's assertions
    UnwindProp,          \* identifier of the loop's unwinding assertion
    MaxUnwind,           \* --unwind-max: the deepest unwinding symex builds
    Incremental,         \* --incremental-loop: solve after every unwinding
    UnwindingAssertions  \* --unwinding-assertions: check the bound is enough

ASSUME PropsAssumption == UnwindProp \notin Props
ASSUME MaxUnwindAssumption == MaxUnwind \in Nat
ASSUME OptionsAssumption ==
    Incremental \in BOOLEAN /\ UnwindingAssertions \in BOOLEAN

AllProps == Props \cup {UnwindProp}
Depth == 0 .. MaxUnwind

\* An assertion instance at one unwinding depth: absent, constant true in
\* the equation, left to the solver but valid, or violable.
Inst == {"none", "true", "open", "viol"}

\* property_statust, as the registry uses it.
Status == {"NOT_CHECKED", "UNKNOWN", "PASS", "FAIL", "ERROR"}
Terminal == {"PASS", "FAIL", "ERROR"}

\* Control points of the driver loop.
Pc == {"symex", "decide", "next", "done"}

VARIABLES
    prog,       \* [Props -> [Depth -> Inst]]: the program's assertions
    deep,       \* [Props -> BOOLEAN]: violable only beyond MaxUnwind
    uaInst,     \* the unwinding assertion's condition at the bound
    unwound,    \* depth of the equation symex has built so far
    pc,         \* where the driver is
    status,     \* the property registry: [AllProps -> Status]
    converted   \* the current equation has been converted for the solver

progVars == <<prog, deep, uaInst>>
vars == <<prog, deep, uaInst, unwound, pc, status, converted>>

-----------------------------------------------------------------------------
(* The equation after unwinding to depth k.                                *)

\* Mutant: --unwinding-assertions is not passed on to symex.
InstAtNoUnwindingAssertion(p, d) ==
    IF p = UnwindProp THEN "none" ELSE prog[p][d]

\* The assertion instance of p at depth d.  The unwinding assertion is an
\* instance only at the bound and only with --unwinding-assertions; without
\* it symex ends the path with assume(false) there.
InstAt(p, d) ==
    IF p = UnwindProp
    THEN IF UnwindingAssertions /\ d = MaxUnwind THEN uaInst ELSE "none"
    ELSE prog[p][d]

\* The depths an equation unwound to depth k covers.
UpTo(k) == {d \in Depth : d <= k}

InEquation(p, k) == \E d \in UpTo(k) : InstAt(p, d) # "none"
ConstantTrue(p, k) == \A d \in UpTo(k) : InstAt(p, d) \in {"none", "true"}
Violable(p, k) == \E d \in UpTo(k) : InstAt(p, d) = "viol"

\* Some execution, of any length, violates property p.
RealCex(p) == Violable(p, MaxUnwind) \/ deep[p]

-----------------------------------------------------------------------------
(* The registry updates of bmc_util.                                       *)

\* Mutant: any constant-true condition of a property passes it.
UpdateFromEquationAnyTrue(st, k) ==
    [p \in AllProps |->
        IF InEquation(p, k) /\ st[p] \in {"NOT_CHECKED", "UNKNOWN"}
        THEN IF \E d \in UpTo(k) : InstAt(p, d) = "true" THEN "PASS" ELSE "UNKNOWN"
        ELSE st[p]]

\* Mutant: the update overwrites a decided status.
UpdateFromEquationOverwrite(st, k) ==
    [p \in AllProps |->
        IF InEquation(p, k)
        THEN IF ConstantTrue(p, k) THEN "PASS" ELSE "UNKNOWN"
        ELSE st[p]]

\* update_properties_status_from_symex_target_equation: a property all of
\* whose conditions in the equation are constant true is PASS, any other
\* property of the equation is UNKNOWN; a decided status is kept.
UpdateFromEquation(st, k) ==
    [p \in AllProps |->
        IF InEquation(p, k) /\ st[p] \in {"NOT_CHECKED", "UNKNOWN"}
        THEN IF ConstantTrue(p, k) THEN "PASS" ELSE "UNKNOWN"
        ELSE st[p]]

\* prepare_property_decider: the properties to be checked are UNKNOWN.
PrepareStatus(st, k) ==
    [p \in AllProps |->
        IF InEquation(p, k) /\ st[p] = "NOT_CHECKED" THEN "UNKNOWN" ELSE st[p]]

\* Mutant: the NOT_CHECKED properties are left as they are.
NotCheckedToPassNoop(st) == st

\* update_status_of_not_checked_properties
NotCheckedToPass(st) ==
    [p \in AllProps |-> IF st[p] = "NOT_CHECKED" THEN "PASS" ELSE st[p]]

\* update_status_of_unknown_properties
UnknownToPass(st) ==
    [p \in AllProps |-> IF st[p] = "UNKNOWN" THEN "PASS" ELSE st[p]]

\* Mutant: a SAT answer fails every goal, not only those of the model.
SatStatusAllGoals(st, failed) ==
    [p \in AllProps |-> IF st[p] = "UNKNOWN" THEN "FAIL" ELSE st[p]]

\* Mutant: an ERROR answer is written to every property.
ErrorStatusAll(st) == [p \in AllProps |-> "ERROR"]

\* run_property_decider's mapping of the solver's answer onto the UNKNOWN
\* properties: the goals true in a satisfying model FAIL; on UNSAT the
\* UNKNOWN ones PASS when set_pass holds; on ERROR they are ERROR.
SatStatus(st, failed) ==
    [p \in AllProps |-> IF p \in failed THEN "FAIL" ELSE st[p]]
\* Mutant: an UNSAT answer passes the goals whatever set_pass says.
UnsatStatusIgnoreSetPass(st, setPass) == UnknownToPass(st)
UnsatStatus(st, setPass) ==
    IF setPass THEN UnknownToPass(st) ELSE st
ErrorStatus(st) ==
    [p \in AllProps |-> IF st[p] = "UNKNOWN" THEN "ERROR" ELSE st[p]]

\* The incremental checker solves with set_pass = false.
SetPass == ~Incremental

Unknown(st) == {p \in AllProps : st[p] = "UNKNOWN"}

-----------------------------------------------------------------------------
(* The driver.                                                             *)

Init ==
    /\ prog \in [Props -> [Depth -> Inst]]
    /\ uaInst \in {"true", "open", "viol"}
    \* only a loop that can run past the bound has deeper counterexamples
    /\ deep \in [Props -> IF uaInst = "viol" THEN BOOLEAN ELSE {FALSE}]
    /\ unwound = 0
    /\ pc = "symex"
    /\ status = [p \in AllProps |-> "NOT_CHECKED"]
    /\ converted = FALSE

\* Symbolic execution from the entry point: to the bound, or in incremental
\* mode to the first pause of the loop; then the registry is updated.
Symex ==
    /\ pc = "symex"
    /\ LET k == IF Incremental THEN unwound ELSE MaxUnwind
       IN /\ unwound' = k
          /\ status' = UpdateFromEquation(status, k)
    /\ converted' = FALSE
    /\ pc' = "decide"
    /\ UNCHANGED progVars

\* No UNKNOWN property: nothing to solve on this equation.
NothingToSolve ==
    /\ pc = "decide"
    /\ Unknown(status) = {}
    /\ pc' = "next"
    /\ UNCHANGED <<progVars, unwound, status, converted>>

\* The registry as the solver sees it: converting the equation first, if
\* this has not been done, makes its properties UNKNOWN.
Prepared ==
    IF converted THEN status ELSE PrepareStatus(status, unwound)

\* The goals of the solver call and those some execution satisfies.
Goals == Unknown(Prepared)
Violated == {p \in Goals : Violable(p, unwound)}

\* A solver call answers SAT: the goals true in its model FAIL and the
\* driver solves again for the rest.
SolveSat ==
    /\ pc = "decide"
    /\ Violated # {}
    /\ \E failed \in (SUBSET Violated) \ {{}} :
          status' = SatStatus(Prepared, failed)
    /\ converted' = TRUE
    /\ UNCHANGED <<progVars, unwound, pc>>

\* A solver call answers UNSAT: no goal can be violated on this equation.
SolveUnsat ==
    /\ pc = "decide"
    /\ Goals # {}
    /\ Violated = {}
    /\ status' = UnsatStatus(Prepared, SetPass)
    /\ converted' = TRUE
    /\ pc' = "next"
    /\ UNCHANGED <<progVars, unwound>>

\* The solver fails or times out: every goal is ERROR.
SolveError ==
    /\ pc = "decide"
    /\ Goals # {}
    /\ status' = ErrorStatus(Prepared)
    /\ converted' = TRUE
    /\ pc' = "next"
    /\ UNCHANGED <<progVars, unwound>>

\* Mutant: symex resumes without checking --unwind-max.
ResumePastBound ==
    /\ pc = "next"
    /\ unwound' = unwound + 1
    /\ status' = UpdateFromEquation(status, unwound + 1)
    /\ converted' = FALSE
    /\ pc' = "decide"
    /\ UNCHANGED progVars

\* Incremental mode: symex resumes for one more unwinding of the loop.
Resume ==
    /\ pc = "next"
    /\ unwound < MaxUnwind
    /\ unwound' = unwound + 1
    /\ status' = UpdateFromEquation(status, unwound + 1)
    /\ converted' = FALSE
    /\ pc' = "decide"
    /\ UNCHANGED progVars

\* The full equation has been decided: whatever is still NOT_CHECKED or
\* UNKNOWN is reported PASS.
Finish ==
    /\ pc = "next"
    /\ unwound = MaxUnwind
    /\ status' = UnknownToPass(NotCheckedToPass(status))
    /\ pc' = "done"
    /\ UNCHANGED <<progVars, unwound, converted>>

Next ==
    \/ Symex
    \/ NothingToSolve
    \/ SolveSat
    \/ SolveUnsat
    \/ SolveError
    \/ Resume
    \/ Finish

\* The checker is one sequential process: it keeps taking steps.
Spec == Init /\ [][Next]_vars /\ WF_vars(Next)

-----------------------------------------------------------------------------
(* Properties.                                                             *)

TypeOK ==
    /\ prog \in [Props -> [Depth -> Inst]]
    /\ deep \in [Props -> BOOLEAN]
    /\ uaInst \in {"true", "open", "viol"}
    /\ unwound \in Depth
    /\ pc \in Pc
    /\ status \in [AllProps -> Status]
    /\ converted \in BOOLEAN

\* A FAIL verdict is backed by an assertion instance of the equation that
\* some execution within the explored unwinding violates: the solver's
\* model marks only goals it satisfies (run_property_decider).
FailIsReal ==
    \A p \in AllProps : status[p] = "FAIL" => Violable(p, unwound)

\* A PASS verdict means no counterexample exists within the unwinding the
\* equation covers: neither the constant-true shortcut of
\* update_properties_status_from_symex_target_equation nor the final
\* update_status_of_unknown_properties may pass a violable property.
SoundPass ==
    \A p \in AllProps : status[p] = "PASS" => ~Violable(p, unwound)

\* In incremental mode an UNSAT answer decides nothing (set_pass is false,
\* run_property_decider): until the final update_status_of_unknown_properties
\* a property can only be PASS through the constant-true shortcut, so all
\* its conditions were constant true in the equation of some unwinding so
\* far.  A PASS on an UNSAT of a shallow equation would never be re-checked
\* against the deeper unwindings.
EarlyPassByShortcut ==
    (Incremental /\ pc # "done") =>
        \A p \in AllProps : status[p] = "PASS" =>
            \E k \in UpTo(unwound) : InEquation(p, k) /\ ConstantTrue(p, k)

\* Soundness under the bound: with --unwinding-assertions, when the run
\* ends with a property PASS that some execution violates, the unwinding
\* assertion is reported FAIL (or ERROR), never PASS as well.
BoundSound ==
    (pc = "done" /\ UnwindingAssertions) =>
        \A p \in Props :
            (RealCex(p) /\ status[p] = "PASS") =>
                status[UnwindProp] \in {"FAIL", "ERROR"}

\* The registry is monotonic: a decided property keeps its verdict and a
\* property never returns to NOT_CHECKED.
StatusMonotonic ==
    [][\A p \in AllProps :
          /\ status[p] \in Terminal => status'[p] = status[p]
          /\ status[p] # "NOT_CHECKED" => status'[p] # "NOT_CHECKED"]_vars

\* Every run of the checker ends, with a verdict for every property.
AllDecided ==
    <>(pc = "done" /\ \A p \in AllProps : status[p] \in Terminal)


-----------------------------------------------------------------------------
(* Refinement: the driver implements the abstract property registry.       *)

\* The properties with a counterexample within --unwind-max.
CexWithinBound == {p \in AllProps : Violable(p, MaxUnwind)}

Registry == INSTANCE PropertyRegistry
                WITH Properties <- AllProps, verdict <- status,
                     cex <- CexWithinBound

\* Every behaviour of the driver, in either mode, is a behaviour of the
\* registry: the updates of bmc_util and the solver's answers move each
\* property only from open to UNKNOWN or to a verdict, never out of a
\* verdict, and FAIL only a property violable within the bound.
ImplementsRegistry == Registry!Spec

=============================================================================
