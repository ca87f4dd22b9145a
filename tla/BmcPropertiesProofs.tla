------------------------- MODULE BmcPropertiesProofs -------------------------
(***************************************************************************)
(* Proofs about the property-status life cycle of BmcProperties, for every *)
(* set of properties, every unwinding bound and every choice of options.    *)
(***************************************************************************)
EXTENDS BmcProperties, TLAPS

USE PropsAssumption, MaxUnwindAssumption, OptionsAssumption

-----------------------------------------------------------------------------
(* Type correctness.                                                       *)

\* Each registry update maps a registry to a registry.
LEMMA UpdatesTyped ==
    ASSUME NEW st \in [AllProps -> Status], NEW k \in Depth
    PROVE  /\ UpdateFromEquation(st, k) \in [AllProps -> Status]
           /\ NotCheckedToPass(st) \in [AllProps -> Status]
           /\ UnknownToPass(st) \in [AllProps -> Status]
BY DEF UpdateFromEquation, NotCheckedToPass, UnknownToPass, Status

\* The registry the solver works on is a registry.
LEMMA PreparedTyped ==
    ASSUME TypeOK PROVE Prepared \in [AllProps -> Status]
BY DEF Prepared, PrepareStatus, TypeOK, Status

\* The initial states are well typed.
LEMMA TypeInit == Init => TypeOK
<1> SUFFICES ASSUME Init PROVE TypeOK
  OBVIOUS
<1>1. deep \in [Props -> BOOLEAN]
  <2>1. (IF uaInst = "viol" THEN BOOLEAN ELSE {FALSE}) \subseteq BOOLEAN
    OBVIOUS
  <2>. QED
    BY <2>1, Zenon DEF Init
<1>2. status \in [AllProps -> Status]
  BY DEF Init, Status
<1>3. unwound \in Depth
  BY DEF Init, Depth
<1>. QED
  BY <1>1, <1>2, <1>3 DEF Init, TypeOK, Pc

\* Every step keeps the variables in their domains.
LEMMA TypeStep == TypeOK /\ [Next]_vars => TypeOK'
<1> SUFFICES ASSUME TypeOK, [Next]_vars PROVE TypeOK'
  OBVIOUS
<1>1. CASE Symex
  <2>1. (IF Incremental THEN unwound ELSE MaxUnwind) \in Depth
    BY DEF TypeOK, Depth
  <2>2. status' \in [AllProps -> Status]
    BY <1>1, <2>1, UpdatesTyped DEF Symex, TypeOK
  <2>. QED
    BY <1>1, <2>1, <2>2 DEF Symex, TypeOK, Pc, progVars
<1>2. CASE NothingToSolve
  BY <1>2 DEF NothingToSolve, TypeOK, Pc, progVars
<1>3. CASE SolveSat
  <2>1. PICK failed \in (SUBSET Violated) \ {{}} :
              status' = SatStatus(Prepared, failed)
    BY <1>3 DEF SolveSat
  <2>2. failed \in SUBSET AllProps
    BY DEF Violated, Goals, Unknown
  <2>3. Prepared \in [AllProps -> Status]
    BY PreparedTyped
  <2>4. status' \in [AllProps -> Status]
    BY <2>1, <2>2, <2>3 DEF SatStatus, Status
  <2>. QED
    BY <1>3, <2>4 DEF SolveSat, TypeOK, progVars
<1>4. CASE SolveUnsat
  <2>1. Prepared \in [AllProps -> Status]
    BY PreparedTyped
  <2>2. status' \in [AllProps -> Status]
    BY <1>4, <2>1 DEF SolveUnsat, SetPass, UnsatStatus, UnknownToPass, Status
  <2>. QED
    BY <1>4, <2>2 DEF SolveUnsat, TypeOK, Pc, progVars
<1>5. CASE SolveError
  <2>1. Prepared \in [AllProps -> Status]
    BY PreparedTyped
  <2>2. status' \in [AllProps -> Status]
    BY <1>5, <2>1 DEF SolveError, ErrorStatus, Status
  <2>. QED
    BY <1>5, <2>2 DEF SolveError, TypeOK, Pc, progVars
<1>6. CASE Resume
  <2>1. unwound + 1 \in Depth
    BY <1>6 DEF Resume, TypeOK, Depth
  <2>2. status' \in [AllProps -> Status]
    BY <1>6, <2>1, UpdatesTyped DEF Resume, TypeOK
  <2>. QED
    BY <1>6, <2>1, <2>2 DEF Resume, TypeOK, Pc, progVars
<1>7. CASE Finish
  <2>1. status' \in [AllProps -> Status]
    BY <1>7, UpdatesTyped DEF Finish, TypeOK, Depth
  <2>. QED
    BY <1>7, <2>1 DEF Finish, TypeOK, Pc, progVars
<1>8. CASE UNCHANGED vars
  BY <1>8 DEF vars, TypeOK
<1>. QED
  BY <1>1, <1>2, <1>3, <1>4, <1>5, <1>6, <1>7, <1>8 DEF Next

\* The type invariant: the driver keeps every variable in its domain.
THEOREM TypeCorrect == Spec => []TypeOK
BY TypeInit, TypeStep, PTL DEF Spec


-----------------------------------------------------------------------------
(* FAIL verdicts are backed by a violable assertion instance.              *)

\* A property violable in an equation stays violable when the equation is
\* unwound further.
LEMMA ViolableMonotone ==
    ASSUME NEW p, NEW j \in Depth, NEW k \in Depth, j <= k, Violable(p, j)
    PROVE  Violable(p, k)
BY DEF Violable, UpTo, Depth

\* Converting the equation never writes or erases FAIL.
LEMMA PreparedKeepsFail ==
    ASSUME TypeOK, NEW p \in AllProps
    PROVE  Prepared[p] = "FAIL" <=> status[p] = "FAIL"
BY DEF Prepared, PrepareStatus, TypeOK

\* No step rewinds the equation or changes the program.
LEMMA UnwoundGrows ==
    ASSUME TypeOK, [Next]_vars
    PROVE  /\ UNCHANGED progVars
           /\ unwound <= unwound'
           /\ unwound' \in Depth
<1>1. TypeOK'
  BY TypeStep
<1>2. UNCHANGED progVars
  BY DEF Next, Symex, NothingToSolve, SolveSat, SolveUnsat, SolveError,
         Resume, Finish, vars, progVars
<1>3. unwound <= unwound'
  BY DEF Next, Symex, NothingToSolve, SolveSat, SolveUnsat, SolveError,
         Resume, Finish, vars, TypeOK, Depth
<1>. QED
  BY <1>1, <1>2, <1>3 DEF TypeOK

\* Only a SAT answer writes FAIL, and only on goals its model violates.
LEMMA NewFailViolated ==
    ASSUME TypeOK, [Next]_vars, NEW p \in AllProps, status'[p] = "FAIL"
    PROVE  status[p] = "FAIL" \/ Violable(p, unwound)
<1>1. Prepared[p] = "FAIL" => status[p] = "FAIL"
  BY PreparedKeepsFail
<1>2. CASE Symex
  BY <1>2 DEF Symex, UpdateFromEquation
<1>3. CASE NothingToSolve
  BY <1>3 DEF NothingToSolve
<1>4. CASE SolveSat
  <2>1. PICK failed \in (SUBSET Violated) \ {{}} :
              status' = SatStatus(Prepared, failed)
    BY <1>4 DEF SolveSat
  <2>2. CASE p \in failed
    BY <2>2 DEF Violated
  <2>3. CASE p \notin failed
    BY <1>1, <2>1, <2>3 DEF SatStatus
  <2>. QED
    BY <2>2, <2>3
<1>5. CASE SolveUnsat
  BY <1>1, <1>5 DEF SolveUnsat, UnsatStatus, UnknownToPass
<1>6. CASE SolveError
  BY <1>1, <1>6 DEF SolveError, ErrorStatus
<1>7. CASE Resume
  BY <1>7 DEF Resume, UpdateFromEquation
<1>8. CASE Finish
  BY <1>8 DEF Finish, UnknownToPass, NotCheckedToPass, TypeOK
<1>9. CASE UNCHANGED vars
  BY <1>9 DEF vars
<1>. QED
  BY <1>2, <1>3, <1>4, <1>5, <1>6, <1>7, <1>8, <1>9 DEF Next

\* The invariant FailIsReal, strengthened by the type invariant.
FailInv == TypeOK /\ FailIsReal

LEMMA FailInvStep == FailInv /\ [Next]_vars => FailInv'
<1> SUFFICES ASSUME FailInv, [Next]_vars PROVE FailInv'
  OBVIOUS
<1>1. TypeOK'
  BY TypeStep DEF FailInv
<1>2. ASSUME NEW p \in AllProps, status'[p] = "FAIL"
      PROVE  Violable(p, unwound)'
  <2>1. Violable(p, unwound)
    BY <1>2, NewFailViolated DEF FailInv, FailIsReal
  <2>2. /\ UNCHANGED progVars
        /\ unwound <= unwound'
        /\ unwound' \in Depth
    BY UnwoundGrows DEF FailInv
  <2>3. Violable(p, unwound')
    BY <2>1, <2>2, ViolableMonotone DEF FailInv, TypeOK
  <2>. QED
    BY <2>2, <2>3 DEF Violable, InstAt, UpTo, progVars
<1>. QED
  BY <1>1, <1>2 DEF FailInv, FailIsReal

\* A FAIL verdict of the checker always names a property that some
\* execution within the explored unwinding violates (run_property_decider
\* fails only the goals of the solver's model).
THEOREM FailVerdictsReal == Spec => []FailIsReal
<1>1. Init => FailInv
  BY TypeInit DEF Init, FailInv, FailIsReal
<1>2. FailInv => FailIsReal
  BY DEF FailInv
<1>. QED
  BY <1>1, <1>2, FailInvStep, PTL DEF Spec

-----------------------------------------------------------------------------
(* The registry is monotonic.                                              *)

\* The step relation on one property's status that StatusMonotonic asks of
\* every step.
MonotoneAt(p) ==
    /\ status[p] \in Terminal => status'[p] = status[p]
    /\ status[p] # "NOT_CHECKED" => status'[p] # "NOT_CHECKED"

\* Converting the equation only moves NOT_CHECKED to UNKNOWN.
LEMMA PreparedMonotone ==
    ASSUME TypeOK, NEW p \in AllProps
    PROVE  /\ status[p] \in Terminal => Prepared[p] = status[p]
           /\ status[p] # "NOT_CHECKED" => Prepared[p] = status[p]
           /\ Prepared[p] \in {status[p], "UNKNOWN"}
BY DEF Prepared, PrepareStatus, TypeOK, Terminal

LEMMA MonotoneStep ==
    ASSUME TypeOK, [Next]_vars, NEW p \in AllProps
    PROVE  MonotoneAt(p)
<1>1. CASE Symex
  BY <1>1 DEF Symex, UpdateFromEquation, MonotoneAt, Terminal
<1>2. CASE NothingToSolve
  BY <1>2 DEF NothingToSolve, MonotoneAt
<1>3. CASE SolveSat
  <2>1. PICK failed \in (SUBSET Violated) \ {{}} :
              status' = SatStatus(Prepared, failed)
    BY <1>3 DEF SolveSat
  <2>2. p \in failed => Prepared[p] = "UNKNOWN"
    BY DEF Violated, Goals, Unknown
  <2>3. status'[p] = IF p \in failed THEN "FAIL" ELSE Prepared[p]
    BY <2>1 DEF SatStatus
  <2>. QED
    BY <2>2, <2>3, PreparedMonotone DEF MonotoneAt, Terminal
<1>4. CASE SolveUnsat
  <2>1. status'[p] = IF SetPass /\ Prepared[p] = "UNKNOWN" THEN "PASS"
                     ELSE Prepared[p]
    BY <1>4 DEF SolveUnsat, UnsatStatus, UnknownToPass
  <2>. QED
    BY <2>1, PreparedMonotone DEF MonotoneAt, Terminal
<1>5. CASE SolveError
  <2>1. status'[p] = IF Prepared[p] = "UNKNOWN" THEN "ERROR" ELSE Prepared[p]
    BY <1>5 DEF SolveError, ErrorStatus
  <2>. QED
    BY <2>1, PreparedMonotone DEF MonotoneAt, Terminal
<1>6. CASE Resume
  BY <1>6 DEF Resume, UpdateFromEquation, MonotoneAt, Terminal
<1>7. CASE Finish
  BY <1>7 DEF Finish, UnknownToPass, NotCheckedToPass, MonotoneAt, Terminal
<1>8. CASE UNCHANGED vars
  BY <1>8 DEF vars, MonotoneAt
<1>. QED
  BY <1>1, <1>2, <1>3, <1>4, <1>5, <1>6, <1>7, <1>8 DEF Next

\* The registry is monotonic in every run: no step changes a PASS, FAIL or
\* ERROR verdict, and no step returns a property to NOT_CHECKED (the
\* registry updates of bmc_util only move statuses forward).
THEOREM RegistryMonotonic == Spec => StatusMonotonic
<1>1. TypeOK /\ [Next]_vars =>
        [\A p \in AllProps :
            /\ status[p] \in Terminal => status'[p] = status[p]
            /\ status[p] # "NOT_CHECKED" => status'[p] # "NOT_CHECKED"]_vars
  BY MonotoneStep DEF MonotoneAt
<1>. QED
  BY <1>1, TypeCorrect, PTL DEF Spec, StatusMonotonic


-----------------------------------------------------------------------------
(* Refinement of the abstract property registry.                           *)

\* The properties with a counterexample within the bound are fixed by the
\* program, which no step changes.
LEMMA CexFixed ==
    ASSUME TypeOK, [Next]_vars
    PROVE  CexWithinBound' = CexWithinBound
BY UnwoundGrows DEF CexWithinBound, Violable, InstAt, UpTo, progVars

\* Each step moves each property to a status the registry allows it.
LEMMA StepAllowed ==
    ASSUME FailInv, [Next]_vars, NEW p \in AllProps
    PROVE  status'[p] \in Registry!Allowed(p)
<1>1. MonotoneAt(p)
  BY MonotoneStep DEF FailInv
<1>2. status'[p] \in Status
  BY TypeStep DEF FailInv, TypeOK
<1>3. ASSUME status'[p] = "FAIL", status[p] # "FAIL"
      PROVE  p \in CexWithinBound
  <2>1. Violable(p, unwound)
    BY <1>3, NewFailViolated DEF FailInv
  <2>2. unwound \in Depth /\ MaxUnwind \in Depth /\ unwound <= MaxUnwind
    BY DEF FailInv, TypeOK, Depth
  <2>. QED
    BY <2>1, <2>2, ViolableMonotone DEF CexWithinBound
<1>. QED
  BY <1>1, <1>2, <1>3 DEF MonotoneAt, Terminal, Status, Registry!Allowed,
                          Registry!Decided

\* The driver implements the registry: under the mapping of verdict to the
\* registry of bmc_util and of cex to the properties violable within
\* --unwind-max, every initial state of the driver is one of the registry
\* and every step of the driver, in single-shot or incremental mode, is a
\* registry update or leaves both unchanged.
THEOREM DriverImplementsRegistry == Spec => ImplementsRegistry
<1>1. Init => Registry!Init
  BY DEF Init, Registry!Init, CexWithinBound
<1>2. FailInv /\ [Next]_vars => [Registry!Next]_Registry!vars
  <2> SUFFICES ASSUME FailInv, [Next]_vars
               PROVE  [Registry!Next]_Registry!vars
    OBVIOUS
  <2>1. status' \in [AllProps -> Status]
    BY TypeStep DEF FailInv, TypeOK
  <2>2. \A p \in AllProps : status'[p] \in Registry!Allowed(p)
    BY StepAllowed
  <2>3. CexWithinBound' = CexWithinBound
    BY CexFixed DEF FailInv
  <2>. QED
    BY <2>1, <2>2, <2>3 DEF Registry!Next, Registry!Advance, Registry!Status,
                            Status
<1>3. Spec => []FailInv
  <2>1. Init => FailInv
    BY TypeInit DEF Init, FailInv, FailIsReal
  <2>. QED
    BY <2>1, FailInvStep, PTL DEF Spec
<1>. QED
  BY <1>1, <1>2, <1>3, PTL DEF Spec, ImplementsRegistry, Registry!Spec

-----------------------------------------------------------------------------
(* PASS verdicts of the single-shot checker.                               *)

\* The inductive invariant behind SoundPass in single-shot mode: before
\* symex nothing is checked; after it the equation is the full one; and a
\* property is PASS, or is left NOT_CHECKED after symex, or is UNKNOWN once
\* the solver is done, only if the equation has no violable instance of it.
SoundInv ==
    /\ TypeOK
    /\ pc = "symex" => \A p \in AllProps : status[p] = "NOT_CHECKED"
    /\ pc # "symex" => unwound = MaxUnwind
    /\ \A p \in AllProps :
          /\ status[p] = "PASS" => ~Violable(p, unwound)
          /\ pc # "symex" /\ status[p] = "NOT_CHECKED" => ~Violable(p, unwound)
          /\ pc \in {"next", "done"} /\ status[p] = "UNKNOWN" =>
                ~Violable(p, unwound)

\* A violable property has an instance in the equation, and a property all
\* of whose instances are constant true has no violable one.
LEMMA ViolableCases ==
    ASSUME NEW p, NEW k
    PROVE  /\ Violable(p, k) => InEquation(p, k)
           /\ ConstantTrue(p, k) => ~Violable(p, k)
BY DEF Violable, InEquation, ConstantTrue

\* Converting the equation only makes NOT_CHECKED properties UNKNOWN.
LEMMA PreparedStatus ==
    ASSUME TypeOK, NEW p \in AllProps
    PROVE  \/ Prepared[p] = status[p]
           \/ status[p] = "NOT_CHECKED" /\ Prepared[p] = "UNKNOWN"
BY DEF Prepared, PrepareStatus, TypeOK

LEMMA SoundInit == Init => SoundInv
<1> SUFFICES ASSUME Init PROVE SoundInv
  OBVIOUS
<1>1. TypeOK
  BY TypeInit
<1>. QED
  BY <1>1 DEF Init, SoundInv

LEMMA SoundStep ==
    ASSUME ~Incremental, SoundInv, [Next]_vars
    PROVE  SoundInv'
<1>0. TypeOK'
  BY TypeStep DEF SoundInv
<1>a. \A p \in AllProps : Violable(p, unwound)' <=> Violable(p, unwound')
  \* The program is fixed: only the depth of the equation can move.
  <2>1. UNCHANGED progVars
    BY UnwoundGrows DEF SoundInv
  <2>. QED
    BY <2>1 DEF Violable, InstAt, UpTo, progVars
<1>1. CASE Symex
  \* Symex builds the whole equation and the registry update passes only
  \* properties whose instances are all constant true.
  <2>1. unwound' = MaxUnwind /\ pc' = "decide"
    BY <1>1 DEF Symex
  <2>2. \A p \in AllProps : status[p] = "NOT_CHECKED"
    BY <1>1 DEF Symex, SoundInv
  <2>3. status' = UpdateFromEquation(status, MaxUnwind)
    BY <1>1 DEF Symex
  <2>4. ASSUME NEW p \in AllProps
        PROVE  /\ status'[p] = "PASS" => ~Violable(p, unwound')
               /\ status'[p] = "NOT_CHECKED" => ~Violable(p, unwound')
    BY <2>1, <2>2, <2>3, ViolableCases DEF UpdateFromEquation
  <2>. QED
    BY <1>0, <1>a, <2>1, <2>4 DEF SoundInv
<1>2. CASE NothingToSolve
  BY <1>0, <1>a, <1>2 DEF NothingToSolve, SoundInv, Unknown
<1>3. CASE SolveSat
  \* The solver FAILs some goals and keeps the other verdicts.
  <2>1. PICK failed \in (SUBSET Violated) \ {{}} :
              status' = SatStatus(Prepared, failed)
    BY <1>3 DEF SolveSat
  <2>2. pc = "decide" /\ pc' = "decide" /\ unwound' = unwound
    BY <1>3 DEF SolveSat
  <2>3. ASSUME NEW p \in AllProps
        PROVE  /\ status'[p] = "PASS" => ~Violable(p, unwound')
               /\ status'[p] = "NOT_CHECKED" => ~Violable(p, unwound')
    <3>1. status'[p] = "PASS" \/ status'[p] = "NOT_CHECKED"
            => status'[p] = Prepared[p]
      BY <2>1 DEF SatStatus
    <3>. QED
      BY <2>2, <3>1, PreparedStatus DEF SoundInv
  <2>. QED
    BY <1>0, <1>a, <2>2, <2>3 DEF SoundInv
<1>4. CASE SolveUnsat
  \* With set_pass, the goals the solver found unsatisfiable PASS.
  <2>1. status' = UnknownToPass(Prepared)
    BY <1>4 DEF SolveUnsat, UnsatStatus, SetPass
  <2>2. pc = "decide" /\ pc' = "next" /\ unwound' = unwound
    BY <1>4 DEF SolveUnsat
  <2>3. \A p \in AllProps : Prepared[p] = "UNKNOWN" => ~Violable(p, unwound)
    BY <1>4 DEF SolveUnsat, Violated, Goals, Unknown
  <2>4. ASSUME NEW p \in AllProps
        PROVE  /\ status'[p] = "PASS" => ~Violable(p, unwound')
               /\ status'[p] = "NOT_CHECKED" => ~Violable(p, unwound')
               /\ status'[p] # "UNKNOWN"
    BY <2>1, <2>2, <2>3, PreparedStatus DEF SoundInv, UnknownToPass
  <2>. QED
    BY <1>0, <1>a, <2>2, <2>4 DEF SoundInv
<1>5. CASE SolveError
  \* The goals become ERROR; the other verdicts are kept.
  <2>1. status' = ErrorStatus(Prepared)
    BY <1>5 DEF SolveError
  <2>2. pc = "decide" /\ pc' = "next" /\ unwound' = unwound
    BY <1>5 DEF SolveError
  <2>3. ASSUME NEW p \in AllProps
        PROVE  /\ status'[p] = "PASS" => ~Violable(p, unwound')
               /\ status'[p] = "NOT_CHECKED" => ~Violable(p, unwound')
               /\ status'[p] # "UNKNOWN"
    BY <2>1, <2>2, PreparedStatus DEF SoundInv, ErrorStatus
  <2>. QED
    BY <1>0, <1>a, <2>2, <2>3 DEF SoundInv
<1>6. CASE Resume
  \* The full equation cannot be extended.
  BY <1>6 DEF Resume, SoundInv, TypeOK, Depth
<1>7. CASE Finish
  \* Once the solver is done, what is still open has no violable instance.
  <2>1. pc = "next" /\ pc' = "done" /\ unwound' = unwound
    BY <1>7 DEF Finish
  <2>2. ASSUME NEW p \in AllProps
        PROVE  /\ status'[p] = "PASS" => ~Violable(p, unwound')
               /\ status'[p] # "NOT_CHECKED" /\ status'[p] # "UNKNOWN"
    BY <1>7, <2>1 DEF Finish, SoundInv, UnknownToPass, NotCheckedToPass, TypeOK
  <2>. QED
    BY <1>0, <1>a, <2>1, <2>2 DEF SoundInv
<1>8. CASE UNCHANGED vars
  BY <1>0, <1>a, <1>8 DEF vars, SoundInv
<1>. QED
  BY <1>1, <1>2, <1>3, <1>4, <1>5, <1>6, <1>7, <1>8 DEF Next

\* In single-shot mode a PASS verdict is never given to a property that an
\* execution within the unwinding violates: neither the constant-true
\* shortcut of update_properties_status_from_symex_target_equation, nor an
\* UNSAT answer with set_pass, nor the final update_status_of_* calls pass
\* a violable property.  (In incremental mode this fails: finding 1.)
THEOREM SinglePassSound ==
    ASSUME ~Incremental
    PROVE  Spec => []SoundPass
<1>1. SoundInv => SoundPass
  BY DEF SoundInv, SoundPass
<1>2. SoundInv /\ [Next]_vars => SoundInv'
  BY SoundStep
<1>. QED
  BY <1>1, <1>2, SoundInit, PTL DEF Spec

-----------------------------------------------------------------------------
(* Soundness under the bound in single-shot mode.                          *)

\* The inductive invariant behind BoundSound: SoundInv; a counterexample
\* beyond the bound exists only if the loop can run past it, which makes
\* the unwinding assertion violable; and the finished run has decided
\* every property.
BoundInv ==
    /\ SoundInv
    /\ \A p \in Props : deep[p] => uaInst = "viol"
    /\ pc = "done" => \A p \in AllProps : status[p] \in Terminal


LEMMA BoundInit == Init => BoundInv
<1> SUFFICES ASSUME Init PROVE BoundInv
  OBVIOUS
<1>1. \A p \in Props : deep[p] => uaInst = "viol"
  BY Zenon DEF Init
<1>. QED
  BY <1>1, SoundInit DEF Init, BoundInv

LEMMA BoundStep ==
    ASSUME ~Incremental, BoundInv, [Next]_vars
    PROVE  BoundInv'
<1>1. SoundInv'
  BY SoundStep DEF BoundInv
<1>2. \A p \in Props : deep'[p] => uaInst' = "viol"
  BY UnwoundGrows DEF BoundInv, SoundInv, progVars
<1>3. pc' = "done" => \A p \in AllProps : status'[p] \in Terminal
  <2>1. CASE Finish
    \* Finish leaves nothing NOT_CHECKED or UNKNOWN.
    BY <2>1, <1>1 DEF Finish, UnknownToPass, NotCheckedToPass, BoundInv, SoundInv,
                      TypeOK, Terminal, Status
  <2>2. CASE ~Finish
    \* No other step reaches "done", and none leaves it.
    BY <2>2 DEF Next, Symex, NothingToSolve, SolveSat, SolveUnsat, SolveError,
                Resume, vars, BoundInv
  <2>. QED
    BY <2>1, <2>2
<1>. QED
  BY <1>1, <1>2, <1>3 DEF BoundInv

\* In single-shot mode with --unwinding-assertions, a run that ends with a
\* property PASS although some execution violates it also reports the
\* unwinding assertion FAIL or ERROR: a PASS is never a bare PASS on a
\* program with a counterexample, whether that lies within the bound or
\* beyond it.  (In incremental mode this fails: finding 1.)
THEOREM SinglePassBoundSound ==
    ASSUME ~Incremental
    PROVE  Spec => []BoundSound
<1>1. BoundInv => BoundSound
  <2> SUFFICES ASSUME BoundInv, pc = "done", UnwindingAssertions,
                      NEW p \in Props, RealCex(p), status[p] = "PASS"
               PROVE  status[UnwindProp] \in {"FAIL", "ERROR"}
    BY DEF BoundSound
  <2>1. unwound = MaxUnwind
    BY DEF BoundInv, SoundInv
  <2>2. ~Violable(p, MaxUnwind)
    BY <2>1 DEF BoundInv, SoundInv, AllProps
  <2>3. uaInst = "viol"
    BY <2>2 DEF RealCex, BoundInv
  <2>4. Violable(UnwindProp, MaxUnwind)
    BY <2>3 DEF Violable, InstAt, UpTo, Depth
  <2>5. status[UnwindProp] # "PASS"
    BY <2>1, <2>4 DEF BoundInv, SoundInv, AllProps
  <2>. QED
    BY <2>5 DEF BoundInv, Terminal, AllProps
<1>2. BoundInv /\ [Next]_vars => BoundInv'
  BY BoundStep
<1>. QED
  BY <1>1, <1>2, BoundInit, PTL DEF Spec


-----------------------------------------------------------------------------
(* Early PASS verdicts of the incremental checker.                         *)

\* Property p had all its conditions constant true in the equation of some
\* unwinding up to j: the constant-true shortcut may have passed it.
Shortcut(p, j) == \E k \in UpTo(j) : InEquation(p, k) /\ ConstantTrue(p, k)

\* What the shortcut could pass stays so when the equation is unwound
\* further.
LEMMA ShortcutGrows ==
    ASSUME NEW p, NEW j \in Depth, NEW k \in Depth, j <= k, Shortcut(p, j)
    PROVE  Shortcut(p, k)
BY DEF Shortcut, UpTo, Depth

\* The inductive invariant behind EarlyPassByShortcut.
EarlyInv == TypeOK /\ EarlyPassByShortcut

LEMMA EarlyInit == Init => EarlyInv
BY TypeInit DEF Init, EarlyInv, EarlyPassByShortcut

LEMMA EarlyStep == EarlyInv /\ [Next]_vars => EarlyInv'
<1> SUFFICES ASSUME EarlyInv, [Next]_vars PROVE EarlyInv'
  OBVIOUS
<1>0. /\ TypeOK'
      /\ UNCHANGED progVars
      /\ unwound <= unwound'
      /\ unwound' \in Depth
  BY TypeStep, UnwoundGrows DEF EarlyInv
<1>a. \A p \in AllProps : \A j : Shortcut(p, j)' <=> Shortcut(p, j)
  \* The program is fixed.
  BY <1>0 DEF Shortcut, InEquation, ConstantTrue, InstAt, UpTo, progVars
<1> SUFFICES ASSUME Incremental, pc' # "done",
                    NEW p \in AllProps, status'[p] = "PASS"
             PROVE  Shortcut(p, unwound')
  BY <1>0, <1>a DEF EarlyInv, EarlyPassByShortcut, Shortcut
<1>b. status[p] = "PASS" /\ pc # "done" => Shortcut(p, unwound')
  \* A PASS the shortcut gave earlier is still one it could give.
  BY <1>0, ShortcutGrows DEF EarlyInv, EarlyPassByShortcut, Shortcut, TypeOK
<1>c. Prepared[p] = "PASS" => status[p] = "PASS"
  BY <1>0, PreparedStatus DEF EarlyInv
<1>1. CASE Symex
  \* The registry update passes p only when the equation built so far,
  \* unwound' deep, has all of p's conditions constant true.
  <2>1. unwound' = unwound /\ status' = UpdateFromEquation(status, unwound)
    BY <1>1 DEF Symex
  <2>2. status[p] = "PASS" \/ (InEquation(p, unwound) /\ ConstantTrue(p, unwound))
    BY <2>1 DEF UpdateFromEquation
  <2>3. unwound \in UpTo(unwound)
    BY DEF EarlyInv, TypeOK, UpTo, Depth
  <2>. QED
    BY <1>1, <1>b, <2>1, <2>2, <2>3 DEF Symex, Shortcut
<1>2. CASE NothingToSolve
  BY <1>2, <1>b DEF NothingToSolve
<1>3. CASE SolveSat
  <2>1. PICK failed \in (SUBSET Violated) \ {{}} :
              status' = SatStatus(Prepared, failed)
    BY <1>3 DEF SolveSat
  <2>. QED
    BY <1>3, <1>b, <1>c, <2>1 DEF SolveSat, SatStatus
<1>4. CASE SolveUnsat
  \* set_pass is false: the goals stay UNKNOWN.
  BY <1>4, <1>b, <1>c DEF SolveUnsat, UnsatStatus, SetPass
<1>5. CASE SolveError
  BY <1>5, <1>b, <1>c DEF SolveError, ErrorStatus
<1>6. CASE Resume
  \* The registry update on the equation one unwinding deeper.
  <2>1. unwound' = unwound + 1 /\ status' = UpdateFromEquation(status, unwound + 1)
    BY <1>6 DEF Resume
  <2>2. status[p] = "PASS"
          \/ (InEquation(p, unwound') /\ ConstantTrue(p, unwound'))
    BY <2>1 DEF UpdateFromEquation
  <2>3. unwound' \in UpTo(unwound')
    BY <1>0 DEF UpTo, Depth
  <2>. QED
    BY <1>6, <1>b, <2>2, <2>3 DEF Resume, Shortcut
<1>7. CASE Finish
  BY <1>7 DEF Finish
<1>8. CASE UNCHANGED vars
  BY <1>8, <1>b DEF vars
<1>. QED
  BY <1>1, <1>2, <1>3, <1>4, <1>5, <1>6, <1>7, <1>8 DEF Next

\* In incremental mode, before the final update_status_of_unknown_properties
\* a property is PASS only if the constant-true shortcut could have passed
\* it on the equation of some unwinding so far: an UNSAT answer, given with
\* set_pass false, never decides a goal on a shallow equation.
THEOREM IncrementalPassOnlyByShortcut == Spec => []EarlyPassByShortcut
<1>1. EarlyInv => EarlyPassByShortcut
  BY DEF EarlyInv
<1>. QED
  BY <1>1, EarlyInit, EarlyStep, PTL DEF Spec

=============================================================================
