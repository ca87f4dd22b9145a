-------------------------- MODULE PropertyRegistry --------------------------
(***************************************************************************)
(* What the property registry promises, whatever drives it: a map from     *)
(* property identifier to a status.  A property starts NOT_CHECKED; while  *)
(* it is open (NOT_CHECKED or UNKNOWN) it may be included in an equation   *)
(* (UNKNOWN) or decided; PASS, FAIL and ERROR are terminal; and FAIL is    *)
(* given only to a property that some execution within the unwinding      *)
(* bound violates.  Several properties may move in one step, as one        *)
(* solver answer or one registry update moves all the properties it        *)
(* concerns.                                                                *)
(*                                                                         *)
(* cex is the set of properties that have a counterexample within the      *)
(* bound; it is fixed by the program and never changes.                   *)
(***************************************************************************)

CONSTANT Properties

VARIABLES
    verdict,    \* [Properties -> status]
    cex         \* the properties some execution within the bound violates

vars == <<verdict, cex>>

Status == {"NOT_CHECKED", "UNKNOWN", "PASS", "FAIL", "ERROR"}
Decided == {"PASS", "FAIL", "ERROR"}

Init ==
    /\ verdict = [p \in Properties |-> "NOT_CHECKED"]
    /\ cex \in SUBSET Properties

\* The statuses property p may have after the next step: a decided
\* property keeps its verdict; an open one stays, becomes UNKNOWN, PASS or
\* ERROR, or FAILs if it has a counterexample.
Allowed(p) ==
    IF verdict[p] \in Decided THEN {verdict[p]}
    ELSE {verdict[p], "UNKNOWN", "PASS", "ERROR"}
         \cup (IF p \in cex THEN {"FAIL"} ELSE {})

\* One update of the registry.
Advance ==
    /\ verdict' \in [Properties -> Status]
    /\ \A p \in Properties : verdict'[p] \in Allowed(p)
    /\ UNCHANGED cex

Next == Advance

Spec == Init /\ [][Next]_vars

=============================================================================
