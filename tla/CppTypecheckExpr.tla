--------------------------- MODULE CppTypecheckExpr ---------------------------
(***************************************************************************)
(* cpp_typecheck(expr, message_handler, ns) (cpp_typecheck.cpp): typecheck *)
(* one expression and report failure by comparing the message handler's   *)
(* count of error messages before and after.  typecheck_expr is abstracted *)
(* to what the count depends on: it may log error messages and carry on,  *)
(* and it ends by returning or by throwing one of the four exception types *)
(* the wrapper catches.  A message is counted when it is ended with eom.   *)
(***************************************************************************)
EXTENDS Naturals

CONSTANTS
    MaxErrors,  \* errors one typecheck_expr may log before it ends
    MaxCalls    \* calls of cpp_typecheck(expr) on one message handler

ASSUME ExprAssumption == MaxErrors \in Nat /\ MaxCalls \in Nat \ {0}

\* How typecheck_expr ends.
Outcome == {"none", "return", "int", "char_ptr", "string", "invalid_source"}
Thrown == Outcome \ {"none", "return"}

VARIABLES
    count,      \* message_handler.get_message_count(M_ERROR)
    before,     \* errors_before
    logged,     \* errors typecheck_expr ended with eom (ghost)
    outcome,    \* how typecheck_expr ended
    pc,         \* "typecheck", "handled" or "returned"
    result,     \* the value returned: TRUE means failure
    calls       \* calls made so far

vars == <<count, before, logged, outcome, pc, result, calls>>

\* The first call, on a fresh message handler.
Init ==
    /\ count = 0
    /\ before = 0
    /\ calls = 1
    /\ logged = 0
    /\ outcome = "none"
    /\ pc = "typecheck"
    /\ result = FALSE

\* typecheck_expr reports an error with error() << ... << eom and recovers.
LogError ==
    /\ pc = "typecheck"
    /\ logged < MaxErrors
    /\ count' = count + 1
    /\ logged' = logged + 1
    /\ UNCHANGED <<before, outcome, pc, result, calls>>

\* typecheck_expr returns.
TypecheckReturns ==
    /\ pc = "typecheck"
    /\ outcome' = "return"
    /\ pc' = "handled"
    /\ UNCHANGED <<count, before, logged, result, calls>>

\* catch(int): cpp_typecheck.error() opens an error message that is never
\* ended with eom.
CatchInt ==
    /\ pc = "typecheck"
    /\ outcome' = "int"
    /\ pc' = "handled"
    /\ UNCHANGED <<count, before, logged, result, calls>>

\* Mutant: the text of a thrown string is streamed without eom.
CatchMessageNoEom ==
    /\ pc = "typecheck"
    /\ \E e \in {"char_ptr", "string", "invalid_source"} : outcome' = e
    /\ pc' = "handled"
    /\ UNCHANGED <<count, before, logged, result, calls>>

\* catch(const char *), catch(const std::string &) and
\* catch(const invalid_source_file_exceptiont &): the text or the reason
\* is an error message ended with eom.
CatchMessage ==
    /\ pc = "typecheck"
    /\ \E e \in {"char_ptr", "string", "invalid_source"} : outcome' = e
    /\ count' = count + 1
    /\ pc' = "handled"
    /\ UNCHANGED <<before, logged, result, calls>>

\* The result: whether the error count moved.
ReturnResult ==
    /\ pc = "handled"
    /\ result' = (count # before)
    /\ pc' = "returned"
    /\ UNCHANGED <<count, before, logged, outcome, calls>>

\* Mutant: errors_before is not taken again for the new call.
NextCallStaleBefore ==
    /\ pc = "returned"
    /\ calls < MaxCalls
    /\ logged' = 0
    /\ outcome' = "none"
    /\ pc' = "typecheck"
    /\ result' = FALSE
    /\ calls' = calls + 1
    /\ UNCHANGED <<count, before>>

\* The caller typechecks another expression with the same handler, which
\* still counts the errors of the earlier calls.
NextCall ==
    /\ pc = "returned"
    /\ calls < MaxCalls
    /\ before' = count
    /\ logged' = 0
    /\ outcome' = "none"
    /\ pc' = "typecheck"
    /\ result' = FALSE
    /\ calls' = calls + 1
    /\ UNCHANGED count

Next ==
    \/ LogError
    \/ TypecheckReturns
    \/ CatchInt
    \/ CatchMessage
    \/ ReturnResult
    \/ NextCall

Spec == Init /\ [][Next]_vars

-----------------------------------------------------------------------------

TypeOK ==
    /\ count \in Nat /\ before \in Nat /\ logged \in 0 .. MaxErrors
    /\ outcome \in Outcome
    /\ pc \in {"typecheck", "handled", "returned"}
    /\ result \in BOOLEAN
    /\ calls \in 1 .. MaxCalls

\* Every error typecheck_expr reports, and every exception carrying a
\* message, makes cpp_typecheck(expr) return failure; and a call in which
\* neither happened returns success, whatever errors earlier calls left in
\* the shared handler's count.
MessagesReported ==
    pc = "returned" =>
        (result = (logged > 0 \/ outcome \in {"char_ptr", "string", "invalid_source"}))

\* Every exception out of typecheck_expr is an unrecoverable translation
\* failure and reaches the caller as failure: cpp_typecheck(expr) never
\* returns success after typecheck_expr threw.
ThrowReported ==
    (pc = "returned" /\ outcome \in Thrown) => result

=============================================================================
