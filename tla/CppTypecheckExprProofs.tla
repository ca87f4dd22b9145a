----------------------- MODULE CppTypecheckExprProofs -----------------------
(***************************************************************************)
(* Proof that cpp_typecheck(expr) reports failure exactly when the call    *)
(* logged a counted error or caught a message-carrying exception, for      *)
(* every number of errors and of calls on one message handler.             *)
(***************************************************************************)
EXTENDS CppTypecheckExpr, TLAPS

\* The exception outcomes whose handler ends an error message with eom.
MessageOutcome == {"char_ptr", "string", "invalid_source"}

\* The errors the handler counted during the current call.
CallErrors ==
    logged + (IF outcome \in MessageOutcome THEN 1 ELSE 0)

\* The inductive invariant: the handler's count is errors_before plus what
\* the current call added (its eom-ended error messages, and the message
\* of a caught exception); typecheck_expr has not ended while the call is
\* in "typecheck"; the result returned is the comparison of the counts.
ReportInv ==
    /\ TypeOK
    /\ count = before + CallErrors
    /\ pc = "typecheck" => outcome = "none"
    /\ pc # "typecheck" => outcome # "none"
    /\ pc = "returned" => result = (count # before)

LEMMA ReportInit == Init => ReportInv
<1> SUFFICES ASSUME Init PROVE ReportInv
  OBVIOUS
<1>1. result \in BOOLEAN
  BY Zenon DEF Init
<1>. QED
  BY <1>1, ExprAssumption DEF Init, ReportInv, TypeOK, CallErrors, MessageOutcome,
                              Outcome

LEMMA ReportStep == ReportInv /\ [Next]_vars => ReportInv'
<1> SUFFICES ASSUME ReportInv, [Next]_vars PROVE ReportInv'
  OBVIOUS
<1> USE ExprAssumption DEF ReportInv, TypeOK, CallErrors, MessageOutcome, Outcome
<1>1. CASE LogError
  BY <1>1 DEF LogError
<1>2. CASE TypecheckReturns
  BY <1>2 DEF TypecheckReturns
<1>3. CASE CatchInt
  BY <1>3 DEF CatchInt
<1>4. CASE CatchMessage
  \* The handler's text is one more counted error.
  BY <1>4 DEF CatchMessage
<1>5. CASE ReturnResult
  BY <1>5 DEF ReturnResult
<1>6. CASE NextCall
  \* errors_before is taken afresh, and the new call has added nothing.
  <2>1. TypeOK'
    <3>1. result' \in BOOLEAN
      BY <1>6, Zenon DEF NextCall
    <3>. QED
      BY <1>6, <3>1 DEF NextCall
  <2>2. count' = before' + CallErrors'
    BY <1>6 DEF NextCall
  <2>. QED
    BY <1>6, <2>1, <2>2 DEF NextCall
<1>7. CASE UNCHANGED vars
  BY <1>7 DEF vars
<1>. QED
  BY <1>1, <1>2, <1>3, <1>4, <1>5, <1>6, <1>7 DEF Next

\* Whatever errors earlier calls left in the shared handler, a call of
\* cpp_typecheck(expr) returns failure exactly when typecheck_expr ended an
\* error message with eom or threw a char*, a string or an
\* invalid_source_file_exceptiont.
THEOREM FailureReported == Spec => []MessagesReported
<1>1. ReportInv => MessagesReported
  BY DEF ReportInv, TypeOK, CallErrors, MessageOutcome, MessagesReported
<1>. QED
  BY <1>1, ReportInit, ReportStep, PTL DEF Spec

=============================================================================
