------------------------------ MODULE Answers ------------------------------
(* HTTP statuses, and how handlers turn errors into them.                   *)
EXTENDS Integers

ClientError == {400, 401, 403, 404, 409, 422}

\* What the layers below a handler report; 500 is any error that is not
\* structured, a failing store among them.
Reported == ClientError \cup {500}

\* common.EchoErrorHandler: a structured error keeps its code.
EchoErrorHandler(code) == code

\* A switch over the codes in cases; every other error gets the default.
CasesElse(cases, default) ==
    [code \in Reported |-> IF code \in cases THEN code ELSE default]

Cases(cases) == CasesElse(cases, 500)

\* The same, leaving every other error to the error handler.
CasesOrError(cases) ==
    [code \in Reported |-> IF code \in cases THEN code ELSE EchoErrorHandler(code)]

\* An operation: the parts of the request that are bound, the status of a
\* success, the errors the handler finds itself, the errors its service
\* reports, the answers to them and the responses the interface declares.
Handler(binds, success, checks, errors, answers, responses) ==
    [binds |-> binds, success |-> success, checks |-> checks, errors |-> errors,
     answers |-> answers, responses |-> responses]
=============================================================================
