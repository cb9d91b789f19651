------------------------------ MODULE Contract ------------------------------
(***************************************************************************)
(* A call of the HTTP interface on its way through the layers: the         *)
(* idempotency middleware, requireIdentity, the generated binding of       *)
(* parameters and body, the handler, its service and the error handler.    *)
(* Each layer lets the call pass or answers it; what the layers decide on  *)
(* (headers, tokens, bodies, rows) is left to chance.                      *)
(***************************************************************************)
EXTENDS SchedulerAPI, AuthAPI

VARIABLE call       \* the call under way or answered

Operations == DOMAIN SchedulerOperations \cup DOMAIN AuthOperations
Operation(name) ==
    IF name \in DOMAIN AuthOperations THEN AuthOperations[name]
                                      ELSE SchedulerOperations[name]

Layer == {"idempotency", "identity", "parameters", "body", "handler"}
NoCall == [at |-> "none"]
Call == [at : Layer, name : Operations]
          \cup [at : {"answered"}, name : Operations, by : Layer \cup {"service", "recover"},
                status : {200, 201, 204} \cup Reported, reported : Reported \cup {0}]

At(layer) == call.at = layer
Pass(layer) == call' = [call EXCEPT !.at = layer]

\* The answer, and what the service had reported to the handler (0: nothing).
Respond(by, status, reported) ==
    call' = [at |-> "answered", name |-> call.name, by |-> by, status |-> status,
             reported |-> reported]

Receive(name) ==
    /\ call = NoCall
    /\ call' = [at |-> "idempotency", name |-> name]

\* IdempotencyMiddleware: 400 without a usable key, 409 for a key in use, 500
\* without Redis.
CheckIdempotency ==
    /\ At("idempotency")
    /\ \/ Pass("identity")
       \/ /\ call.name \notin SchedulerExempt
          /\ \E status \in {400, 409, 500} : Respond("idempotency", status, 0)

\* requireIdentity, where the operation's route has it.
RequireIdentity ==
    /\ At("identity")
    /\ \/ Pass("parameters")
       \/ call.name \notin AuthPublic /\ Respond("identity", 401, 0)

\* The generated wrapper: 400 for a parameter of the wrong form.
BindParameters ==
    /\ At("parameters")
    /\ \/ Pass("body")
       \/ "parameters" \in Operation(call.name).binds /\ Respond("parameters", 400, 0)

\* echo.BindBody: 400 for a body that cannot be decoded; an unsupported media
\* type is an error the error handler does not know, answered with 500.
BindBody ==
    /\ At("body")
    /\ \/ Pass("handler")
       \/ /\ "body" \in Operation(call.name).binds
          /\ \E status \in {400, 500} : Respond("body", status, 0)

Succeed ==
    /\ At("handler")
    /\ call.name \notin SchedulerBroken
    /\ Respond("handler", Operation(call.name).success, 0)

\* The handler refuses before it asks the service.
Refuse ==
    /\ At("handler")
    /\ \E status \in Operation(call.name).checks : Respond("handler", status, 0)

\* The service fails and the handler translates.
Fail ==
    /\ At("handler")
    /\ \E code \in Operation(call.name).errors \cup {500} :
         Respond("service", Operation(call.name).answers[code], code)

\* A panic below the Recover middleware.
Panic ==
    /\ At("handler")
    /\ Respond("recover", EchoErrorHandler(500), 0)

ContractNext ==
    \/ \E name \in Operations : Receive(name)
    \/ CheckIdempotency \/ RequireIdentity \/ BindParameters \/ BindBody
    \/ Succeed \/ Refuse \/ Fail \/ Panic

-----------------------------------------------------------------------------
ContractTypeOK == call \in Call \cup {NoCall}

Answered == call.at = "answered"

\* What the service reports reaches the caller: an error the operation has a
\* response for is answered with it and is not hidden behind another one, and
\* a refused input is never answered as a success.
ErrorsKept ==
    (Answered /\ call.by = "service") =>
        /\ call.status \in Reported
        /\ call.reported \in Operation(call.name).responses
             => call.status = call.reported

\* The inductive invariant: the call is well formed and what a service has
\* reported is kept.
ContractInv == ContractTypeOK /\ ErrorsKept
=============================================================================
