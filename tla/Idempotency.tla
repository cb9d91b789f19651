---------------------------- MODULE Idempotency ----------------------------
(***************************************************************************)
(* IdempotencyMiddleware around the write handlers, with its keys in       *)
(* Redis: concurrent requests and retries that carry the same              *)
(* Idempotency-Id, request timeouts, panics, restarts and Redis errors.    *)
(* A wrapped handler is reduced to whether its write has committed and how *)
(* it ends.  Requests that the middleware passes on untouched (GET and     *)
(* DELETE) or refuses for a missing header reach no key and are left out.  *)
(***************************************************************************)
CONSTANTS
    Requests,   \* concurrent write requests
    Keys,       \* method, route and Idempotency-Id: idempotencyStoreKey
    Faults      \* which of "store", "panic" and "restart" can happen

VARIABLES
    held,       \* the keys present in Redis
    call,       \* [Requests -> state of the middleware]
    confirmed   \* history: keys answered with success and not expired since

vars == <<held, call, confirmed>>

Call == [stage : {"reserving", "running", "releasing"}, key : Keys,
         live : BOOLEAN, committed : BOOLEAN]
Free == [stage |-> "free"]

Serving == {r \in Requests : call[r].stage \in {"running", "releasing"}}

Init ==
    /\ held = {}
    /\ call = [r \in Requests |-> Free]
    /\ confirmed = {}

Request(r, k) ==
    /\ call[r] = Free
    /\ call' = [call EXCEPT ![r] = [stage |-> "reserving", key |-> k,
                                    live |-> TRUE, committed |-> FALSE]]
    /\ UNCHANGED <<held, confirmed>>

Answer(r) == call' = [call EXCEPT ![r] = Free]

-----------------------------------------------------------------------------
\* Mutant of Reserve: SET instead of SET NX.
ReserveAlways(r) ==
    /\ call[r].stage = "reserving" /\ call[r].live
    /\ held' = held \cup {call[r].key}
    /\ call' = [call EXCEPT ![r].stage = "running"]
    /\ UNCHANGED confirmed

\* SET NX records the key in one step when it is absent.
Reserve(r) ==
    /\ call[r].stage = "reserving" /\ call[r].live
    /\ call[r].key \notin held
    /\ held' = held \cup {call[r].key}
    /\ call' = [call EXCEPT ![r].stage = "running"]
    /\ UNCHANGED confirmed

\* 409 idempotency_id_reused: the key is there.
RejectReused(r) ==
    /\ call[r].stage = "reserving" /\ call[r].live
    /\ call[r].key \in held
    /\ Answer(r)
    /\ UNCHANGED <<held, confirmed>>

\* Reserve returns an error.  Without a live context the command is not sent;
\* a Redis failure leaves open whether SET NX took effect.
ReserveFails(r) ==
    /\ call[r].stage = "reserving"
    /\ \/ ~ call[r].live /\ UNCHANGED held
       \/ "store" \in Faults /\ held' \in {held, held \cup {call[r].key}}
    /\ Answer(r)
    /\ UNCHANGED confirmed

\* The context of the request ends: ten seconds have passed, or the client
\* has gone.
Timeout(r) ==
    /\ call[r] # Free /\ call[r].live
    /\ call' = [call EXCEPT ![r].live = FALSE]
    /\ UNCHANGED <<held, confirmed>>

-----------------------------------------------------------------------------
(* The wrapped handler *)

\* The write transaction commits.
Commit(r) ==
    /\ call[r].stage = "running" /\ call[r].live /\ ~ call[r].committed
    /\ call' = [call EXCEPT ![r].committed = TRUE]
    /\ UNCHANGED <<held, confirmed>>

\* Mutant of Succeed: only 200 counts as success, 201 and 204 release the key.
SucceedOnlyOK(r) ==
    /\ call[r].stage = "running" /\ call[r].committed
    /\ held' \in {held, held \ {call[r].key}}
    /\ confirmed' = confirmed \cup {call[r].key}
    /\ Answer(r)

\* A status from 200 to 299: the key stays.
Succeed(r) ==
    /\ call[r].stage = "running" /\ call[r].committed
    /\ confirmed' = confirmed \cup {call[r].key}
    /\ Answer(r)
    /\ UNCHANGED held

\* An error or any other status.  The write may have committed all the same:
\* a COMMIT whose acknowledgement is lost is reported as an error.
Fail(r) ==
    /\ call[r].stage = "running"
    /\ call' = [call EXCEPT ![r].stage = "releasing"]
    /\ UNCHANGED <<held, confirmed>>

\* DEL of the key, with the context of the request.
Release(r) ==
    /\ call[r].stage = "releasing" /\ call[r].live
    /\ held' = held \ {call[r].key}
    /\ Answer(r)
    /\ UNCHANGED confirmed

\* Release returns an error: always without a live context, and whether or
\* not DEL took effect when Redis fails.
ReleaseFails(r) ==
    /\ call[r].stage = "releasing"
    /\ \/ ~ call[r].live /\ UNCHANGED held
       \/ "store" \in Faults /\ held' \in {held, held \ {call[r].key}}
    /\ Answer(r)
    /\ UNCHANGED confirmed

\* Recover is installed outside of the middleware: a panic leaves through
\* next(c) and skips the release.
Panic(r) ==
    /\ "panic" \in Faults
    /\ call[r].stage = "running"
    /\ Answer(r)
    /\ UNCHANGED <<held, confirmed>>

\* The process ends and starts again; Redis keeps its keys.
Restart ==
    /\ "restart" \in Faults
    /\ call' = [r \in Requests |-> Free]
    /\ UNCHANGED <<held, confirmed>>

\* The key's 24 hours are over.  No request lives that long: its context
\* ends after ten seconds.
Expire(k) ==
    /\ k \in held
    /\ \A r \in Serving : call[r].key # k
    /\ held' = held \ {k}
    /\ confirmed' = confirmed \ {k}
    /\ UNCHANGED call

Next ==
    \/ \E r \in Requests :
         \/ \E k \in Keys : Request(r, k)
         \/ Reserve(r) \/ RejectReused(r) \/ ReserveFails(r) \/ Timeout(r)
         \/ Commit(r) \/ Succeed(r) \/ Fail(r)
         \/ Release(r) \/ ReleaseFails(r) \/ Panic(r)
    \/ Restart
    \/ \E k \in Keys : Expire(k)

Spec == Init /\ [][Next]_vars

-----------------------------------------------------------------------------
\* Type correctness of the store and of the requests.
TypeOK ==
    /\ held \subseteq Keys /\ confirmed \subseteq Keys
    /\ call \in [Requests -> Call \cup {Free}]

\* Two requests with the same key are never inside their handlers at the
\* same time, whatever fails, is retried or expires around them.
NoConcurrentReplay ==
    \A r, s \in Serving : r # s => call[r].key # call[s].key

\* Once a key was answered with success, no later request with it reaches its
\* handler until the key expires.
ConfirmedOnce == \A r \in Serving : call[r].key \notin confirmed

\* What the proofs need besides: the key of a request in its handler is in
\* Redis, and so is every key answered with success that has not expired.
KeysPresent ==
    /\ \A r \in Serving : call[r].key \in held
    /\ confirmed \subseteq held

\* The inductive invariant of the middleware.
Protected == TypeOK /\ KeysPresent /\ NoConcurrentReplay /\ ConfirmedOnce

\* "A key is retained only after a successful response": a key without a
\* request at work on it was answered with success.
RetainedAfterSuccess ==
    \A k \in held : k \in confirmed \/ \E r \in Serving : call[r].key = k
=============================================================================
