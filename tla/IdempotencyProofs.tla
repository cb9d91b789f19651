------------------------- MODULE IdempotencyProofs -------------------------
(***************************************************************************)
(* The middleware keeps requests with one key apart, for every set of      *)
(* requests, keys and faults.                                              *)
(***************************************************************************)
EXTENDS Idempotency, TLAPS

\* Before the first request nothing is held.
LEMMA ProtectedInit == Init => Protected
BY DEF Init, Protected, TypeOK, KeysPresent, NoConcurrentReplay, ConfirmedOnce,
       Serving, Free

\* Every step of the middleware, of a handler and of Redis preserves Protected.
\* The store's SET NX keeps a new request away from a held key; only the one
\* request that serves a key deletes it, so a confirmed key stays.
LEMMA ProtectedStep == Protected /\ [Next]_vars => Protected'
<1> SUFFICES ASSUME Protected, [Next]_vars PROVE Protected'
    OBVIOUS
<1> USE DEF Protected, TypeOK, KeysPresent, NoConcurrentReplay, ConfirmedOnce,
            Serving, Call, Free
<1>1. ASSUME NEW r \in Requests, NEW k \in Keys, Request(r, k)
      PROVE  Protected'
  BY <1>1 DEF Request
<1>2. ASSUME NEW r \in Requests, Reserve(r) PROVE Protected'
  BY <1>2 DEF Reserve
<1>3. ASSUME NEW r \in Requests, RejectReused(r) PROVE Protected'
  BY <1>3 DEF RejectReused, Answer
<1>4. ASSUME NEW r \in Requests, ReserveFails(r) PROVE Protected'
  BY <1>4 DEF ReserveFails, Answer
<1>5. ASSUME NEW r \in Requests, Timeout(r) PROVE Protected'
  BY <1>5 DEF Timeout
<1>6. ASSUME NEW r \in Requests, Commit(r) PROVE Protected'
  <2>1. call[r] \in Call
    BY <1>6 DEF Commit
  <2>2. [call[r] EXCEPT !.committed = TRUE] \in Call
    BY <2>1, Zenon
  <2>3. call' = [call EXCEPT ![r] = [call[r] EXCEPT !.committed = TRUE]]
    BY <1>6 DEF Commit
  <2>4. TypeOK'
    BY <1>6, <2>2, <2>3 DEF Commit
  <2>5. \A s \in Requests : /\ call'[s].stage = call[s].stage
                            /\ call'[s].key = call[s].key
    BY <2>1, <2>3
  <2> QED
    BY <1>6, <2>4, <2>5 DEF Commit
<1>7. ASSUME NEW r \in Requests, Succeed(r) PROVE Protected'
  BY <1>7 DEF Succeed, Answer
<1>8. ASSUME NEW r \in Requests, Fail(r) PROVE Protected'
  BY <1>8 DEF Fail
<1>9. ASSUME NEW r \in Requests, Release(r) PROVE Protected'
  BY <1>9 DEF Release, Answer
<1>10. ASSUME NEW r \in Requests, ReleaseFails(r) PROVE Protected'
  BY <1>10 DEF ReleaseFails, Answer
<1>11. ASSUME NEW r \in Requests, Panic(r) PROVE Protected'
  BY <1>11 DEF Panic, Answer
<1>12. ASSUME Restart PROVE Protected'
  BY <1>12 DEF Restart
<1>13. ASSUME NEW k \in Keys, Expire(k) PROVE Protected'
  BY <1>13 DEF Expire
<1>14. ASSUME UNCHANGED vars PROVE Protected'
  BY <1>14 DEF vars
<1> QED
  BY <1>1, <1>2, <1>3, <1>4, <1>5, <1>6, <1>7, <1>8, <1>9, <1>10, <1>11,
     <1>12, <1>13, <1>14 DEF Next

\* The inductive invariant holds in every state of every behaviour.
THEOREM KeysProtected == Spec => []Protected
<1>1. Init => Protected
  BY ProtectedInit
<1>2. Protected /\ [Next]_vars => Protected'
  BY ProtectedStep
<1> QED
  BY <1>1, <1>2, PTL DEF Spec

\* At most one request per key is inside its handler (Reserve is SET NX and
\* only the holder releases).
THEOREM ReplaysApart == Spec => []NoConcurrentReplay
<1>1. Protected => NoConcurrentReplay
  BY DEF Protected
<1> QED
  BY <1>1, KeysProtected, PTL

\* No handler runs again for a key whose success was answered, until the key
\* expires (the middleware releases a key only after a failure).
THEOREM ConfirmedKeysFinal == Spec => []ConfirmedOnce
<1>1. Protected => ConfirmedOnce
  BY DEF Protected
<1> QED
  BY <1>1, KeysProtected, PTL
=============================================================================
