------------------------- MODULE UserCreationProofs -------------------------
(***************************************************************************)
(* Theorems about UserCreation.tla, for any sets of requests, keys and     *)
(* emails.                                                                 *)
(***************************************************************************)
EXTENDS UserCreation, TLAPS


-----------------------------------------------------------------------------
(* The inductive invariant.                                                *)

\* A new request has read no header; one that is about to SET or GET has a key.
KeyInv ==
  \A r \in Req : /\ pc[r] = "new" => key[r] = NoKey
                 /\ pc[r] \in {"keyed", "lost"} => key[r] \in Keys

\* While the handler of a keyed request runs, the entry of the key is the
\* sentinel or the request's own 201, whose SETEX was followed by an error.
Owns ==
  \A r \in Req : pc[r] \in InHandler /\ key[r] \in Keys =>
                   cache[key[r]] \in {InProgress, r}

\* The 201 in an entry is of a request that has tried to store it.
Stored ==
  \A r \in Req, k \in Keys :
    cache[k] = r => pc[r] \notin {"new", "keyed", "lost", "handler", "inserted"}

\* A request has its own 201 only once it was sent.
Sent ==
  \A r \in Req : answer[r] = r => pc[r] \in {"answered", "done", "dropped", "gone"}

\* From its SETEX on, the 201 of a successful handler stays in the entry,
\* until the entry expires.
Kept ==
  \A r \in Req :
    /\ key[r] \in Keys
    /\ \/ pc[r] = "stored"
       \/ answer[r] = r /\ key[r] \notin expired
    => cache[key[r]] = r

\* A transaction with an uncommitted row holds its email, and an email that
\* is held has no committed row.
ClaimInv ==
  /\ \A r \in Req : pc[r] \in {"inserted", "stored", "answered"} =>
                      claim[email[r]] = r
  /\ \A e \in Emails : claim[e] # None => table[e] = None

IInv == /\ TypeOK
        /\ KeyInv
        /\ Owns
        /\ OneHandlerPerKey
        /\ Stored
        /\ Sent
        /\ Kept
        /\ ClaimInv

-----------------------------------------------------------------------------
(* Types.                                                                  *)

\* The end of a transaction keeps the type of claim.
LEMMA ReleasedTyped ==
  ASSUME TypeOK, NEW r \in Req
  PROVE  Released(r) \in [Emails -> Req \cup {None}]
  BY DEF TypeOK, Released

\* Every step keeps the types.
LEMMA NextTyped == TypeOK /\ [Next]_vars => TypeOK'
  <1> SUFFICES ASSUME TypeOK, [Next]_vars PROVE TypeOK'
    OBVIOUS
  <1> USE DEF TypeOK, InHandler, InFlight, Ended, Goto
  <1>0. CASE UNCHANGED vars
    BY <1>0 DEF vars
  <1>1. ASSUME NEW r \in Req, Receive(r) PROVE TypeOK'
    BY <1>1 DEF Receive
  <1>2. ASSUME NEW r \in Req, Acquire(r) PROVE TypeOK'
    BY <1>2 DEF Acquire
  <1>3. ASSUME NEW r \in Req, AcquireFails(r) PROVE TypeOK'
    BY <1>3 DEF AcquireFails
  <1>4. ASSUME NEW r \in Req, Lookup(r) PROVE TypeOK'
    BY <1>4 DEF Lookup
  <1>5. ASSUME NEW r \in Req, Insert(r) PROVE TypeOK'
    BY <1>5 DEF Insert
  <1>6. ASSUME NEW r \in Req, Store(r) PROVE TypeOK'
    BY <1>6 DEF Store
  <1>7. ASSUME NEW r \in Req, Unset(r) PROVE TypeOK'
    BY <1>7 DEF Unset
  <1>8. ASSUME NEW r \in Req, HandlerFails(r) PROVE TypeOK'
    BY <1>8 DEF HandlerFails
  <1>9. ASSUME NEW r \in Req, Rollback(r) PROVE TypeOK'
    BY <1>9, ReleasedTyped DEF Rollback
  <1>10. ASSUME NEW r \in Req, Respond(r) PROVE TypeOK'
    BY <1>10 DEF Respond
  <1>11. ASSUME NEW r \in Req, Commit(r) PROVE TypeOK'
    BY <1>11, ReleasedTyped DEF Commit
  <1>12. ASSUME NEW r \in Req, CommitFails(r) PROVE TypeOK'
    BY <1>12, ReleasedTyped DEF CommitFails
  <1>13. ASSUME NEW r \in Req, Abort(r) PROVE TypeOK'
    BY <1>13, ReleasedTyped DEF Abort
  <1>14. ASSUME NEW k \in Keys, Expire(k) PROVE TypeOK'
    BY <1>14 DEF Expire
  <1> QED
    BY <1>0, <1>1, <1>2, <1>3, <1>4, <1>5, <1>6, <1>7, <1>8, <1>9, <1>10,
       <1>11, <1>12, <1>13, <1>14 DEF Next, Step, Fail

\* Every variable of UserCreation.tla keeps its type.
THEOREM TypeCorrect == Spec => []TypeOK
  <1>1. Init => TypeOK
    BY DEF Init, TypeOK
  <1> QED BY <1>1, NextTyped, PTL DEF Spec
-----------------------------------------------------------------------------
(* The conjuncts of the invariant.                                         *)

\* Receive alone changes the key of a request.
LEMMA NextKeyInv == IInv /\ [Next]_vars => KeyInv'
  <1> SUFFICES ASSUME IInv, [Next]_vars PROVE KeyInv'
    OBVIOUS
  <1> USE ReqAssumption, NoKeyAssumption, NoneAssumption
      DEF IInv, TypeOK, InHandler, Goto, KeyInv
  <1>0. CASE UNCHANGED vars
    BY <1>0 DEF vars
  <1>1. ASSUME NEW r \in Req, Receive(r) PROVE KeyInv'
    BY <1>1 DEF Receive
  <1>2. ASSUME NEW r \in Req, Acquire(r) PROVE KeyInv'
    BY <1>2 DEF Acquire
  <1>3. ASSUME NEW r \in Req, AcquireFails(r) PROVE KeyInv'
    BY <1>3 DEF AcquireFails
  <1>4. ASSUME NEW r \in Req, Lookup(r) PROVE KeyInv'
    BY <1>4 DEF Lookup
  <1>5. ASSUME NEW r \in Req, Insert(r) PROVE KeyInv'
    BY <1>5 DEF Insert
  <1>6. ASSUME NEW r \in Req, Store(r) PROVE KeyInv'
    BY <1>6 DEF Store
  <1>7. ASSUME NEW r \in Req, Unset(r) PROVE KeyInv'
    BY <1>7 DEF Unset
  <1>8. ASSUME NEW r \in Req, HandlerFails(r) PROVE KeyInv'
    BY <1>8 DEF HandlerFails
  <1>9. ASSUME NEW r \in Req, Rollback(r) PROVE KeyInv'
    BY <1>9 DEF Rollback, Released
  <1>10. ASSUME NEW r \in Req, Respond(r) PROVE KeyInv'
    BY <1>10 DEF Respond
  <1>11. ASSUME NEW r \in Req, Commit(r) PROVE KeyInv'
    BY <1>11 DEF Commit, Released
  <1>12. ASSUME NEW r \in Req, CommitFails(r) PROVE KeyInv'
    BY <1>12 DEF CommitFails, Released
  <1>13. ASSUME NEW r \in Req, Abort(r) PROVE KeyInv'
    BY <1>13 DEF Abort, Released, InFlight
  <1>14. ASSUME NEW k \in Keys, Expire(k) PROVE KeyInv'
    BY <1>14 DEF Expire
  <1> QED
    BY <1>0, <1>1, <1>2, <1>3, <1>4, <1>5, <1>6, <1>7, <1>8, <1>9, <1>10,
       <1>11, <1>12, <1>13, <1>14 DEF Next, Step, Fail

\* The entry of a running handler changes only by its own hand.
LEMMA NextOwns == IInv /\ [Next]_vars => Owns'
  <1> SUFFICES ASSUME IInv, [Next]_vars PROVE Owns'
    OBVIOUS
  <1> USE ReqAssumption, NoKeyAssumption, NoneAssumption
      DEF IInv, TypeOK, InHandler, Goto, KeyInv, Owns, OneHandlerPerKey
  <1>0. CASE UNCHANGED vars
    BY <1>0 DEF vars
  <1>1. ASSUME NEW r \in Req, Receive(r) PROVE Owns'
    BY <1>1 DEF Receive
  <1>2. ASSUME NEW r \in Req, Acquire(r) PROVE Owns'
    BY <1>2 DEF Acquire
  <1>3. ASSUME NEW r \in Req, AcquireFails(r) PROVE Owns'
    BY <1>3 DEF AcquireFails
  <1>4. ASSUME NEW r \in Req, Lookup(r) PROVE Owns'
    BY <1>4 DEF Lookup
  <1>5. ASSUME NEW r \in Req, Insert(r) PROVE Owns'
    BY <1>5 DEF Insert
  <1>6. ASSUME NEW r \in Req, Store(r) PROVE Owns'
    BY <1>6 DEF Store
  <1>7. ASSUME NEW r \in Req, Unset(r) PROVE Owns'
    BY <1>7 DEF Unset
  <1>8. ASSUME NEW r \in Req, HandlerFails(r) PROVE Owns'
    BY <1>8 DEF HandlerFails
  <1>9. ASSUME NEW r \in Req, Rollback(r) PROVE Owns'
    BY <1>9 DEF Rollback, Released
  <1>10. ASSUME NEW r \in Req, Respond(r) PROVE Owns'
    BY <1>10 DEF Respond
  <1>11. ASSUME NEW r \in Req, Commit(r) PROVE Owns'
    BY <1>11 DEF Commit, Released
  <1>12. ASSUME NEW r \in Req, CommitFails(r) PROVE Owns'
    BY <1>12 DEF CommitFails, Released
  <1>13. ASSUME NEW r \in Req, Abort(r) PROVE Owns'
    BY <1>13 DEF Abort, Released, InFlight
  <1>14. ASSUME NEW k \in Keys, Expire(k) PROVE Owns'
    BY <1>14 DEF Expire
  <1> QED
    BY <1>0, <1>1, <1>2, <1>3, <1>4, <1>5, <1>6, <1>7, <1>8, <1>9, <1>10,
       <1>11, <1>12, <1>13, <1>14 DEF Next, Step, Fail

\* SET NX finds no entry only when no handler of the key runs.
LEMMA NextOneHandler == IInv /\ [Next]_vars => OneHandlerPerKey'
  <1> SUFFICES ASSUME IInv, [Next]_vars PROVE OneHandlerPerKey'
    OBVIOUS
  <1> USE ReqAssumption, NoKeyAssumption, NoneAssumption
      DEF IInv, TypeOK, InHandler, Goto, KeyInv, Owns, OneHandlerPerKey
  <1>0. CASE UNCHANGED vars
    BY <1>0 DEF vars
  <1>1. ASSUME NEW r \in Req, Receive(r) PROVE OneHandlerPerKey'
    BY <1>1 DEF Receive
  <1>2. ASSUME NEW r \in Req, Acquire(r) PROVE OneHandlerPerKey'
    <2>1. ASSUME NEW q \in Req, pc[q] \in InHandler, key[q] \in Keys,
                 pc'[r] \in InHandler, pc[r] \notin InHandler
          PROVE  key[q] # key[r]
      BY <1>2, <2>1 DEF Acquire, Absent, InProgress
    <2> QED BY <1>2, <2>1 DEF Acquire
  <1>3. ASSUME NEW r \in Req, AcquireFails(r) PROVE OneHandlerPerKey'
    BY <1>3 DEF AcquireFails
  <1>4. ASSUME NEW r \in Req, Lookup(r) PROVE OneHandlerPerKey'
    BY <1>4 DEF Lookup
  <1>5. ASSUME NEW r \in Req, Insert(r) PROVE OneHandlerPerKey'
    BY <1>5 DEF Insert
  <1>6. ASSUME NEW r \in Req, Store(r) PROVE OneHandlerPerKey'
    BY <1>6 DEF Store
  <1>7. ASSUME NEW r \in Req, Unset(r) PROVE OneHandlerPerKey'
    BY <1>7 DEF Unset
  <1>8. ASSUME NEW r \in Req, HandlerFails(r) PROVE OneHandlerPerKey'
    BY <1>8 DEF HandlerFails
  <1>9. ASSUME NEW r \in Req, Rollback(r) PROVE OneHandlerPerKey'
    BY <1>9 DEF Rollback, Released
  <1>10. ASSUME NEW r \in Req, Respond(r) PROVE OneHandlerPerKey'
    BY <1>10 DEF Respond
  <1>11. ASSUME NEW r \in Req, Commit(r) PROVE OneHandlerPerKey'
    BY <1>11 DEF Commit, Released
  <1>12. ASSUME NEW r \in Req, CommitFails(r) PROVE OneHandlerPerKey'
    BY <1>12 DEF CommitFails, Released
  <1>13. ASSUME NEW r \in Req, Abort(r) PROVE OneHandlerPerKey'
    BY <1>13 DEF Abort, Released, InFlight
  <1>14. ASSUME NEW k \in Keys, Expire(k) PROVE OneHandlerPerKey'
    BY <1>14 DEF Expire
  <1> QED
    BY <1>0, <1>1, <1>2, <1>3, <1>4, <1>5, <1>6, <1>7, <1>8, <1>9, <1>10,
       <1>11, <1>12, <1>13, <1>14 DEF Next, Step, Fail

\* Nobody stores the 201 of another request.
LEMMA NextStored == IInv /\ [Next]_vars => Stored'
  <1> SUFFICES ASSUME IInv, [Next]_vars PROVE Stored'
    OBVIOUS
  <1> USE ReqAssumption, NoKeyAssumption, NoneAssumption
      DEF IInv, TypeOK, InHandler, Goto, KeyInv, Stored
  <1>0. CASE UNCHANGED vars
    BY <1>0 DEF vars
  <1>1. ASSUME NEW r \in Req, Receive(r) PROVE Stored'
    BY <1>1 DEF Receive
  <1>2. ASSUME NEW r \in Req, Acquire(r) PROVE Stored'
    BY <1>2 DEF Acquire
  <1>3. ASSUME NEW r \in Req, AcquireFails(r) PROVE Stored'
    BY <1>3 DEF AcquireFails
  <1>4. ASSUME NEW r \in Req, Lookup(r) PROVE Stored'
    BY <1>4 DEF Lookup
  <1>5. ASSUME NEW r \in Req, Insert(r) PROVE Stored'
    BY <1>5 DEF Insert
  <1>6. ASSUME NEW r \in Req, Store(r) PROVE Stored'
    BY <1>6 DEF Store
  <1>7. ASSUME NEW r \in Req, Unset(r) PROVE Stored'
    BY <1>7 DEF Unset
  <1>8. ASSUME NEW r \in Req, HandlerFails(r) PROVE Stored'
    BY <1>8 DEF HandlerFails
  <1>9. ASSUME NEW r \in Req, Rollback(r) PROVE Stored'
    BY <1>9 DEF Rollback, Released
  <1>10. ASSUME NEW r \in Req, Respond(r) PROVE Stored'
    BY <1>10 DEF Respond
  <1>11. ASSUME NEW r \in Req, Commit(r) PROVE Stored'
    BY <1>11 DEF Commit, Released
  <1>12. ASSUME NEW r \in Req, CommitFails(r) PROVE Stored'
    BY <1>12 DEF CommitFails, Released
  <1>13. ASSUME NEW r \in Req, Abort(r) PROVE Stored'
    BY <1>13 DEF Abort, Released, InFlight
  <1>14. ASSUME NEW k \in Keys, Expire(k) PROVE Stored'
    BY <1>14 DEF Expire
  <1> QED
    BY <1>0, <1>1, <1>2, <1>3, <1>4, <1>5, <1>6, <1>7, <1>8, <1>9, <1>10,
       <1>11, <1>12, <1>13, <1>14 DEF Next, Step, Fail

\* A replayed 201 is never the own one.
LEMMA NextSent == IInv /\ [Next]_vars => Sent'
  <1> SUFFICES ASSUME IInv, [Next]_vars PROVE Sent'
    OBVIOUS
  <1> USE ReqAssumption, NoKeyAssumption, NoneAssumption
      DEF IInv, TypeOK, InHandler, Goto, KeyInv, Stored, Sent
  <1>0. CASE UNCHANGED vars
    BY <1>0 DEF vars
  <1>1. ASSUME NEW r \in Req, Receive(r) PROVE Sent'
    BY <1>1 DEF Receive
  <1>2. ASSUME NEW r \in Req, Acquire(r) PROVE Sent'
    BY <1>2 DEF Acquire
  <1>3. ASSUME NEW r \in Req, AcquireFails(r) PROVE Sent'
    BY <1>3 DEF AcquireFails
  <1>4. ASSUME NEW r \in Req, Lookup(r) PROVE Sent'
    BY <1>4 DEF Lookup
  <1>5. ASSUME NEW r \in Req, Insert(r) PROVE Sent'
    BY <1>5 DEF Insert
  <1>6. ASSUME NEW r \in Req, Store(r) PROVE Sent'
    BY <1>6 DEF Store
  <1>7. ASSUME NEW r \in Req, Unset(r) PROVE Sent'
    BY <1>7 DEF Unset
  <1>8. ASSUME NEW r \in Req, HandlerFails(r) PROVE Sent'
    BY <1>8 DEF HandlerFails
  <1>9. ASSUME NEW r \in Req, Rollback(r) PROVE Sent'
    BY <1>9 DEF Rollback, Released
  <1>10. ASSUME NEW r \in Req, Respond(r) PROVE Sent'
    BY <1>10 DEF Respond
  <1>11. ASSUME NEW r \in Req, Commit(r) PROVE Sent'
    BY <1>11 DEF Commit, Released
  <1>12. ASSUME NEW r \in Req, CommitFails(r) PROVE Sent'
    BY <1>12 DEF CommitFails, Released
  <1>13. ASSUME NEW r \in Req, Abort(r) PROVE Sent'
    BY <1>13 DEF Abort, Released, InFlight
  <1>14. ASSUME NEW k \in Keys, Expire(k) PROVE Sent'
    BY <1>14 DEF Expire
  <1> QED
    BY <1>0, <1>1, <1>2, <1>3, <1>4, <1>5, <1>6, <1>7, <1>8, <1>9, <1>10,
       <1>11, <1>12, <1>13, <1>14 DEF Next, Step, Fail

\* Nobody overwrites or deletes the 201 of a successful handler.
LEMMA NextKept == IInv /\ [Next]_vars => Kept'
  <1> SUFFICES ASSUME IInv, [Next]_vars PROVE Kept'
    OBVIOUS
  <1> USE ReqAssumption, NoKeyAssumption, NoneAssumption
      DEF IInv, TypeOK, InHandler, Goto, KeyInv, Owns, OneHandlerPerKey, Stored, Sent, Kept
  <1>0. CASE UNCHANGED vars
    BY <1>0 DEF vars
  <1>1. ASSUME NEW r \in Req, Receive(r) PROVE Kept'
    BY <1>1 DEF Receive
  <1>2. ASSUME NEW r \in Req, Acquire(r) PROVE Kept'
    BY <1>2 DEF Acquire
  <1>3. ASSUME NEW r \in Req, AcquireFails(r) PROVE Kept'
    BY <1>3 DEF AcquireFails
  <1>4. ASSUME NEW r \in Req, Lookup(r) PROVE Kept'
    BY <1>4 DEF Lookup
  <1>5. ASSUME NEW r \in Req, Insert(r) PROVE Kept'
    BY <1>5 DEF Insert
  <1>6. ASSUME NEW r \in Req, Store(r) PROVE Kept'
    BY <1>6 DEF Store
  <1>7. ASSUME NEW r \in Req, Unset(r) PROVE Kept'
    BY <1>7 DEF Unset
  <1>8. ASSUME NEW r \in Req, HandlerFails(r) PROVE Kept'
    BY <1>8 DEF HandlerFails
  <1>9. ASSUME NEW r \in Req, Rollback(r) PROVE Kept'
    BY <1>9 DEF Rollback, Released
  <1>10. ASSUME NEW r \in Req, Respond(r) PROVE Kept'
    BY <1>10 DEF Respond
  <1>11. ASSUME NEW r \in Req, Commit(r) PROVE Kept'
    BY <1>11 DEF Commit, Released
  <1>12. ASSUME NEW r \in Req, CommitFails(r) PROVE Kept'
    BY <1>12 DEF CommitFails, Released
  <1>13. ASSUME NEW r \in Req, Abort(r) PROVE Kept'
    BY <1>13 DEF Abort, Released, InFlight
  <1>14. ASSUME NEW k \in Keys, Expire(k) PROVE Kept'
    BY <1>14 DEF Expire
  <1> QED
    BY <1>0, <1>1, <1>2, <1>3, <1>4, <1>5, <1>6, <1>7, <1>8, <1>9, <1>10,
       <1>11, <1>12, <1>13, <1>14 DEF Next, Step, Fail

\* An INSERT takes a free email, and only its holder commits it.
LEMMA NextClaimInv == IInv /\ [Next]_vars => ClaimInv'
  <1> SUFFICES ASSUME IInv, [Next]_vars PROVE ClaimInv'
    OBVIOUS
  <1> USE ReqAssumption, NoKeyAssumption, NoneAssumption
      DEF IInv, TypeOK, InHandler, Goto, ClaimInv
  <1>0. CASE UNCHANGED vars
    BY <1>0 DEF vars
  <1>1. ASSUME NEW r \in Req, Receive(r) PROVE ClaimInv'
    BY <1>1 DEF Receive
  <1>2. ASSUME NEW r \in Req, Acquire(r) PROVE ClaimInv'
    BY <1>2 DEF Acquire
  <1>3. ASSUME NEW r \in Req, AcquireFails(r) PROVE ClaimInv'
    BY <1>3 DEF AcquireFails
  <1>4. ASSUME NEW r \in Req, Lookup(r) PROVE ClaimInv'
    BY <1>4 DEF Lookup
  <1>5. ASSUME NEW r \in Req, Insert(r) PROVE ClaimInv'
    BY <1>5 DEF Insert
  <1>6. ASSUME NEW r \in Req, Store(r) PROVE ClaimInv'
    BY <1>6 DEF Store
  <1>7. ASSUME NEW r \in Req, Unset(r) PROVE ClaimInv'
    BY <1>7 DEF Unset
  <1>8. ASSUME NEW r \in Req, HandlerFails(r) PROVE ClaimInv'
    BY <1>8 DEF HandlerFails
  <1>9. ASSUME NEW r \in Req, Rollback(r) PROVE ClaimInv'
    BY <1>9 DEF Rollback, Released
  <1>10. ASSUME NEW r \in Req, Respond(r) PROVE ClaimInv'
    BY <1>10 DEF Respond
  <1>11. ASSUME NEW r \in Req, Commit(r) PROVE ClaimInv'
    BY <1>11 DEF Commit, Released
  <1>12. ASSUME NEW r \in Req, CommitFails(r) PROVE ClaimInv'
    BY <1>12 DEF CommitFails, Released
  <1>13. ASSUME NEW r \in Req, Abort(r) PROVE ClaimInv'
    BY <1>13 DEF Abort, Released, InFlight
  <1>14. ASSUME NEW k \in Keys, Expire(k) PROVE ClaimInv'
    BY <1>14 DEF Expire
  <1> QED
    BY <1>0, <1>1, <1>2, <1>3, <1>4, <1>5, <1>6, <1>7, <1>8, <1>9, <1>10,
       <1>11, <1>12, <1>13, <1>14 DEF Next, Step, Fail

-----------------------------------------------------------------------------
(* The theorems.                                                           *)

\* The initial states satisfy the invariant.
LEMMA InitInvariant == Init => IInv
  BY ReqAssumption, NoKeyAssumption, NoneAssumption
  DEF Init, IInv, TypeOK, KeyInv, Owns, OneHandlerPerKey, Stored, Sent, Kept,
      ClaimInv, InHandler, Absent, InProgress

\* The invariant holds in every state: what Redis and the database hold fits
\* how far every creation is, whatever fails in between.
THEOREM Invariance == Spec => []IInv
  <1>1. IInv /\ [Next]_vars => IInv'
    BY NextTyped, NextKeyInv, NextOwns, NextOneHandler, NextStored, NextSent,
       NextKept, NextClaimInv DEF IInv
  <1> QED BY <1>1, InitInvariant, PTL DEF Spec

\* No two requests with one Idempotency-Key run the handler at a time, though
\* SET, SETEX and DEL are separate calls that may fail or lose their reply.
THEOREM HandlersExclude == Spec => []OneHandlerPerKey
  BY Invariance, PTL DEF IInv

\* No two requests with one Idempotency-Key are answered with a 201 of their
\* own while the entry lives.
THEOREM SuccessesExclude == Spec => []OneSuccessPerKey
  <1>1. IInv => OneSuccessPerKey
    BY DEF IInv, Kept, OneSuccessPerKey
  <1> QED BY <1>1, Invariance, PTL

\* The commit of a creation never replaces the row of another one.
THEOREM RowsArePermanent == Spec => RowsStay
  <1>1. IInv /\ [Next]_vars =>
          [\A e \in Emails : table[e] # None => table'[e] = table[e]]_vars
    <2> SUFFICES ASSUME IInv, [Next]_vars, NEW e \in Emails, table[e] # None
                 PROVE  table'[e] = table[e]
      OBVIOUS
    <2>1. ASSUME NEW r \in Req, Commit(r) PROVE email[r] # e
      BY <2>1, NoneAssumption DEF Commit, IInv, ClaimInv
    <2>2. CASE UNCHANGED table
      BY <2>2
    <2>3. CASE \E r \in Req : Commit(r)
      BY <2>1, <2>3 DEF Commit, IInv, TypeOK
    <2>4. UNCHANGED table \/ \E r \in Req : Commit(r)
      BY DEF Next, Step, Fail, vars, Receive, Acquire, AcquireFails, Lookup,
             Insert, Store, Unset, HandlerFails, Rollback, Respond,
             CommitFails, Abort, Expire
    <2> QED BY <2>2, <2>3, <2>4
  <1> QED BY <1>1, Invariance, PTL DEF Spec, RowsStay
=============================================================================
