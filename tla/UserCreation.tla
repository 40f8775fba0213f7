---------------------------- MODULE UserCreation ----------------------------
(***************************************************************************)
(* POST /users: the handler create_user (app/api/v1/users.py) run by       *)
(* idempotent_post (app/middleware/idempotency.py) inside the session of   *)
(* get_db (app/db.py).  Two stores are involved and no transaction spans   *)
(* them: the Idempotency-Key entry in Redis, and the row of the user in    *)
(* Postgres, whose unique index on the email makes a second INSERT wait    *)
(* for the first one's transaction.  The 201 is cached and sent before the *)
(* commit, and the commit is what inserts the audit entry.                 *)
(***************************************************************************)
EXTENDS FiniteSets

CONSTANTS Req,     \* POST /users requests, retries included
          Keys,    \* Idempotency-Key headers
          NoKey,   \* the header is missing
          Emails,  \* emails of the users to create
          None     \* nobody

ASSUME NoKeyAssumption == NoKey \notin Keys
ASSUME NoneAssumption == None \notin Req

VARIABLES cache,    \* Redis: the entry of each key
          table,    \* table users, committed: the request that made the row
          claim,    \* the open transaction that inserted the email
          pc,       \* how far each request is
          key,      \* its Idempotency-Key
          email,    \* the email of its body
          answer,   \* the request whose 201 it got
          expired   \* history: keys whose entry outlived its TTL

vars == <<cache, table, claim, pc, key, email, answer, expired>>

\* Redis entry values besides the cached 201 of a request; no request has
\* these names.
Absent == "absent"
InProgress == "__IN_PROGRESS__"

ASSUME ReqAssumption == {Absent, InProgress} \cap Req = {}

InHandler == {"handler", "inserted", "erring"}  \* awaiting handler() or after
Ended == {"refused", "busy", "replayed", "failed", "done", "dropped", "gone"}
InFlight == InHandler \cup {"keyed", "lost", "rollback", "stored", "answered"}

Init == /\ cache = [k \in Keys |-> Absent]
        /\ table = [e \in Emails |-> None]
        /\ claim = [e \in Emails |-> None]
        /\ pc = [r \in Req |-> "new"]
        /\ key = [r \in Req |-> NoKey]
        /\ email \in [Req -> Emails]
        /\ answer = [r \in Req |-> None]
        /\ expired = {}

Goto(r, label) == pc' = [pc EXCEPT ![r] = label]

-----------------------------------------------------------------------------
(* idempotent_post, up to the handler.                                     *)

\* The header is read: none, a usable one, or one refused with a 400.
Receive(r) ==
  /\ pc[r] = "new"
  /\ \/ Goto(r, "handler") /\ UNCHANGED key
     \/ \E k \in Keys : key' = [key EXCEPT ![r] = k] /\ Goto(r, "keyed")
     \/ Goto(r, "refused") /\ UNCHANGED key
  /\ UNCHANGED <<cache, table, claim, email, answer, expired>>

\* Mutant of Acquire: SET without NX.
AcquireAlways(r) ==
  /\ pc[r] = "keyed"
  /\ cache' = [cache EXCEPT ![key[r]] = InProgress]
  /\ Goto(r, "handler")
  /\ UNCHANGED <<table, claim, key, email, answer, expired>>

\* SET key __IN_PROGRESS__ NX EX ttl.
Acquire(r) ==
  /\ pc[r] = "keyed"
  /\ IF cache[key[r]] = Absent
       THEN cache' = [cache EXCEPT ![key[r]] = InProgress] /\ Goto(r, "handler")
       ELSE UNCHANGED cache /\ Goto(r, "lost")
  /\ UNCHANGED <<table, claim, key, email, answer, expired>>

\* Redis fails the SET, before or after it took effect, and the client raises.
\* It sends a call once: redis_client.py gives it no retry policy.
AcquireFails(r) ==
  /\ pc[r] = "keyed"
  /\ \/ UNCHANGED cache
     \/ /\ cache[key[r]] = Absent
        /\ cache' = [cache EXCEPT ![key[r]] = InProgress]
  /\ Goto(r, "failed")
  /\ UNCHANGED <<table, claim, key, email, answer, expired>>

\* GET key, after losing the SET: 409 in progress, the cached response, or,
\* if the entry is gone by now, json.loads(None), which raises.
Lookup(r) ==
  /\ pc[r] = "lost"
  /\ \/ cache[key[r]] = InProgress /\ Goto(r, "busy") /\ UNCHANGED answer
     \/ /\ cache[key[r]] \in Req
        /\ Goto(r, "replayed")
        /\ answer' = [answer EXCEPT ![r] = cache[key[r]]]
     \/ cache[key[r]] = Absent /\ Goto(r, "failed") /\ UNCHANGED answer
  /\ UNCHANGED <<cache, table, claim, key, email, expired>>

-----------------------------------------------------------------------------
(* The handler, and what idempotent_post does with its outcome.            *)

\* Mutant of Insert: the unique violation goes unnoticed.
InsertAnyway(r) ==
  /\ pc[r] = "handler"
  /\ claim[email[r]] = None
  /\ claim' = [claim EXCEPT ![email[r]] = r]
  /\ Goto(r, "inserted")
  /\ UNCHANGED <<cache, table, key, email, answer, expired>>

\* The flush of the INSERT: it waits while another transaction has the email
\* (claim), and raises a ConflictError if a committed row has it.
Insert(r) ==
  /\ pc[r] = "handler"
  /\ claim[email[r]] = None
  /\ IF table[email[r]] = None
       THEN claim' = [claim EXCEPT ![email[r]] = r] /\ Goto(r, "inserted")
       ELSE UNCHANGED claim /\ Goto(r, "erring")
  /\ UNCHANGED <<cache, table, key, email, answer, expired>>

\* Mutant of Store: the entry is dropped on success as on failure.
StoreNothing(r) ==
  /\ pc[r] = "inserted"
  /\ cache' = [k \in Keys |-> IF k = key[r] THEN Absent ELSE cache[k]]
  /\ Goto(r, "stored")
  /\ UNCHANGED <<table, claim, key, email, answer, expired>>

\* SETEX key ttl response; without a key there is nothing to store.
Store(r) ==
  /\ pc[r] = "inserted"
  /\ cache' = [k \in Keys |-> IF k = key[r] THEN r ELSE cache[k]]
  /\ Goto(r, "stored")
  /\ UNCHANGED <<table, claim, key, email, answer, expired>>

\* Mutant of Unset: the wrong value is written to free the key.
UnsetToNone(r) ==
  /\ pc[r] = "erring"
  /\ cache' = [k \in Keys |-> IF k = key[r] THEN None ELSE cache[k]]
  /\ Goto(r, "rollback")
  /\ UNCHANGED <<table, claim, key, email, answer, expired>>

\* except Exception: DEL key, and raise.
Unset(r) ==
  /\ pc[r] = "erring"
  /\ cache' = [k \in Keys |-> IF k = key[r] THEN Absent ELSE cache[k]]
  /\ Goto(r, "rollback")
  /\ UNCHANGED <<table, claim, key, email, answer, expired>>

\* The database fails the INSERT, or Redis the SETEX, before or after it took
\* effect: the except clause runs.  Redis fails the DEL: the exception leaves
\* the except clause.
HandlerFails(r) ==
  /\ \/ pc[r] \in {"handler", "inserted"} /\ UNCHANGED cache /\ Goto(r, "erring")
     \/ /\ pc[r] = "inserted"
        /\ key[r] # NoKey
        /\ cache' = [cache EXCEPT ![key[r]] = r]
        /\ Goto(r, "erring")
     \/ pc[r] = "erring" /\ UNCHANGED cache /\ Goto(r, "rollback")
  /\ UNCHANGED <<table, claim, key, email, answer, expired>>

-----------------------------------------------------------------------------
(* get_db.                                                                 *)

\* Mutant of Released: the session is never closed.
ReleasedNever(r) == claim

\* The claims once the transaction of r is over.
Released(r) == [e \in Emails |-> IF claim[e] = r THEN None ELSE claim[e]]

\* except Exception: rollback, then the error answer (409 or 500).
Rollback(r) ==
  /\ pc[r] = "rollback"
  /\ claim' = Released(r)
  /\ Goto(r, "failed")
  /\ UNCHANGED <<cache, table, key, email, answer, expired>>

\* The 201 is sent.
Respond(r) ==
  /\ pc[r] = "stored"
  /\ Goto(r, "answered")
  /\ answer' = [answer EXCEPT ![r] = r]
  /\ UNCHANGED <<cache, table, claim, key, email, expired>>

\* After the 201: the INSERT of the audit entry and the COMMIT.
Commit(r) ==
  /\ pc[r] = "answered"
  /\ table' = [table EXCEPT ![email[r]] = r]
  /\ claim' = Released(r)
  /\ Goto(r, "done")
  /\ UNCHANGED <<cache, key, email, answer, expired>>

\* One of them fails: everything is rolled back.
CommitFails(r) ==
  /\ pc[r] = "answered"
  /\ claim' = Released(r)
  /\ Goto(r, "dropped")
  /\ UNCHANGED <<cache, table, key, email, answer, expired>>

\* The worker dies, or the task is cancelled: CancelledError is no Exception
\* and no except clause sees it; the database rolls back on its own.
Abort(r) ==
  /\ pc[r] \in InFlight
  /\ claim' = Released(r)
  /\ Goto(r, "gone")
  /\ UNCHANGED <<cache, table, key, email, answer, expired>>

\* Mutant of Expire: the sentinel was set without EX.
ExpireAnswers(k) ==
  /\ cache[k] \in Req
  /\ \A r \in Req : key[r] = k => pc[r] \notin InHandler \cup {"stored", "answered"}
  /\ cache' = [cache EXCEPT ![k] = Absent]
  /\ expired' = expired \cup {k}
  /\ UNCHANGED <<table, claim, pc, key, email, answer>>

\* The TTL of an entry, 24 hours, is over.  No request runs for 24 hours.
Expire(k) ==
  /\ cache[k] # Absent
  /\ \A r \in Req : key[r] = k => pc[r] \notin InHandler \cup {"stored", "answered"}
  /\ cache' = [cache EXCEPT ![k] = Absent]
  /\ expired' = expired \cup {k}
  /\ UNCHANGED <<table, claim, pc, key, email, answer>>

Step(r) == \/ Acquire(r) \/ Lookup(r) \/ Insert(r) \/ Store(r) \/ Unset(r)
           \/ Rollback(r) \/ Respond(r) \/ Commit(r)

Fail(r) == AcquireFails(r) \/ HandlerFails(r) \/ CommitFails(r) \/ Abort(r)

Next == \/ \E r \in Req : Receive(r) \/ Step(r) \/ Fail(r)
        \/ \E k \in Keys : Expire(k)

\* The event loop resumes a request that can go on, and time passes; nothing
\* forces a client or a failure.
Fairness == /\ \A r \in Req : WF_vars(Step(r))
            /\ \A k \in Keys : WF_vars(Expire(k))

Spec == Init /\ [][Next]_vars

FairSpec == Spec /\ Fairness

-----------------------------------------------------------------------------
(* Properties.                                                             *)

\* The variables have their types.
TypeOK ==
  /\ cache \in [Keys -> Req \cup {Absent, InProgress}]
  /\ table \in [Emails -> Req \cup {None}]
  /\ claim \in [Emails -> Req \cup {None}]
  /\ pc \in [Req -> {"new"} \cup InFlight \cup Ended]
  /\ key \in [Req -> Keys \cup {NoKey}]
  /\ email \in [Req -> Emails]
  /\ answer \in [Req -> Req \cup {None}]
  /\ expired \subseteq Keys

\* The handler runs for one request at a time per key, though SET, SETEX and
\* DEL are separate calls, the last two unconditional, and any may fail.
OneHandlerPerKey ==
  \A r, q \in Req :
    (pc[r] \in InHandler /\ pc[q] \in InHandler /\ key[r] = key[q])
      => (r = q \/ key[r] = NoKey)

\* The handler succeeds for one request per key, until the entry expires:
\* whatever was retried, failed or crashed, all other requests with the key
\* get its 201 replayed or an error, and no second user is made.  (What was
\* replayed may have been rolled back: see CachedUserExists.)
OneSuccessPerKey ==
  \A r, q \in Req :
    (key[r] = key[q] /\ key[r] \in Keys \ expired
       /\ answer[r] = r /\ answer[q] = q) => r = q

\* A row that replaces another one would be an email registered twice.
RowsStay ==
  [][\A e \in Emails : table[e] # None => table'[e] = table[e]]_vars

\* A request that was received is answered or gives up, and never waits for
\* ever for another one's email.
EveryRequestEnds == \A r \in Req : pc[r] \in InFlight ~> pc[r] \in Ended

\* A key is not in progress for ever, though its owner may die.
SentinelClears ==
  \A k \in Keys : cache[k] = InProgress ~> cache[k] # InProgress

(* What the documentation says and the code does not do.                   *)

\* idempotency.py:87: after an error the entry is cleared so that a retry can
\* proceed: an entry with a 201 is of a user who exists or is being created.
CachedUserExists ==
  \A k \in Keys : cache[k] \in Req =>
    \/ pc[cache[k]] \in InFlight
    \/ table[email[cache[k]]] = cache[k]

\* idempotency.py:22-26: a key that was seen gets the cached response or the
\* 409, so the request that lost the SET gets one of the two.
LoserGetsAnswer ==
  [][\A r \in Req : pc[r] = "lost" => pc'[r] # "failed"]_vars

\* idempotency.py:26 and 64: the 409 says that a request with the same key is
\* currently being processed.
BusyMeansRunning ==
  [][\A r \in Req : pc[r] = "lost" /\ pc'[r] = "busy" =>
       \E q \in Req \ {r} : key[q] = key[r] /\ pc[q] \in InFlight]_vars

\* DECISIONS.md:146 (D018): an audit failure is a failure the user sees: who
\* got the 201 does not have the change rolled back by the audit INSERT.
AuditFailuresSeen ==
  [][\A r \in Req : pc[r] = "answered" => pc'[r] # "dropped"]_vars
=============================================================================
