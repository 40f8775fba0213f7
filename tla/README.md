# TLA+ models of AutoDocs AI

AutoDocs AI is a FastAPI service over Postgres and Redis: users with an audit
trail, tokens with a denylist, idempotent creation, and the ingestion of
documents into embedded chunks. These modules model the parts of it where
requests race, stores fail separately, time passes or an algorithm has
boundaries; TLC checks them on small instances and TLAPS proves the main safety
properties for every instance. Line numbers are those of the repository
(`src/app/` unless said otherwise).

    tlc -config MCUsers.cfg MCUsers          # any of the runs below
    tlapm UsersProofs.tla                    # any of the *Proofs modules

## 1. The system

| Component | State it keeps | Operations | What is hard about it |
|---|---|---|---|
| User update, delete, restore (`api/v1/users.py`) | table `users` (with `version`, `deleted_at`), `audit_logs` | PATCH, DELETE, POST restore | each request has its own session whose objects are as old as its SELECT; the UPDATE is `WHERE id`; commit after the answer |
| User creation (`users.py:44-97`, `middleware/idempotency.py`) | Redis entry per Idempotency-Key, row in `users` | POST /users, retried | two stores and no transaction over both; lost Redis replies, dead workers, TTL; unique index on the email |
| User reads, pagination (`users.py:100-183, 336-384`, `api/cursor.py`, `api/v1/documents.py:73-110`) | none; the client's cursor | lists with cursors, audit log | rows with equal timestamps at a page boundary, rows committed out of order, deleted and restored between pages |
| Sessions (`api/v1/auth.py`, `auth/dependencies.py`, `auth/tokens.py`) | the denylist in Redis; tokens are kept by clients only | login, refresh, logout, me, every authenticated call | check, select and denylist in separate calls; whole-second expiries; users disabled meanwhile |
| Login rate limit (`auth.py:70-142`, `rate_limit.py`) | counters in Redis, `audit_logs` | INCR, EXPIRE, the password check, the audit entry | two calls, each of which may fail before or after it took effect; a counter without expiry; entries rolled back with the 401 |
| Document ingestion (`services/ingestion.py`, `api/v1/documents.py`) | `documents`, `document_chunks` | POST /documents | racing uploads of one content, failure halfway, an answer made of attributes that a flush expired, commit after the answer |
| Embedding model (`services/embedding.py`) | a module global and an asyncio lock | `get_embedding_model`, `embed_texts` | double-checked lazy load in a thread that can raise |
| Chunking (`services/chunking.py`) | none (buffer of the merge loop) | `chunk_text` | offsets through nested splits; sizes at the boundaries; overlap |
| Retrieval (`services/retrieval.py`) | none | one read-only query | nothing that changes state |
| Connections (`db.py`), the process | the engine's pool, module globals | one connection per request | kept while a request waits for the model or a lock; all gone when the process dies |
| Migrations (`alembic/`), seed script (`scripts/seed.py`) | the schema, `alembic_version`, initial rows | `alembic upgrade` and `downgrade`, `seed.py` | revisions that disagree about an index; commands cut short, re-runs |
| Startup, probes, configuration, logging, passwords | none of interest | | |

How they interact. A request opens one database session (`get_db`, `db.py:36-48`),
which authentication and handler share; an exception rolls it back before the
error answer, and success commits it **after** the answer was sent (FastAPI runs
the rest of a dependency with `yield` then). `write_audit` adds an entry to the
session of the change and never commits. Creation goes through `idempotent_post`,
which keeps the 201 in Redis. Every authenticated call asks the denylist and then
selects the user. Ingestion calls `chunk_text` and `embed_texts`, and the latter
the lazily loaded model. `DELETE /users` makes tokens useless without touching
the denylist, because `get_current_user` selects the user again.

What each must guarantee, in short: a user row and its audit entry change
together, and the trail tells whether the user is deleted; a PATCH touches what
it names; one Idempotency-Key runs the handler once at a time and succeeds once;
an email is never registered twice; a revoked token stays refused; nobody revokes
another user's token; a document is visible whole or not at all, and once; the
model is loaded once and no upload waits for ever; no text is lost by chunking
and the offsets of chunks are true; a logout that is audited has revoked both its
tokens; ten passwords an hour are tried per email and a lockout ends; a reader who
follows the cursors sees every row that stays, once; the schema is what its version
says.

## 2. Modules

| Module | Models | Checked by | Proved in |
|---|---|---|---|
| `AuditedUsers` | what the user service promises (abstract) | through `users` | `UsersProofs` |
| `Users` | PATCH, DELETE, RESTORE over Postgres | `users`, `users_lost_update` | `UsersProofs` |
| `UserCreation` | POST /users with Idempotency-Key | `creation`, `creation_cached` | `UserCreationProofs` |
| `TokenStore` | what authentication promises of tokens (abstract) | through `sessions` | `SessionsProofs` |
| `Sessions` | tokens, denylist, login, refresh, logout | `sessions` | `SessionsProofs` |
| `Logins` | the limit of logins per email, their audit entries | `logins`, `logins_audit` | `LoginsProofs` |
| `ContentStore` | what ingestion promises (abstract) | through `uploads` | `UploadsProofs` |
| `Ingestion` | POST /documents | through `uploads` | `UploadsProofs` |
| `EmbeddingModel` | the lazily loaded model and its lock | through `uploads` | `UploadsProofs` |
| `Uploads` | `Ingestion` and `EmbeddingModel` in one process, with its connections and its death | `uploads` | `UploadsProofs` |
| `Pagination` | a client that follows the cursors of a list | `pagination` | `PaginationProofs` |
| `Setup` | migrations and the seed script | `setup`, `setup_fresh` | `SetupProofs` |
| `Chunking` | `chunk_text` | `chunking` | `ChunkingProofs` |

`MC*` modules give TLC the constants that a `.cfg` cannot write. Definitions called
"Mutant of X" are X with a plausible bug; nothing but PROJECT.json uses them: with
the mutant in place of X the property named there must fail.

### Users

A request goes `new`, `authorized` (`get_current_user`, `require_role(ADMIN)`),
`loaded` (the handler selected the row, changed the object, added the audit entry),
`flushed` (UPDATE and INSERT, row lock taken), `answered`, `done`; or `failed` (an
error answer) or `dropped` (failed after the answer). `base` is the row as the
session loaded it, `mem` the object, and once flushed the row it wrote. Three facts
about SQLAlchemy and Postgres carry the model: a session loads the attributes of a
row once, so an administrator who changes his own row works on what authentication
read (`Selected`); the UPDATE sets the columns whose value changed and no other
(`Net`, `Written`); under READ COMMITTED an UPDATE that waited for a lock is applied
to the row as it is then (`Flush` reads `users` when it gets the lock). The columns
kept are `role` (any unguarded column), `is_active`, `deleted_at` (as a flag) and
`version`. Row locks are per row, and a request changes one row, so there is no
lock cycle to model.

### UserCreation

The two stores are `cache` (absent, in progress, or the 201 of a request) and `table` with
`claim`, the open transaction that has an email in the unique index: a second INSERT waits
for it. Redis may fail any call before or after it took effect (`AcquireFails`,
`HandlerFails`). Here and in `Sessions` and `Logins` a call is sent once:
`redis_client.py:13` configures no retry policy, and the models rest on that (a DEL or an
EXPIRE sent again later could remove another request's sentinel or restart a TTL). `Abort`
is a dead worker or a cancelled task, which `except Exception` does not see. `Expire` is the
TTL of 24 hours; its guard says that no request runs for that long between its SET and its
commit.

### Sessions

Tokens are positions in `tokens`; `exp` is in whole seconds, the clock in ticks of
`1/TicksPerSecond`, because the TTL of a denylist entry counts from a fractional
instant. The JWT library accepts a token through the second of `exp`. The actions are
the calls between which another request can come: `Check` (decode, type, denylist),
`Select` (the user), `DenyOld`, `Issue`, `DenyRefreshToken`, `DenyAccessToken`, and the
`Commit` of the logout's audit entry, which comes after its answer. The second token of a
logout may be anybody's, of any type, expired, or no token (0). Roles and passwords are
abstracted: a password is right or not. `Toggle` is an administrator who disables or
enables a user (`Users`).

`TokenStore` is what the denylist stands for: a table that knows of each token whether it is
revoked or expired, and of each request the token it was let in with. `Sessions` implements it
with `revoked`, the history of revocations, in place of a denylist whose entries time out; an
entry that timed out too early would let a revoked token in, which no step of the table does.
`RevokedUntilExp` and `OnlyOwnTokensRevoked` are consequences, proved and not checked again. A
second exchange of a token by a request that was let in before the first is a step of the table
too: the code does not prevent it, as `MCSessionsReuse.cfg` shows.

### Logins

A login goes `new`, `expiring` (its INCR returned 1), `checking` (it was let through), then
`erring` and `denied` (rollback and 401) or `answered` and `done`; or `limited` (429). An
INCR or an EXPIRE that raises may have taken effect or not (`IncrFails`, `ExpireFails`). A
key is its counter and its TTL, `Forever` without one. `counted`, `admitted`, `age` and
`spoilt` are history: the logins that the living key counted, those that were let through
and for how long, and the keys that a fault caught between INCR and EXPIRE. The limit per
address is a library's and appears as `Refuse`.

### Ingestion, ContentStore, EmbeddingModel

`draft` is the document as the transaction sees it, `docs` and `rows` what is committed,
`claim` the unique index on `content_hash`. How many chunks a content has is a constant
(`Chunking` says how they are made), 0 for a content of paragraph breaks only. Such an
upload sets its document FAILED in an UPDATE that it does not refresh
(`ingestion.py:77-81`); `updated_at` has an `onupdate` and is expired by that flush, so the
answer cannot be serialised and the request is rolled back (`Respond`): every document that
is ever committed is READY, and a content without chunks is not stored. In `EmbeddingModel`
the asyncio lock is the sequence `queue`: its holder, then its waiters; a load ends with a
model of the right dimension, one of the wrong dimension, or an exception; `Restart` is a
new process, whose global and lock are empty.

### Uploads

Every upload is a task of `EmbeddingModel` (`M == INSTANCE EmbeddingModel WITH Task <- Req,
pc <- task`) while it is at `await embed_texts(...)` in `Ingestion`: `Encode` ends the call
and is `Embed` if the vectors fit the column, or `Error`. `Arrive` takes one of `PoolSize`
connections, which the upload keeps to its end, waiting for the model or for another
upload's uncommitted hash as it may. `Restart` kills the process: the model and the lock are
gone at once, and PostgreSQL rolls the transactions of the `dead` uploads back one by one
(`Cleanup`), while the uploads of the next process wait for them. An upload that waits for a
connection longer than `pool_timeout` gets a 500 before it changed anything; it is left out.

### Pagination

One list is read from its first page to its last. Rows are numbers in the order of their
UUIDs; `created_at` is `now()`, the start of the transaction, so a row can be committed after
younger ones. `Below` is what the two ways of writing the comparison make of the query: in
`list_users` the SQL row comparison; in `list_documents` and `get_user_audit_log` a comparison
of Python tuples, which compares the first pair of unequal elements, two SQL expressions, and
so yields `created_at < ...` alone. `stable` is history: the rows that matched the first page
and were never deleted since.

### Setup

A table or an index is a record; a revision is the sequence of its statements. `Migrate`
begins the one transaction in which `env.py` runs a whole command; `Execute`, `ExecuteFails`
and `Stamp` are its statements, and only `Commit` changes the database. `Succeeds` and `After`
are PostgreSQL: an index is not created twice, a table that is referenced is not dropped, a
`VECTOR` column needs the extension, which no file of the repository creates. A
database is new, or as the one must have been for which `6b84944bcbbc` was generated:
autogenerate emits a CREATE INDEX for an index that the models declare and the database does
not have. `Seed` and what follows are the loop over batches with a commit each.

### Chunking

Splitting is defined twice. `Pieces` is on positions: the separators of each kind, and the
maximal stretches between them; the merge loop and the proofs use it. `split_text` does what
the code does: it cuts contents out of contents and adds the offsets up, from the cursor of
`_split_with_offsets` through `piece.start_char + match.start()`. `OffsetsAddUp` says of
every text that each piece's content is what the text has at its offsets, and that both
definitions give the same pieces. The merge loop is a state machine with the code's own
variables. For all 21845 texts of the `chunking` run the chunks and offsets of the model
were compared with those of the Python function and are the same. `!` and `?` behave as the
full stop.

## 3. Runs

| Run | Question | Instance | States |
|---|---|---|---|
| `users` | rows, trail and versions consistent; implements `AuditedUsers`; requests end, locks are given back | 2 requests, 2 users, 2 roles, 5 bodies, versions 1 and 2 sent | 54,013 |
| `creation` | one handler and one success per key; emails unique; nothing hangs | 3 requests, 1 key or none, 1 email | 42,330 |
| `sessions` | implements `TokenStore`; rotation holds, logout revokes both tokens | 3 requests, 2 users, 6 ticks of half a second, 6 tokens | 443,216 |
| `logins` | the limit holds, also across windows; lockouts end and are not prolonged, unless a fault spoilt the counter | 3 logins, 2 spellings of one email, limit 1, window of 3 ticks | 88,420 |
| `uploads` | whole, once, one model, and no waiting for ever; implements `ContentStore` | 3 uploads, contents of 0, 1 and 2 chunks, 2 connections, restarts at any time | 90,861 |
| `pagination` | pages descend, users complete, other lists miss ties only | 4 rows, 2 a page, 3 instants, 3 endpoints | 361,035 |
| `setup` | schema as the version says, head as the models say, logs after users | 6 revisions, 2 batches each | 4,942 |
| `chunking` | offsets add up through the splits, nothing lost, true offsets, bounded size, greedy | all texts up to 7 characters, size 4, overlap 2 | 106,405 |
| `users_lost_update`, `creation_cached`, `logins_audit`, `setup_fresh` | the disagreements of section 5 | 2 or 3 actors | |

Bounds and why they suffice. Every race found in this code is between two requests; a third
one, where there is one, is there to come in between the two. Safety is besides proved for
any number of requests, users, keys, emails, contents, rows, tokens, texts and batches
(section 4), so the instances of TLC need only be rich enough to exercise each action and to
break under each mutant. `users` has two requests, which together go through every pair of
PATCH, DELETE and RESTORE; with a third one liveness takes TLC too long, and the safety
properties are those of the proofs. `MaxTime` of `Sessions` is 6 ticks, 3 seconds, for
lifetimes of 1 and 2 seconds: tokens are issued, revoked and expire within it; `MaxTokens`
is 6, a login and two exchanges. `Max` of `Logins` is 1, so that three logins fill two
windows, the smallest case of `BurstBounded`, and a window of 3 ticks leaves room within it.
Two contents with chunks are needed in `uploads`, since two uploads of one content never
embed at the same time: the second waits in its INSERT. Two connections for three uploads
make the pool a bottleneck. Four rows and pages of two give a boundary with ties on both
sides and a last page; three instants give rows older than, as old as and younger than the
cursor. In `setup` two batches are enough to be interrupted between them. In `Chunking` a
chunk of 4 holds two pieces of one letter and their joiners, an overlap of 2 holds one, and
texts of 7 have up to four pieces, words longer than a chunk and every kind of separator
run. Requests are interchangeable, and `sessions` uses that symmetry; runs with liveness use
none (`uploads` only orders the contents of its uploads at the start). Runs allow deadlock
where all requests may have been served; `setup` does not, an operator can always go on.

Fairness. Each request (`WF(Step(r))`) is resumed by the event loop if it can go on, since none
blocks the loop; an operation of Redis, Postgres or the loading thread returns or raises; Redis
entries expire and, in `Logins`, time passes. In `uploads` every client sends its upload, and
PostgreSQL ends the transactions of a dead process; that the process dies for ever is not
excluded, but each upload dies at most once with it. Nothing is assumed of failures, of the
clock in `Sessions`, nor of the order among requests. A waiting INSERT or UPDATE is enabled
once the other transaction is over, a waiting upload once a connection is free; weak fairness
is enough, because there are finitely many requests.

## 4. Proofs

All proofs are for any values of the constants under the named assumptions of the
modules (sets of requests disjoint from the null values, natural numbers where numbers
are meant).

* `UsersProofs`: `TypeCorrect`, `TrailTellsDeleted`, `VersionsAreAudited`,
  `PatchesKeepUnsent`, `UsersImplementAudited`. None of these is inductive: what a commit
  writes was computed at the flush. The invariant adds `LockInv` (whoever flushed holds
  the lock of its row), `ImageInv` (the object to be committed *meets* its request
  relative to the row as it is now, which the lock keeps unchanged; before the flush, the
  object does so relative to the row it was loaded from) and `VersionInv` (objects in
  memory are at most one version ahead of the trail). The column-wise UPDATE is what
  carries an object that was right about an old row over to the present one.
* `UserCreationProofs`: `HandlersExclude`, `SuccessesExclude`, `RowsArePermanent`. The
  invariant says that the entry of a running handler is the sentinel or its own 201
  (`Owns`), that a cached 201 is of a request past its INSERT (`Stored`), that a 201 once
  cached by a successful handler stays until it expires (`Kept`) and that an email held
  by a transaction has no committed row (`ClaimInv`).
* `SessionsProofs`: `RevocationLasts`, `RotationLasts`, `RevocationsAreOwn`, `LogoutsRevoke`,
  `SessionsImplementStore`. `DenyInv`: an
  entry is kept through the last instant before the second of `exp` is reached, which is
  the arithmetic of `max(exp - now, 1)` with the current second rounded down
  (`DenyLasts`); `ParentInv`: whatever was exchanged is revoked. `LogoutInv`, on top of these:
  past its first write a logout's refresh token is *gone* (revoked or expired), past its second
  also its bearer; what is gone stays gone (`GoneStays`). The
  refinement maps each step to one of `TokenStore` or to a stutter (`StoreStep`), for which
  `RefreshInv` keeps the type of what is exchanged and `IssuedInTime` says that no token is
  issued in its last second.
* `LoginsProofs`: `LimitHolds`, `BurstsAreBounded`, `WindowsAreFixed`, `LocksComeOfFaults`. The
  invariant says that a counter is at least the number of logins it counted, and that these
  are all that were let through since the key was made: whoever was let through before is at
  least as old as the TTL has run.
* `PaginationProofs`: `PagesComeInOrder`, `UsersAreAllListed`, `OnlyTiesAreMissed`. The
  invariant: the cursor is the last row shown, every row shown is at or above it, and every
  stable row above it was shown, or has the `created_at` of one shown before it.
* `UploadsProofs`, in three parts. Ingestion: `DocumentsAreWhole`, `IngestionImplementsStore`;
  `DraftInv`: after the last flush the document is whole; `ClaimInv`: who is about to commit
  holds the hash, so there is no document yet; `TypeOK` is not inductive without them. The
  model: `ModelLoadedOnce`; in the queue of the lock are exactly those who wait for it or load
  (`Queued`), and who loads is its head (`LoaderInv`). Their composition:
  `UploadsImplementIngestion` and `UploadsImplementModel` map each step of the process to a
  step of the one and of the other, or to a stutter; `UploadedDocumentsAreWhole`,
  `UploadsImplementStore` and `UploadsLoadOnce` follow from the theorems about those.
* `ChunkingProofs`: `Complete`, `Truthful`, `SizesBounded`, `Merged`, for every text, size and
  overlap. The first half is about the splits, which are sets of positions: two pieces never
  overlap and a character that is not white space is in one (`PieceSetSplits`), and they can be
  put in one order (`PiecesInOrder`). The second half is the loop: `RunInv`: the buffer is a run of
  consecutive pieces; `CoverInv`: the chunks and the buffer have all pieces up to the next one;
  `ChainInv`: each chunk begins within the one before or right after it, and ends beyond it;
  `BoundInv`: what a chunk costs. That order, and what the lengths in
  the buffer add up to, need induction over the natural numbers, which is done on sets
  (`LeastNatural`, `NaturalInduction`: the numbers without a property have a least element).
* `SetupProofs`: `SchemaTold`, `HeadAsDeclared`, `LogsAfterUsers`. Of a
  migration that is under way the invariant says what it will come to: carrying out what is
  left of the revision (`Result`) gives the objects of the next version (`Heading`). A
  statement moves from the rest to the objects and leaves their sum alone
  (`AfterKeepsResult`), because no revision removes what it creates (`Clean`); that a revision
  takes the objects of one version to those of the next, and back, is `UpDoes` and `DownDoes`. The
  index that two revisions create is kept apart: on a new database it is there from the third
  revision to the fifth, whose last statement therefore fails. `SeedInv`: a batch is in the
  table or still to do, so that the logs find all of them.

Only model-checked: liveness (`EveryRequestEnds` of `Users` and of `UserCreation`,
`SentinelClears`, `EmailUnlocked`, `EveryUploadServed`), since fairness and ENABLED are beyond the
prover, and `OffsetsAddUp`, since what a recursive function (the cursor of the split) computes
for every text needs an induction that it cannot do. Every other property of a passing run is
a theorem.

## 5. Where the code and its documentation disagree

Runs that end in a counterexample; PROJECT.json quotes the sentences.

* `users_lost_update`: two PATCHes with the same `version` are both applied; the version is
  compared in Python and the UPDATE has no version in its WHERE (`users.py:212`).
* `creation_cached`: the 201 is cached before the commit; if the commit fails, retries get
  the 201 of a user who does not exist for 24 hours (`idempotency.py:80`).
* `logins_audit`: no failed login is ever audited: the entry is rolled back with the 401
  (`auth.py:106-114`, `db.py:46-48`).
* `setup_fresh`: `alembic upgrade head` fails on a new database, because two revisions create
  the index `ix_audit_logs_target_user_id` (and, without the extension `vector`, because of the
  type of the embeddings); `HeadMatchesModels` is therefore about databases of the other kind.

More properties are stated in the modules under "What the documentation says" and have a
configuration of their own, which TLC refutes in the same way (`tlc -config X.cfg` with the
`MC` module of that name):

| Configuration | Property | What happens |
|---|---|---|
| `MCUsersPatchDeleted` | `DeletedUsersNotPatched` | a PATCH is applied to a user deleted after its SELECT |
| `MCUsersDeleteTwice` | `DeletedOnce` | two racing DELETEs are both audited |
| `MCUserCreationLoser` | `LoserGetsAnswer` | the entry goes between SET NX and GET: a 500 |
| `MCUserCreationBusy` | `BusyMeansRunning` | a dead worker's sentinel answers 409 for up to 24 hours |
| `MCUserCreationAudit` | `AuditFailuresSeen` | an audit entry that cannot be written fails after the 201 |
| `MCSessionsReuse` | `RefreshTokensUsedOnce` | two racing refreshes with one token both get a pair (`auth.py:175-191`, against the docstring at `auth.py:160`) |
| `MCSessionsExpiry` | `DeniedForGood` | a denylist entry times out in the second in which the token is still accepted |
| `MCSessionsLogout` | `LogoutEndsSession` | a refresh under way mints a pair after the logout |
| `MCLoginsLockout` | `LockoutEnds` | INCR took effect and EXPIRE did not: the email is locked for good |
| `MCLoginsCleared` | `SuccessClears` | no login clears the counter (against `DECISIONS.md`, D023) |
| `MCIngestionDuplicate` | `DuplicatesServed` | of two racing uploads of one content the second gets a 500 (`ingestion.py:71`) |
| `MCIngestionFailed` | `FailuresKept` | an upload that sets its document FAILED cannot be answered and is rolled back: no FAILED document is ever stored (`ingestion.py:77-81`, against `models/document.py:17`) |
| `MCEmbeddingModelChecked` | `OnlyCheckedModelUsed` | the global is set before the check, so a model that failed it serves the next caller (`embedding.py:44-52`) |
| `MCPaginationTies` | `ListsComplete` | documents and audit entries with equal timestamps are lost at a page boundary (`documents.py:90`, `users.py:360`) |
| `MCSetupReseed` | `SeedIsIdempotent` | a second seed fails on the unique emails (`seed.py:139`) |

## 6. Not modelled, and why

* `get_user`, `get_document`, `/auth/me` beyond its checks: one query that changes nothing.
* Retrieval: one read-only query and a filter on its result; which chunks it finds is the
  business of the vector index, and no endpoint calls it. What it can see are the committed
  rows of `Uploads`.
* Password hashing, JWT signatures, vector distances: library functions; the models take
  their outcome as a choice or as given.
* Startup, CORS, probes, configuration, logging, tracing: nothing another part relies on.
* Of the audit entries: actor, address and details, and the target where a login has none.
* Of the schema: columns, types and defaults; of the seed: what is in its rows.
* The limit of logins per address: a library (slowapi) on its own keys.

## 7. Plan

Order of work, the most important behaviour first. Steps 1 to 12 are done.

1. `Users` refining `AuditedUsers`, with proofs: the audited table.
2. `UserCreation`: idempotency over two stores, with proofs.
3. `Sessions`: revocation with time, with proofs.
4. `Ingestion` refining `ContentStore`, with proofs.
5. `EmbeddingModel`: the double-checked lock, with proofs.
6. `Chunking`: offsets, sizes, the greedy merge.
7. `Pagination`: the cursors of the three lists, with proofs.
8. `Logins`: the limit per email and the audit of logins, with proofs.
9. `Setup`: migrations and seed.
10. `Uploads`: `Ingestion`, `EmbeddingModel`, the connections and the process, with proofs.
11. Proofs of `Chunking` and of `Setup`.
12. `TokenStore`, and the proof that `Sessions` implements it.
13. Composition of `Sessions` with the deleted flag of `Users`, in place of `Toggle`; abstract
    specifications of `Logins` and of `UserCreation`.
