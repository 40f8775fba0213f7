------------------------------- MODULE Setup --------------------------------
(***************************************************************************)
(* An operator sets up the database: alembic upgrades and downgrades       *)
(* (alembic/env.py and the six revisions of alembic/versions), each        *)
(* command in one transaction, and the seed script                         *)
(* (app/scripts/seed.py), with a transaction per batch.  Any command may   *)
(* be cut short; one runs at a time.                                       *)
(***************************************************************************)
EXTENDS Integers, Sequences, SequencesExt

CONSTANTS UserBatches,  \* batches of users that are seeded (10)
          LogBatches    \* batches of audit logs that are seeded (200)

ASSUME BatchesAssumption == UserBatches \in Nat \ {0} /\ LogBatches \in Nat \ {0}

VARIABLES objects,   \* tables and indexes, as committed
          version,   \* alembic_version, as committed: how many revisions
          vector,    \* whether the extension vector was created
          userRows,  \* batches in users
          logRows,   \* how many batches in audit_logs
          pc,        \* "idle", "migrating", "users", "logs"
          work,      \* the objects as the open transaction sees them
          at,        \* and its version
          goal,      \* the version that the command asks for
          todo,      \* what is left of a revision, or of the batches
          outcome,   \* of the last command
          origin     \* history: the database it began with

schema == <<objects, version, vector, origin>>
vars == <<schema, userRows, logRows, pc, work, at, goal, todo, outcome>>

-----------------------------------------------------------------------------
(* The revisions.                                                          *)

Table(t) == [table |-> t, index |-> "none"]
Index(t, i) == [table |-> t, index |-> i]
Create(o) == [op |-> "create", on |-> o]
Drop(o) == [op |-> "drop", on |-> o]
DropIfExists(o) == [op |-> "drop if exists", on |-> o]

References == [users |-> {}, audit_logs |-> {"users"}, documents |-> {"users"},
               document_chunks |-> {"documents"}]

Email == Index("users", "email")
DeletedAt == Index("users", "deleted_at")
ActivePagination == Index("users", "active_pagination")
TargetUser == Index("audit_logs", "target_user_id")
TargetCreated == Index("audit_logs", "target_created_id")
Hnsw == Index("document_chunks", "embedding_hnsw")

OnLogs == <<Index("audit_logs", "action"), Index("audit_logs", "actor_user_id"),
            Index("audit_logs", "created_at"), TargetUser>>
OnDocuments == <<Index("documents", "content_hash"), Index("documents", "status"),
                 Index("documents", "uploaded_by")>>
OnChunks == <<Index("document_chunks", "document_chunk_idx"),
              Index("document_chunks", "document_id")>>

Creates(os) == [i \in DOMAIN os |-> Create(os[i])]
Drops(os) == [i \in DOMAIN os |-> Drop(Reverse(os)[i])]

\* be32ff1c8a4a
UsersUp == Creates(<<Table("users"), DeletedAt, Email>>)
UsersDown == Drops(<<Table("users"), DeletedAt, Email>>)

\* d63e89fbfa88
PaginationUp == <<Drop(DeletedAt), Create(ActivePagination)>>

\* Mutant of PaginationDown: the old index is not restored.
PaginationDownForgets == <<Drop(ActivePagination)>>

PaginationDown == <<Drop(ActivePagination), Create(DeletedAt)>>

\* 457a6439e2aa
LogsUp == Creates(<<Table("audit_logs")>> \o OnLogs)
LogsDown == Drops(<<Table("audit_logs")>> \o OnLogs)

\* d30064ba5f9e
LogOrderUp == <<Create(TargetCreated)>>
LogOrderDown == <<Drop(TargetCreated)>>

\* Mutant of DocumentsUp: the second CREATE INDEX taken out of the revision,
\* which leaves the databases without the index as they are.
DocumentsUpOnce == Creates(<<Table("documents")>> \o OnDocuments \o
                           <<Table("document_chunks")>> \o OnChunks)

\* 6b84944bcbbc creates an index that 457a6439e2aa created.
DocumentsUp == Creates(<<Table("documents")>> \o OnDocuments \o
                       <<Table("document_chunks")>> \o OnChunks \o <<TargetUser>>)
DocumentsDown == Drops(<<Table("documents")>> \o OnDocuments \o
                       <<Table("document_chunks")>> \o OnChunks \o <<TargetUser>>)

\* a6eca535dd4d
HnswUp == <<Create(Hnsw)>>
HnswDown == <<DropIfExists(Hnsw)>>

Up == <<UsersUp, PaginationUp, LogsUp, LogOrderUp, DocumentsUp, HnswUp>>
Down == <<UsersDown, PaginationDown, LogsDown, LogOrderDown, DocumentsDown, HnswDown>>
Newest == Len(Up)

-----------------------------------------------------------------------------
(* PostgreSQL.                                                             *)

Tables(os) == {o.table : o \in {p \in os : p.index = "none"}}

\* Whether the statement is carried out, on the objects os.
Succeeds(s, os) ==
  CASE s.op = "create" ->
         /\ s.on \notin os
         /\ IF s.on.index = "none"
              THEN /\ References[s.on.table] \subseteq Tables(os)
                   /\ s.on.table = "document_chunks" => vector
              ELSE s.on.table \in Tables(os)
    [] s.op = "drop" ->
         /\ s.on \in os
         /\ s.on.index = "none" => \A t \in Tables(os) : s.on.table \notin References[t]
    [] s.op = "drop if exists" -> TRUE

\* The objects after it: a table goes with its indexes.
After(s, os) ==
  IF s.op = "create" THEN os \cup {s.on}
  ELSE IF s.on.index = "none" THEN {o \in os : o.table # s.on.table}
  ELSE os \ {s.on}

\* What statements create and drop.
Created(ss) == {s.on : s \in {t \in Range(ss) : t.op = "create"}}
Dropped(ss) == {s.on : s \in {t \in Range(ss) : t.op # "create"}}

\* The objects that revisions 1..v make of an empty database; no revision
\* creates again what an earlier one dropped.
Expected(v) == (UNION {Created(Up[r]) : r \in 1..v})
                 \ (UNION {Dropped(Up[r]) : r \in 1..v})

\* A new database, with the extension vector or without, or one like that on
\* which 6b84944bcbbc was generated: at d30064ba5f9e and without the index,
\* which autogenerate found missing.
Init == /\ origin \in {"fresh", "drifted"}
        /\ objects = IF origin = "fresh" THEN {} ELSE Expected(4) \ {TargetUser}
        /\ version = IF origin = "fresh" THEN 0 ELSE 4
        /\ vector \in BOOLEAN
        /\ userRows = {} /\ logRows = 0
        /\ pc = "idle"
        /\ work = {} /\ at = 0 /\ goal = 0 /\ todo = << >>
        /\ outcome = "none"

-----------------------------------------------------------------------------
(* Alembic.                                                                *)

Revision(from, to) == IF from < to THEN Up[from + 1] ELSE Down[from]

Finish(result) == /\ pc' = "idle" /\ outcome' = result
                  /\ work' = {} /\ at' = 0 /\ todo' = << >>

\* alembic upgrade, alembic downgrade: the transaction of env.py begins.
Migrate == /\ pc = "idle"
           /\ goal' \in 0..Newest \ {version}
           /\ pc' = "migrating"
           /\ work' = objects
           /\ at' = version
           /\ todo' = Revision(version, goal')
           /\ outcome' = "none"
           /\ UNCHANGED <<schema, userRows, logRows>>

\* A statement of the revision.
Execute == /\ pc = "migrating" /\ todo # << >>
           /\ Succeeds(Head(todo), work)
           /\ work' = After(Head(todo), work)
           /\ todo' = Tail(todo)
           /\ UNCHANGED <<schema, userRows, logRows, pc, at, goal, outcome>>

\* It raises: everything that the command did is rolled back.
ExecuteFails == /\ pc = "migrating" /\ todo # << >>
                /\ ~Succeeds(Head(todo), work)
                /\ Finish("failed")
                /\ UNCHANGED <<schema, userRows, logRows, goal>>

\* The version is updated in the same transaction, and the next revision begins.
Stamp == /\ pc = "migrating" /\ todo = << >> /\ at # goal
         /\ at' = IF at < goal THEN at + 1 ELSE at - 1
         /\ todo' = IF at' = goal THEN << >> ELSE Revision(at', goal)
         /\ UNCHANGED <<schema, userRows, logRows, pc, work, goal, outcome>>

\* Rows go with their table.
Commit == /\ pc = "migrating" /\ todo = << >> /\ at = goal
          /\ objects' = work
          /\ version' = at
          /\ userRows' = IF "users" \in Tables(work) THEN userRows ELSE {}
          /\ logRows' = IF "audit_logs" \in Tables(work) THEN logRows ELSE 0
          /\ Finish("done")
          /\ UNCHANGED <<vector, origin, goal>>

-----------------------------------------------------------------------------
(* seed.py.                                                                *)

\* Mutant of Seed: a user seed is skipped if there are users.
SeedSkips ==
  /\ pc = "idle" /\ "users" \in Tables(objects)
  /\ \/ userRows = {} /\ pc' = "users" /\ todo' = [b \in 1..UserBatches |-> b]
     \/ userRows # {} /\ pc' = "logs" /\ todo' = [b \in 1..LogBatches |-> b]
  /\ outcome' = "none"
  /\ UNCHANGED <<schema, userRows, logRows, work, at, goal>>

\* The users are counted, and seeded anyway.  Without the table it raises.
Seed == /\ pc = "idle" /\ "users" \in Tables(objects)
        /\ pc' = "users"
        /\ todo' = [b \in 1..UserBatches |-> b]
        /\ outcome' = "none"
        /\ UNCHANGED <<schema, userRows, logRows, work, at, goal>>

\* A batch is inserted and committed.
SeedUsers == /\ pc = "users" /\ todo # << >>
             /\ Head(todo) \notin userRows
             /\ userRows' = userRows \cup {Head(todo)}
             /\ todo' = Tail(todo)
             /\ UNCHANGED <<schema, logRows, pc, work, at, goal, outcome>>

\* user_<n>@valeo.com is there already, and the index on the email unique.
SeedUsersFails == /\ pc = "users" /\ todo # << >>
                  /\ Head(todo) \in userRows
                  /\ Finish("failed")
                  /\ UNCHANGED <<schema, userRows, logRows, goal>>

\* The logs are counted, and seeded anyway; their ids are new every time.
TurnToLogs == /\ pc = "users" /\ todo = << >>
              /\ IF "audit_logs" \in Tables(objects)
                   THEN /\ pc' = "logs"
                        /\ todo' = [b \in 1..LogBatches |-> b]
                        /\ UNCHANGED <<work, at, outcome>>
                   ELSE Finish("failed")
              /\ UNCHANGED <<schema, userRows, logRows, goal>>

SeedLogs == /\ pc = "logs"
            /\ IF todo = << >>
                 THEN Finish("done") /\ UNCHANGED logRows
                 ELSE /\ logRows' = logRows + 1
                      /\ todo' = Tail(todo)
                      /\ UNCHANGED <<pc, work, at, outcome>>
            /\ UNCHANGED <<schema, userRows, goal>>

\* The operator interrupts a command, or its connection breaks.
Interrupt == /\ pc # "idle"
             /\ Finish("interrupted")
             /\ UNCHANGED <<schema, userRows, logRows, goal>>

Next == \/ Migrate \/ Execute \/ ExecuteFails \/ Stamp \/ Commit
        \/ Seed \/ SeedUsers \/ SeedUsersFails \/ TurnToLogs \/ SeedLogs
        \/ Interrupt

Spec == Init /\ [][Next]_vars

-----------------------------------------------------------------------------
(* Properties.                                                             *)

\* The schema is what its version says, up to the index that two revisions
\* create: downgrades undo upgrades, and no command is half done.
SchemaAsVersionSays == objects \ {TargetUser} = Expected(version) \ {TargetUser}

\* The indexes that the models declare (index=True, unique=True, Index).
Declared == {Email, ActivePagination, TargetCreated}
              \cup ToSet(OnLogs) \cup ToSet(OnDocuments) \cup ToSet(OnChunks)

\* A database at the head has the indexes that the models declare, and the
\* one of the vectors, wherever it started.
HeadMatchesModels ==
  version = Newest => {o \in objects : o.index # "none"} = Declared \cup {Hnsw}

\* There are audit logs of the seed only if all its users are there, however
\* often it was interrupted and run again, and whatever was downgraded.
LogsComeAfterUsers == logRows > 0 => userRows = 1..UserBatches

(* What the documentation says and the code does not do.                   *)

\* README.md:41-43: the quickstart migrates a new database to the head.
FreshReachesHead ==
  origin = "fresh" /\ vector /\ version = 0 /\ goal = Newest => outcome # "failed"

\* seed.py:136 (idempotent enough): a second run of the seed does not fail.
SeedIsIdempotent == userRows = 1..UserBatches /\ pc = "users" => todo = << >>
=============================================================================
