------------------------------- MODULE Users --------------------------------
(***************************************************************************)
(* PATCH, DELETE and RESTORE of /users (app/api/v1/users.py), each run as  *)
(* one request with one database session (app/db.py) whose objects are     *)
(* loaded, changed in memory, flushed, and committed after the answer was  *)
(* sent.  The store is Postgres under READ COMMITTED: a SELECT sees the    *)
(* committed rows, the UPDATE of a flush takes the row lock until the end  *)
(* of the transaction and writes the changed columns only, WHERE id = ...  *)
(* and nothing else.                                                       *)
(***************************************************************************)
EXTENDS Integers, Sequences, FiniteSets

CONSTANTS Ids,      \* users.id of the rows there are
          Missing,  \* a user_id that no row has
          Req,      \* requests, each served once
          Roles,    \* UserRole
          Admin,    \* UserRole.ADMIN
          Sent,     \* the versions clients send with a PATCH
          Patches,  \* the bodies clients send with a PATCH
          Unset,    \* a field the body of a PATCH does not have
          None      \* no request, no object

ASSUME MissingAssumption == Missing \notin Ids
ASSUME NoneAssumption == None \notin Req
ASSUME UnsetAssumption == Unset \notin Roles /\ Unset \notin BOOLEAN
ASSUME SentAssumption == Sent \subseteq Nat
ASSUME PatchesAssumption ==
  Patches \subseteq [role : Roles \cup {Unset}, active : BOOLEAN \cup {Unset}]

VARIABLES users,  \* table users, as committed
          trail,  \* table audit_logs, as committed, oldest first
          lock,   \* the request whose open transaction updated the row
          pc,     \* how far each request is
          job,    \* what each request asks for
          base,   \* the row as the request's session loaded it
          mem     \* the request's User object; once flushed, the row it wrote

vars == <<users, trail, lock, pc, job, base, mem>>

Row == [role : Roles, active : BOOLEAN, deleted : BOOLEAN,
        version : Nat \ {0}]

Entry == [target : Ids,
          action : {"user.updated", "user.deleted", "user.restored"}]

Job == [op : {"user.updated"}, actor : Ids, target : Ids \cup {Missing},
        sent : Sent, patch : Patches]
       \cup
       [op : {"user.deleted", "user.restored"}, actor : Ids,
        target : Ids \cup {Missing}]

Writing == {"flushed", "answered"}       \* the row lock is held
Running == {"authorized", "loaded"} \cup Writing

\* Rows as the seed script and create_user leave them.
Init == /\ users \in [Ids -> {u \in [role : Roles, active : BOOLEAN,
                                      deleted : BOOLEAN, version : {1}] :
                                 u.active = ~u.deleted}]
        /\ trail = << >>
        /\ lock = [i \in Ids |-> None]
        /\ pc = [r \in Req |-> "new"]
        /\ job = [r \in Req |-> None]
        /\ base = [r \in Req |-> None]
        /\ mem = [r \in Req |-> None]

-----------------------------------------------------------------------------
(* The session of a request.                                               *)

\* Mutant of Close: an error path that never closes the session.
CloseWithoutRelease(r, outcome) ==
  /\ pc' = [pc EXCEPT ![r] = outcome]
  /\ job' = [job EXCEPT ![r] = None]
  /\ base' = [base EXCEPT ![r] = None]
  /\ mem' = [mem EXCEPT ![r] = None]
  /\ UNCHANGED lock

\* The session closes: its objects are gone, and the row lock with them.
Close(r, outcome) ==
  /\ pc' = [pc EXCEPT ![r] = outcome]
  /\ job' = [job EXCEPT ![r] = None]
  /\ base' = [base EXCEPT ![r] = None]
  /\ mem' = [mem EXCEPT ![r] = None]
  /\ lock' = [i \in Ids |-> IF lock[i] = r THEN None ELSE lock[i]]

\* Rollback and the error answer (401, 403, 404, 409, 500).
Reject(r) == Close(r, "failed") /\ UNCHANGED <<users, trail>>

\* get_current_user and require_role(ADMIN), on the session of the request.
\* The token was good: Sessions.tla is about tokens.
Authenticate(r) ==
  /\ pc[r] = "new"
  /\ \E j \in Job :
       LET me == users[j.actor] IN
       IF ~me.deleted /\ me.active /\ me.role = Admin
         THEN /\ pc' = [pc EXCEPT ![r] = "authorized"]
              /\ job' = [job EXCEPT ![r] = j]
              /\ base' = [base EXCEPT ![r] = me]
              /\ UNCHANGED <<users, trail, lock, mem>>
         ELSE Reject(r)

\* The object a SELECT of the target yields.  The session already holds the
\* actor's: a second SELECT of the same row does not refresh its attributes.
Selected(r) == IF job[r].target = job[r].actor
                 THEN base[r] ELSE users[job[r].target]

\* The handler goes on with the object it selected, changed to u.
Keep(r, u) == /\ pc' = [pc EXCEPT ![r] = "loaded"]
              /\ base' = [base EXCEPT ![r] = Selected(r)]
              /\ mem' = [mem EXCEPT ![r] = u]
              /\ UNCHANGED <<users, trail, lock, job>>

\* Mutant of Given: exclude_unset forgotten.
GivenAlways(value, old) == value

\* model_dump(exclude_unset=True): a field that was not sent is left alone.
Given(value, old) == IF value = Unset THEN old ELSE value

\* Mutant of Patched: is_active has a default in the body and is always sent.
PatchedReactivates(u, patch) ==
  [u EXCEPT !.role = Given(patch.role, @),
            !.active = IF patch.active = Unset THEN TRUE ELSE patch.active,
            !.version = @ + 1]

Patched(u, patch) == [u EXCEPT !.role = Given(patch.role, @),
                               !.active = Given(patch.active, @),
                               !.version = @ + 1]

Deleted(u) == [u EXCEPT !.deleted = TRUE, !.active = FALSE, !.version = @ + 1]

Restored(u) == [u EXCEPT !.deleted = FALSE, !.active = TRUE, !.version = @ + 1]

\* update_user up to its flush.  WHERE deleted_at IS NULL is evaluated on the
\* committed row, the version is compared on the object.
Update(r) ==
  /\ pc[r] = "authorized"
  /\ job[r].op = "user.updated"
  /\ IF /\ job[r].target \in Ids
        /\ ~users[job[r].target].deleted
        /\ Selected(r).version = job[r].sent
       THEN Keep(r, Patched(Selected(r), job[r].patch))
       ELSE Reject(r)

\* delete_user up to its flush; an already deleted row ends it with a 204.
Delete(r) ==
  /\ pc[r] = "authorized"
  /\ job[r].op = "user.deleted"
  /\ \/ job[r].target \notin Ids /\ Reject(r)
     \/ /\ job[r].target \in Ids
        /\ IF Selected(r).deleted
             THEN Close(r, "done") /\ UNCHANGED <<users, trail>>
             ELSE Keep(r, Deleted(Selected(r)))

\* Mutant of Restore: the check that there is something to restore is gone.
RestoreAnything(r) ==
  /\ pc[r] = "authorized"
  /\ job[r].op = "user.restored"
  /\ IF job[r].target \in Ids
       THEN Keep(r, Restored(Selected(r)))
       ELSE Reject(r)

\* restore_user up to its flush.
Restore(r) ==
  /\ pc[r] = "authorized"
  /\ job[r].op = "user.restored"
  /\ IF job[r].target \in Ids /\ Selected(r).deleted
       THEN Keep(r, Restored(Selected(r)))
       ELSE Reject(r)

\* The columns an UPDATE sets are those whose value differs from the loaded
\* one; the others keep what the row has when the UPDATE gets its lock.
Net(old, new, current) == IF new = old THEN current ELSE new

Written(row, old, new) ==
  [role    |-> Net(old.role, new.role, row.role),
   active  |-> Net(old.active, new.active, row.active),
   deleted |-> Net(old.deleted, new.deleted, row.deleted),
   version |-> Net(old.version, new.version, row.version)]

\* db.flush(): UPDATE users and INSERT audit_logs in the open transaction.
\* What follows (db.refresh) reads back the row just written.
Flush(r) ==
  /\ pc[r] = "loaded"
  /\ lock[job[r].target] = None
  /\ lock' = [lock EXCEPT ![job[r].target] = r]
  /\ mem' = [mem EXCEPT ![r] = Written(users[job[r].target], base[r], mem[r])]
  /\ pc' = [pc EXCEPT ![r] = "flushed"]
  /\ UNCHANGED <<users, trail, job, base>>

\* The 200 or 204 leaves before get_db resumes.
Respond(r) == /\ pc[r] = "flushed"
              /\ pc' = [pc EXCEPT ![r] = "answered"]
              /\ UNCHANGED <<users, trail, lock, job, base, mem>>

\* Mutant of Commit: the audit entry was never added to the session when the
\* handler restored a user.
CommitUnaudited(r) ==
  /\ pc[r] = "answered"
  /\ users' = [users EXCEPT ![job[r].target] = mem[r]]
  /\ trail' = IF job[r].op = "user.restored" THEN trail
              ELSE Append(trail, [target |-> job[r].target,
                                  action |-> job[r].op])
  /\ Close(r, "done")

\* get_db resumes after its yield: session.commit().
Commit(r) ==
  /\ pc[r] = "answered"
  /\ users' = [users EXCEPT ![job[r].target] = mem[r]]
  /\ trail' = Append(trail, [target |-> job[r].target, action |-> job[r].op])
  /\ Close(r, "done")

\* An exception, a lost connection or a dead worker: the transaction of the
\* request is rolled back, before its answer or after it.
Abort(r) ==
  /\ pc[r] \in Running
  /\ Close(r, IF pc[r] = "answered" THEN "dropped" ELSE "failed")
  /\ UNCHANGED <<users, trail>>

Step(r) == \/ Authenticate(r) \/ Update(r) \/ Delete(r) \/ Restore(r)
           \/ Flush(r) \/ Respond(r) \/ Commit(r)

Next == \E r \in Req : Step(r) \/ Abort(r)

\* The event loop resumes every handler that can go on; nothing forces a
\* failure, and a client may never send its request.
Fairness == \A r \in Req : WF_vars(pc[r] # "new" /\ Step(r))

Spec == Init /\ [][Next]_vars

FairSpec == Spec /\ Fairness

-----------------------------------------------------------------------------
(* Properties.                                                             *)

Open(r) == pc[r] \in Running

\* The variables have their types; a request has a job and its loaded row
\* while its session is open, and an object of its own from then on.
TypeOK ==
  /\ users \in [Ids -> Row]
  /\ trail \in Seq(Entry)
  /\ lock \in [Ids -> Req \cup {None}]
  /\ pc \in [Req -> Running \cup {"new", "done", "failed", "dropped"}]
  /\ job \in [Req -> Job \cup {None}]
  /\ base \in [Req -> Row \cup {None}]
  /\ mem \in [Req -> Row \cup {None}]
  /\ \A r \in Req : Open(r) => job[r] \in Job /\ base[r] \in Row
  /\ \A r \in Req : pc[r] \in Writing \cup {"loaded"} =>
                      mem[r] \in Row /\ job[r].target \in Ids

Lifecycle == {"user.deleted", "user.restored"}

\* Entry i is the last one to say whether its target is deleted.
LastWord(i) ==
  /\ trail[i].action \in Lifecycle
  /\ \A k \in (i + 1)..Len(trail) :
       ~(trail[k].target = trail[i].target /\ trail[k].action \in Lifecycle)

\* However PATCH, DELETE and RESTORE of one user race, the deleted flag of
\* the row is what the last entry about it says: a RESTORE that loses to a
\* DELETE is not audited after it with no effect, nor the reverse.
DeletedMatchesTrail ==
  \A i \in 1..Len(trail) :
    LastWord(i) => users[trail[i].target].deleted
                     = (trail[i].action = "user.deleted")

\* How many entries there are about each user.
Changes == [u \in Ids |-> Cardinality({i \in 1..Len(trail) : trail[i].target = u})]

\* Every bump of a version is audited: the version of a row never runs ahead
\* of the entries about it.  (It may stay behind: see NoLostUpdate.)
VersionBoundedByTrail ==
  \A u \in Ids : users[u].version <= 1 + Changes[u]

\* A PATCH writes the columns its body names and no other, also when the row
\* changed after it was loaded: a racing write to another column survives.
UnsentFieldsKept ==
  [][\A r \in Req :
       pc[r] = "answered" /\ pc'[r] = "done" /\ job[r].op = "user.updated" =>
         LET t == job[r].target IN
         /\ job[r].patch.role = Unset => users'[t].role = users[t].role
         /\ job[r].patch.active = Unset => users'[t].active = users[t].active
         /\ users'[t].deleted = users[t].deleted]_vars

\* Row changes and audit entries come in pairs, one pair a step, and the
\* entry tells the truth about the deleted flag (write_audit adds to the
\* transaction of the change and never commits by itself).
Audited == INSTANCE AuditedUsers WITH users <- users, trail <- trail,
                                      Ids <- Ids, Row <- Row
AuditedSpec == Audited!Spec

\* A request whose session was opened ends, and so never holds a row lock
\* for ever, whoever fails and wherever.
EveryRequestEnds == \A r \in Req : Open(r) ~> ~Open(r)

(* What the documentation says and racing requests break.                  *)

\* models/user.py:74-76: the version column prevents lost updates when two
\* clients edit the same row: a PATCH that is applied overwrites the very
\* version its client had read.
NoLostUpdate ==
  [][\A r \in Req :
       pc[r] = "answered" /\ pc'[r] = "done" /\ job[r].op = "user.updated" =>
         users[job[r].target].version = job[r].sent]_vars

\* users.py:202: a PATCH of a soft-deleted user is a 404, and changes nothing.
DeletedUsersNotPatched ==
  [][\A r \in Req :
       pc[r] = "answered" /\ pc'[r] = "done" /\ job[r].op = "user.updated" =>
         ~users[job[r].target].deleted]_vars

\* users.py:278-280: deleting a user who is already deleted changes nothing
\* and writes no audit entry.
DeletedOnce ==
  [][\A r \in Req :
       pc[r] = "answered" /\ pc'[r] = "done" /\ job[r].op = "user.deleted" =>
         ~users[job[r].target].deleted]_vars

=============================================================================
