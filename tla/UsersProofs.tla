---------------------------- MODULE UsersProofs -----------------------------
(***************************************************************************)
(* Theorems about Users.tla, for any sets of users, requests and roles.    *)
(***************************************************************************)
EXTENDS Users, FiniteSetTheorems, SequenceTheorems, TLAPS

-----------------------------------------------------------------------------
(* The helpers of the handlers.                                            *)

\* What a request asks for has the fields its handler reads.
LEMMA JobFields ==
  ASSUME NEW j \in Job
  PROVE  /\ j.op \in {"user.updated", "user.deleted", "user.restored"}
         /\ j.actor \in Ids
         /\ j.target \in Ids \cup {Missing}
         /\ j.op = "user.updated" => j.patch \in Patches /\ j.sent \in Sent
  BY DEF Job

\* The changes the three handlers make in memory yield rows again.
LEMMA PatchedIsRow ==
  ASSUME NEW u \in Row, NEW patch \in Patches
  PROVE  Patched(u, patch) \in Row
  <1>1. /\ patch.role \in Roles \cup {Unset}
        /\ patch.active \in BOOLEAN \cup {Unset}
    BY PatchesAssumption
  <1>2. /\ u.role \in Roles /\ u.active \in BOOLEAN
        /\ u.version + 1 \in Nat \ {0}
    BY DEF Row
  <1>3. Given(patch.role, u.role) \in Roles
    BY <1>1, <1>2 DEF Given
  <1>4. Given(patch.active, u.active) \in BOOLEAN
    BY <1>1, <1>2, Zenon DEF Given
  <1> QED BY <1>2, <1>3, <1>4 DEF Patched, Row

\* delete_user makes a row of a row.
LEMMA DeletedIsRow ==
  ASSUME NEW u \in Row
  PROVE  Deleted(u) \in Row
  <1>1. u.version + 1 \in Nat \ {0}
    BY DEF Row
  <1> QED BY <1>1 DEF Deleted, Row

\* restore_user makes a row of a row.
LEMMA RestoredIsRow ==
  ASSUME NEW u \in Row
  PROVE  Restored(u) \in Row
  <1>1. u.version + 1 \in Nat \ {0}
    BY DEF Row
  <1> QED BY <1>1 DEF Restored, Row

\* So does the UPDATE that writes the changed columns.
LEMMA WrittenIsRow ==
  ASSUME NEW row \in Row, NEW old \in Row, NEW new \in Row
  PROVE  Written(row, old, new) \in Row
  BY DEF Written, Net, Row

-----------------------------------------------------------------------------
(* Types.                                                                  *)

\* Closing a session keeps the types of what the session does not hold.
LEMMA CloseTyped ==
  ASSUME TypeOK, NEW r \in Req, NEW outcome \in {"done", "failed", "dropped"},
         Close(r, outcome), users' \in [Ids -> Row], trail' \in Seq(Entry)
  PROVE  TypeOK'
  <1>1. lock' \in [Ids -> Req \cup {None}]
    BY DEF TypeOK, Close
  <1>2. /\ pc' \in [Req -> Running \cup {"new", "done", "failed", "dropped"}]
        /\ job' \in [Req -> Job \cup {None}]
        /\ base' \in [Req -> Row \cup {None}]
        /\ mem' \in [Req -> Row \cup {None}]
    BY DEF TypeOK, Close
  <1>3. ASSUME NEW q \in Req
        PROVE  /\ Open(q)' => job'[q] \in Job /\ base'[q] \in Row
               /\ pc'[q] \in Writing \cup {"loaded"} =>
                    mem'[q] \in Row /\ job'[q].target \in Ids
    <2>1. CASE q = r
      BY <2>1 DEF TypeOK, Close, Open, Running, Writing
    <2>2. CASE q # r
      BY <2>2 DEF TypeOK, Close, Open
    <2> QED BY <2>1, <2>2
  <1> QED BY <1>1, <1>2, <1>3 DEF TypeOK

\* The object a handler selects is a row.
LEMMA SelectedIsRow ==
  ASSUME TypeOK, NEW r \in Req, pc[r] = "authorized", job[r].target \in Ids
  PROVE  Selected(r) \in Row
  BY DEF TypeOK, Selected, Open, Running

\* Going on with a changed object keeps the types.
LEMMA KeepTyped ==
  ASSUME TypeOK, NEW r \in Req, pc[r] = "authorized", job[r].target \in Ids,
         NEW u \in Row, Keep(r, u)
  PROVE  TypeOK'
  <1>1. Selected(r) \in Row
    BY SelectedIsRow
  <1>2. /\ pc' \in [Req -> Running \cup {"new", "done", "failed", "dropped"}]
        /\ base' \in [Req -> Row \cup {None}]
        /\ mem' \in [Req -> Row \cup {None}]
    BY <1>1 DEF TypeOK, Keep, Running
  <1>3. ASSUME NEW q \in Req
        PROVE  /\ Open(q)' => job'[q] \in Job /\ base'[q] \in Row
               /\ pc'[q] \in Writing \cup {"loaded"} =>
                    mem'[q] \in Row /\ job'[q].target \in Ids
    <2>1. CASE q = r
      BY <1>1, <2>1 DEF TypeOK, Keep, Open, Running
    <2>2. CASE q # r
      BY <2>2 DEF TypeOK, Keep, Open
    <2> QED BY <2>1, <2>2
  <1> QED BY <1>2, <1>3 DEF TypeOK, Keep

\* The initial state is well typed.
LEMMA InitTyped == Init => TypeOK
  <1> SUFFICES ASSUME Init PROVE TypeOK
    OBVIOUS
  <1>1. users \in [Ids -> Row]
    BY DEF Init, Row
  <1>2. trail \in Seq(Entry)
    BY EmptySeq DEF Init
  <1> QED BY <1>1, <1>2 DEF Init, TypeOK, Open, Running, Writing

\* Every step of every request keeps the types.
LEMMA NextTyped == TypeOK /\ [Next]_vars => TypeOK'
  <1> SUFFICES ASSUME TypeOK, [Next]_vars PROVE TypeOK'
    OBVIOUS
  <1>0. CASE UNCHANGED vars
    BY <1>0 DEF vars, TypeOK, Open
  <1>1. ASSUME NEW r \in Req, Authenticate(r) PROVE TypeOK'
    <2>1. PICK j \in Job :
            LET me == users[j.actor] IN
            IF ~me.deleted /\ me.active /\ me.role = Admin
              THEN /\ pc' = [pc EXCEPT ![r] = "authorized"]
                   /\ job' = [job EXCEPT ![r] = j]
                   /\ base' = [base EXCEPT ![r] = me]
                   /\ UNCHANGED <<users, trail, lock, mem>>
              ELSE Reject(r)
      BY <1>1, Zenon DEF Authenticate
    <2>2. CASE Reject(r)
      BY <2>2, CloseTyped DEF Reject, TypeOK
    <2>3. CASE ~Reject(r)
      <3>1. /\ pc' = [pc EXCEPT ![r] = "authorized"]
            /\ job' = [job EXCEPT ![r] = j]
            /\ base' = [base EXCEPT ![r] = users[j.actor]]
            /\ UNCHANGED <<users, trail, lock, mem>>
        BY <2>1, <2>3, Zenon
      <3>2. users[j.actor] \in Row
        BY JobFields DEF TypeOK
      <3>3. ASSUME NEW q \in Req
            PROVE  /\ Open(q)' => job'[q] \in Job /\ base'[q] \in Row
                   /\ pc'[q] \in Writing \cup {"loaded"} =>
                        mem'[q] \in Row /\ job'[q].target \in Ids
        <4>1. CASE q = r
          BY <3>1, <3>2, <4>1 DEF TypeOK, Writing
        <4>2. CASE q # r
          BY <3>1, <4>2 DEF TypeOK, Open
        <4> QED BY <4>1, <4>2
      <3> QED BY <3>1, <3>2, <3>3 DEF TypeOK, Running
    <2> QED BY <2>2, <2>3
  <1>2. ASSUME NEW r \in Req, Update(r) PROVE TypeOK'
    <2>1. CASE Reject(r)
      BY <2>1, CloseTyped DEF Reject, TypeOK
    <2>2. CASE ~Reject(r)
      <3>1. /\ pc[r] = "authorized" /\ job[r].target \in Ids
            /\ job[r].op = "user.updated"
            /\ Keep(r, Patched(Selected(r), job[r].patch))
        BY <1>2, <2>2 DEF Update
      <3>2. job[r].patch \in Patches
        BY <3>1, JobFields DEF TypeOK, Open, Running
      <3>3. Patched(Selected(r), job[r].patch) \in Row
        BY <3>1, <3>2, SelectedIsRow, PatchedIsRow
      <3> QED BY <3>1, <3>3, KeepTyped
    <2> QED BY <2>1, <2>2
  <1>3. ASSUME NEW r \in Req, Delete(r) PROVE TypeOK'
    <2>1. CASE Reject(r)
      BY <2>1, CloseTyped DEF Reject, TypeOK
    <2>2. CASE Close(r, "done") /\ UNCHANGED <<users, trail>>
      BY <2>2, CloseTyped DEF TypeOK
    <2>3. CASE /\ job[r].target \in Ids
               /\ Keep(r, Deleted(Selected(r)))
      <3>1. pc[r] = "authorized"
        BY <1>3 DEF Delete
      <3>2. Selected(r) \in Row
        BY <2>3, <3>1, SelectedIsRow
      <3>3. Deleted(Selected(r)) \in Row
        BY <3>2, DeletedIsRow
      <3> QED BY <2>3, <3>1, <3>3, KeepTyped
    <2> QED BY <1>3, <2>1, <2>2, <2>3 DEF Delete
  <1>4. ASSUME NEW r \in Req, Restore(r) PROVE TypeOK'
    <2>1. CASE Reject(r)
      BY <2>1, CloseTyped DEF Reject, TypeOK
    <2>2. CASE /\ job[r].target \in Ids
               /\ Keep(r, Restored(Selected(r)))
      <3>1. pc[r] = "authorized"
        BY <1>4 DEF Restore
      <3>2. Selected(r) \in Row
        BY <2>2, <3>1, SelectedIsRow
      <3>3. Restored(Selected(r)) \in Row
        BY <3>2, RestoredIsRow
      <3> QED BY <2>2, <3>1, <3>3, KeepTyped
    <2> QED BY <1>4, <2>1, <2>2 DEF Restore
  <1>5. ASSUME NEW r \in Req, Flush(r) PROVE TypeOK'
    <2>1. /\ base[r] \in Row /\ mem[r] \in Row
          /\ job[r].target \in Ids /\ users[job[r].target] \in Row
      BY <1>5 DEF TypeOK, Flush, Open, Running
    <2>2. Written(users[job[r].target], base[r], mem[r]) \in Row
      BY <2>1, WrittenIsRow
    <2>3. ASSUME NEW q \in Req
          PROVE  /\ Open(q)' => job'[q] \in Job /\ base'[q] \in Row
                 /\ pc'[q] \in Writing \cup {"loaded"} =>
                      mem'[q] \in Row /\ job'[q].target \in Ids
      <3>1. CASE q = r
        BY <1>5, <2>1, <2>2, <3>1 DEF TypeOK, Flush, Open, Running
      <3>2. CASE q # r
        BY <1>5, <3>2 DEF TypeOK, Flush, Open
      <3> QED BY <3>1, <3>2
    <2> QED BY <1>5, <2>1, <2>2, <2>3 DEF TypeOK, Flush, Running, Writing
  <1>6. ASSUME NEW r \in Req, Respond(r) PROVE TypeOK'
    BY <1>6 DEF TypeOK, Respond, Open, Running, Writing
  <1>7. ASSUME NEW r \in Req, Commit(r) PROVE TypeOK'
    <2>1. /\ mem[r] \in Row /\ job[r] \in Job /\ job[r].target \in Ids
      BY <1>7 DEF TypeOK, Commit, Open, Running, Writing
    <2>2. [target |-> job[r].target, action |-> job[r].op] \in Entry
      BY <2>1, JobFields DEF Entry
    <2>3. users' \in [Ids -> Row] /\ trail' \in Seq(Entry)
      BY <1>7, <2>1, <2>2, AppendProperties DEF TypeOK, Commit
    <2> QED BY <1>7, <2>3, CloseTyped DEF Commit
  <1>8. ASSUME NEW r \in Req, Abort(r) PROVE TypeOK'
    BY <1>8, CloseTyped DEF Abort, TypeOK
  <1> QED BY <1>0, <1>1, <1>2, <1>3, <1>4, <1>5, <1>6, <1>7, <1>8
          DEF Next, Step

\* The variables always have their types.
THEOREM TypeCorrect == Spec => []TypeOK
  BY InitTyped, NextTyped, PTL DEF Spec
-----------------------------------------------------------------------------
(* Row locks.                                                              *)

\* A row is locked by a request that flushed a change of it and has not yet
\* committed, and every such request has the lock.
LockInv ==
  /\ \A i \in Ids : lock[i] # None =>
                     pc[lock[i]] \in Writing /\ job[lock[i]].target = i
  /\ \A r \in Req : pc[r] \in Writing => lock[job[r].target] = r

\* At first nobody holds a row lock.
LEMMA InitLock == Init => LockInv
  BY DEF Init, LockInv, Writing

\* Closing a session gives its lock back and takes nobody else's.
LEMMA CloseLock ==
  ASSUME TypeOK, LockInv, NEW r \in Req,
         NEW outcome \in {"done", "failed", "dropped"}, Close(r, outcome)
  PROVE  LockInv'
  <1>1. ASSUME NEW i \in Ids, lock'[i] # None
        PROVE  pc'[lock'[i]] \in Writing /\ job'[lock'[i]].target = i
    <2>1. lock[i] # r /\ lock'[i] = lock[i] /\ lock[i] \in Req
      BY <1>1 DEF Close, TypeOK
    <2> QED BY <1>1, <2>1 DEF Close, TypeOK, LockInv
  <1>2. ASSUME NEW q \in Req, pc'[q] \in Writing
        PROVE  lock'[job'[q].target] = q
    <2>1. q # r
      BY <1>2 DEF Close, TypeOK, Writing
    <2>2. pc[q] \in Writing /\ job'[q] = job[q]
      BY <1>2, <2>1 DEF Close, TypeOK
    <2> QED BY <2>1, <2>2 DEF Close, TypeOK, LockInv
  <1> QED BY <1>1, <1>2 DEF LockInv

\* A row is locked by whoever flushed an UPDATE of it and has not closed its
\* session, in every step.
LEMMA NextLock == TypeOK /\ LockInv /\ [Next]_vars => LockInv'
  <1> SUFFICES ASSUME TypeOK, LockInv, [Next]_vars PROVE LockInv'
    OBVIOUS
  <1>0. CASE UNCHANGED vars
    BY <1>0 DEF vars, LockInv
  <1>1. ASSUME NEW r \in Req, Close(r, "done") \/ Close(r, "failed")
                              \/ Close(r, "dropped")
        PROVE  LockInv'
    BY <1>1, CloseLock
  <1>2. ASSUME NEW r \in Req, pc[r] \in {"new", "authorized"},
               UNCHANGED lock,
               \/ /\ pc' = [pc EXCEPT ![r] = "authorized"]
                  /\ \E j \in Job : job' = [job EXCEPT ![r] = j]
               \/ /\ pc' = [pc EXCEPT ![r] = "loaded"]
                  /\ UNCHANGED job
        PROVE  LockInv'
    <2>1. r \notin {lock[i] : i \in Ids}
      BY <1>2, NoneAssumption DEF LockInv, Writing
    <2>2. \A q \in Req : q # r => pc'[q] = pc[q] /\ job'[q] = job[q]
      BY <1>2 DEF TypeOK
    <2>3. pc'[r] \notin Writing
      BY <1>2 DEF TypeOK, Writing
    <2> QED BY <1>2, <2>1, <2>2, <2>3 DEF LockInv, TypeOK
  <1>3. ASSUME NEW r \in Req, Authenticate(r) PROVE LockInv'
    BY <1>1, <1>2, <1>3, Zenon DEF Authenticate, Reject
  <1>4. ASSUME NEW r \in Req, Update(r) \/ Delete(r) \/ Restore(r)
        PROVE  LockInv'
    BY <1>1, <1>2, <1>4 DEF Update, Delete, Restore, Reject, Keep
  <1>5. ASSUME NEW r \in Req, Flush(r) PROVE LockInv'
    <2>1. /\ pc[r] = "loaded" /\ job[r].target \in Ids
          /\ lock[job[r].target] = None
          /\ lock' = [lock EXCEPT ![job[r].target] = r]
          /\ pc' = [pc EXCEPT ![r] = "flushed"]
          /\ UNCHANGED job
      BY <1>5 DEF Flush, TypeOK
    <2>2. ASSUME NEW i \in Ids, lock'[i] # None
          PROVE  pc'[lock'[i]] \in Writing /\ job'[lock'[i]].target = i
      BY <2>1, <2>2 DEF TypeOK, LockInv, Writing
    <2>3. ASSUME NEW q \in Req, pc'[q] \in Writing
          PROVE  lock'[job'[q].target] = q
      <3>1. CASE q = r
        BY <2>1, <3>1 DEF TypeOK
      <3>2. CASE q # r
        BY <2>1, <2>3, <3>2, NoneAssumption DEF TypeOK, LockInv
      <3> QED BY <3>1, <3>2
    <2> QED BY <2>2, <2>3 DEF LockInv
  <1>6. ASSUME NEW r \in Req, Respond(r) PROVE LockInv'
    BY <1>6 DEF Respond, LockInv, TypeOK, Writing
  <1>7. ASSUME NEW r \in Req, Commit(r) \/ Abort(r) PROVE LockInv'
    BY <1>1, <1>7 DEF Commit, Abort
  <1> QED BY <1>0, <1>3, <1>4, <1>5, <1>6, <1>7 DEF Next, Step

-----------------------------------------------------------------------------
(* What a request will write.                                              *)

\* Writing new over old does what job j says, to the columns it names only.
Meets(j, old, new) ==
  /\ j.op = "user.deleted" => new.deleted
  /\ j.op = "user.restored" => ~new.deleted
  /\ j.op = "user.updated" =>
       /\ new.deleted = old.deleted
       /\ j.patch.role = Unset => new.role = old.role
       /\ j.patch.active = Unset => new.active = old.active

\* The object in memory meets the job against the row that was loaded; once
\* the row lock is held it meets it against the row as committed, whatever
\* was committed in between.
ImageOK(r) ==
  /\ pc[r] = "loaded" =>
       /\ Meets(job[r], base[r], mem[r])
       /\ job[r].op = "user.deleted" => ~base[r].deleted
       /\ job[r].op = "user.restored" => base[r].deleted
  /\ pc[r] \in Writing => Meets(job[r], users[job[r].target], mem[r])

ImageInv == \A r \in Req : ImageOK(r)

\* At first nobody has an object.
LEMMA InitImage == Init => ImageInv
  BY DEF Init, ImageInv, ImageOK, Writing

\* What each handler does to the object it selected meets the job.
LEMMA HandlersMeet ==
  ASSUME NEW u \in Row, NEW j \in Job
  PROVE  /\ j.op = "user.updated" => Meets(j, u, Patched(u, j.patch))
         /\ j.op = "user.deleted" => Meets(j, u, Deleted(u))
         /\ j.op = "user.restored" => Meets(j, u, Restored(u))
  <1>1. ASSUME j.op = "user.updated" PROVE Meets(j, u, Patched(u, j.patch))
    <2>1. /\ Patched(u, j.patch).deleted = u.deleted
          /\ Patched(u, j.patch).role = Given(j.patch.role, u.role)
          /\ Patched(u, j.patch).active = Given(j.patch.active, u.active)
      BY DEF Patched, Row
    <2> QED BY <1>1, <2>1 DEF Meets, Given
  <1>2. ASSUME j.op = "user.deleted" PROVE Meets(j, u, Deleted(u))
    <2>1. Deleted(u).deleted = TRUE
      BY DEF Deleted, Row
    <2> QED BY <1>2, <2>1 DEF Meets
  <1>3. ASSUME j.op = "user.restored" PROVE Meets(j, u, Restored(u))
    <2>1. Restored(u).deleted = FALSE
      BY DEF Restored, Row
    <2> QED BY <1>3, <2>1 DEF Meets
  <1> QED BY <1>1, <1>2, <1>3

\* The UPDATE of the changed columns carries it over to the current row.
LEMMA WrittenMeets ==
  ASSUME NEW j \in Job, NEW row \in Row, NEW old \in Row, NEW new \in Row,
         Meets(j, old, new),
         j.op = "user.deleted" => ~old.deleted,
         j.op = "user.restored" => old.deleted
  PROVE  Meets(j, row, Written(row, old, new))
  BY DEF Meets, Written, Net, Row

\* A step that leaves the rows and the other requests alone leaves their
\* images alone.
LEMMA OthersImage ==
  ASSUME ImageInv, UNCHANGED users,
         NEW q \in Req, pc'[q] = pc[q], job'[q] = job[q],
         base'[q] = base[q], mem'[q] = mem[q]
  PROVE  ImageOK(q)'
  BY DEF ImageInv, ImageOK

\* Closing a session leaves the objects of the others alone.
LEMMA CloseImage ==
  ASSUME TypeOK, ImageInv, NEW r \in Req,
         NEW outcome \in {"done", "failed", "dropped"}, Close(r, outcome),
         UNCHANGED users
  PROVE  ImageInv'
  <1>1. pc'[r] \notin Writing \cup {"loaded"}
    BY DEF Close, TypeOK, Writing
  <1>2. \A q \in Req : q # r => /\ pc'[q] = pc[q] /\ job'[q] = job[q]
                               /\ base'[q] = base[q] /\ mem'[q] = mem[q]
    BY DEF Close, TypeOK
  <1>3. ImageOK(r)'
    BY <1>1 DEF ImageOK
  <1> QED BY <1>2, <1>3, OthersImage DEF ImageInv

\* A handler keeps an object that meets what its request asks for.
LEMMA KeepImage ==
  ASSUME TypeOK, ImageInv, NEW r \in Req, NEW u, Keep(r, u),
         Meets(job[r], Selected(r), u),
         job[r].op = "user.deleted" => ~Selected(r).deleted,
         job[r].op = "user.restored" => Selected(r).deleted
  PROVE  ImageInv'
  <1>1. /\ pc'[r] = "loaded" /\ job'[r] = job[r]
        /\ base'[r] = Selected(r) /\ mem'[r] = u
    BY DEF Keep, TypeOK
  <1>2. \A q \in Req : q # r => /\ pc'[q] = pc[q] /\ job'[q] = job[q]
                               /\ base'[q] = base[q] /\ mem'[q] = mem[q]
    BY DEF Keep, TypeOK
  <1>3. UNCHANGED users
    BY DEF Keep
  <1>4. \A q \in Req : q # r => ImageOK(q)'
    BY <1>2, <1>3, OthersImage
  <1>5. ImageOK(r)'
    BY <1>1 DEF ImageOK, Writing
  <1> QED BY <1>4, <1>5 DEF ImageInv

\* What a request will commit meets what it asks for, in every step: an
\* UPDATE is computed from the row under its lock.
LEMMA NextImage ==
  TypeOK /\ LockInv /\ ImageInv /\ [Next]_vars => ImageInv'
  <1> SUFFICES ASSUME TypeOK, LockInv, ImageInv, [Next]_vars PROVE ImageInv'
    OBVIOUS
  <1>0. CASE UNCHANGED vars
    BY <1>0 DEF vars, ImageInv, ImageOK
  <1>1. ASSUME NEW r \in Req, Reject(r) PROVE ImageInv'
    BY <1>1, CloseImage DEF Reject
  <1>2. ASSUME NEW r \in Req, Authenticate(r), ~Reject(r) PROVE ImageInv'
    <2>1. \E j \in Job : /\ pc' = [pc EXCEPT ![r] = "authorized"]
                        /\ job' = [job EXCEPT ![r] = j]
                        /\ base' = [base EXCEPT ![r] = users[j.actor]]
                        /\ UNCHANGED <<users, trail, lock, mem>>
      BY <1>2, Zenon DEF Authenticate
    <2>2. \A q \in Req : q # r => /\ pc'[q] = pc[q] /\ job'[q] = job[q]
                                 /\ base'[q] = base[q] /\ mem'[q] = mem[q]
      BY <2>1 DEF TypeOK
    <2>3. ImageOK(r)'
      BY <2>1 DEF TypeOK, ImageOK, Writing
    <2> QED BY <2>1, <2>2, <2>3, OthersImage DEF ImageInv
  <1>3. ASSUME NEW r \in Req, Update(r), ~Reject(r) PROVE ImageInv'
    <2>1. /\ pc[r] = "authorized" /\ job[r].target \in Ids
          /\ job[r].op = "user.updated"
          /\ Keep(r, Patched(Selected(r), job[r].patch))
      BY <1>3 DEF Update
    <2>2. job[r] \in Job
      BY <2>1 DEF TypeOK, Open, Running
    <2>3. Meets(job[r], Selected(r), Patched(Selected(r), job[r].patch))
      BY <2>1, <2>2, SelectedIsRow, HandlersMeet
    <2> QED BY <2>1, <2>3, KeepImage
  <1>4. ASSUME NEW r \in Req, Delete(r), ~Reject(r) PROVE ImageInv'
    <2>1. CASE Close(r, "done") /\ UNCHANGED <<users, trail>>
      BY <2>1, CloseImage
    <2>2. CASE ~(Close(r, "done") /\ UNCHANGED <<users, trail>>)
      <3>1. /\ pc[r] = "authorized" /\ job[r].target \in Ids
            /\ job[r].op = "user.deleted" /\ ~Selected(r).deleted
            /\ Keep(r, Deleted(Selected(r)))
        BY <1>4, <2>2 DEF Delete
      <3>2. job[r] \in Job
        BY <3>1 DEF TypeOK, Open, Running
      <3>3. Meets(job[r], Selected(r), Deleted(Selected(r)))
        BY <3>1, <3>2, SelectedIsRow, HandlersMeet
      <3> QED BY <3>1, <3>3, KeepImage
    <2> QED BY <2>1, <2>2
  <1>5. ASSUME NEW r \in Req, Restore(r), ~Reject(r) PROVE ImageInv'
    <2>1. /\ pc[r] = "authorized" /\ job[r].target \in Ids
          /\ job[r].op = "user.restored" /\ Selected(r).deleted
          /\ Keep(r, Restored(Selected(r)))
      BY <1>5 DEF Restore
    <2>2. job[r] \in Job
      BY <2>1 DEF TypeOK, Open, Running
    <2>3. Meets(job[r], Selected(r), Restored(Selected(r)))
      BY <2>1, <2>2, SelectedIsRow, HandlersMeet
    <2> QED BY <2>1, <2>3, KeepImage
  <1>6. ASSUME NEW r \in Req, Flush(r) PROVE ImageInv'
    <2> DEFINE t == job[r].target
    <2>1. /\ pc'[r] = "flushed" /\ job'[r] = job[r] /\ UNCHANGED users
          /\ mem'[r] = Written(users[t], base[r], mem[r])
      BY <1>6 DEF Flush, TypeOK
    <2>2. /\ base[r] \in Row /\ mem[r] \in Row /\ job[r] \in Job
          /\ users[t] \in Row
      BY <1>6 DEF TypeOK, Flush, Open, Running
    <2>3. Meets(job[r], users[t], Written(users[t], base[r], mem[r]))
      BY <1>6, <2>2, WrittenMeets DEF ImageInv, ImageOK, Flush
    <2>4. ImageOK(r)'
      BY <2>1, <2>3 DEF ImageOK
    <2>5. \A q \in Req : q # r => /\ pc'[q] = pc[q] /\ job'[q] = job[q]
                                 /\ base'[q] = base[q] /\ mem'[q] = mem[q]
      BY <1>6 DEF Flush, TypeOK
    <2> QED BY <2>1, <2>4, <2>5, OthersImage DEF ImageInv
  <1>7. ASSUME NEW r \in Req, Respond(r) PROVE ImageInv'
    BY <1>7 DEF Respond, ImageInv, ImageOK, TypeOK, Writing
  <1>8. ASSUME NEW r \in Req, Commit(r) PROVE ImageInv'
    <2>1. ImageOK(r)'
      BY <1>8 DEF Commit, Close, TypeOK, ImageOK, Writing
    <2>2. ASSUME NEW q \in Req, q # r PROVE ImageOK(q)'
      <3>1. /\ pc'[q] = pc[q] /\ job'[q] = job[q]
            /\ base'[q] = base[q] /\ mem'[q] = mem[q]
        BY <1>8, <2>2 DEF Commit, Close, TypeOK
      <3>2. pc[q] \in Writing => job[q].target # job[r].target
        BY <1>8, <2>2 DEF LockInv, Commit, Writing
      <3>3. pc[q] \in Writing => users'[job[q].target] = users[job[q].target]
        BY <1>8, <3>2 DEF Commit, TypeOK
      <3> QED BY <3>1, <3>3 DEF ImageInv, ImageOK
    <2> QED BY <2>1, <2>2 DEF ImageInv
  <1>9. ASSUME NEW r \in Req, Abort(r) PROVE ImageInv'
    BY <1>9, CloseImage DEF Abort
  <1> QED BY <1>0, <1>1, <1>2, <1>3, <1>4, <1>5, <1>6, <1>7, <1>8, <1>9
          DEF Next, Step

-----------------------------------------------------------------------------
(* The audit trail.                                                        *)

\* Only a commit touches the rows or the trail, and it adds one true entry.
Committing(r) ==
  LET t == job[r].target IN
  /\ pc[r] = "answered"
  /\ job[r] \in Job /\ t \in Ids /\ mem[r] \in Row
  /\ users' = [users EXCEPT ![t] = mem[r]]
  /\ trail' = Append(trail, [target |-> t, action |-> job[r].op])
  /\ Meets(job[r], users[t], users'[t])

\* A commit replaces one row by an image that meets the request, and adds the
\* entry about it.
LEMMA CommitIsCommitting ==
  ASSUME TypeOK, ImageInv, NEW r \in Req, Commit(r)
  PROVE  Committing(r)
  <1>1. /\ job[r] \in Job /\ job[r].target \in Ids /\ mem[r] \in Row
    BY DEF TypeOK, Commit, Open, Running, Writing
  <1>2. users'[job[r].target] = mem[r]
    BY <1>1 DEF Commit, TypeOK
  <1>3. Meets(job[r], users[job[r].target], mem[r])
    BY DEF ImageInv, ImageOK, Commit, Writing
  <1> QED BY <1>1, <1>2, <1>3 DEF Commit, Committing

\* Nothing but a commit changes what other transactions see.
LEMMA OnlyCommitsWrite ==
  ASSUME TypeOK, ImageInv, [Next]_vars
  PROVE  UNCHANGED <<users, trail>> \/ \E r \in Req : Commit(r) /\ Committing(r)
  <1>1. ASSUME NEW r \in Req, Commit(r) PROVE Committing(r)
    BY <1>1, CommitIsCommitting
  <1>2. ASSUME NEW r \in Req, Authenticate(r) PROVE UNCHANGED <<users, trail>>
    BY <1>2, Zenon DEF Authenticate, Reject
  <1>3. ASSUME NEW r \in Req,
               \/ Update(r) \/ Delete(r) \/ Restore(r)
               \/ Flush(r) \/ Respond(r) \/ Abort(r)
        PROVE  UNCHANGED <<users, trail>>
    BY <1>3 DEF Update, Delete, Restore, Flush, Respond, Abort, Reject, Keep
  <1> QED BY <1>1, <1>2, <1>3 DEF Next, Step, vars

\* The entry of a commit is the last one about its row, and it is true.
LEMMA CommitTrail ==
  ASSUME TypeOK, DeletedMatchesTrail, NEW r \in Req, Committing(r)
  PROVE  DeletedMatchesTrail'
  <1> DEFINE t == job[r].target
             e == [target |-> t, action |-> job[r].op]
  <1>1. /\ e \in Entry /\ t \in Ids /\ trail' = Append(trail, e)
        /\ users' = [users EXCEPT ![t] = users'[t]]
        /\ Meets(job[r], users[t], users'[t])
    BY JobFields DEF Committing, Entry, TypeOK
  <1>2. /\ Len(trail') = Len(trail) + 1 /\ Len(trail) \in Nat
        /\ \A i \in 1..Len(trail) : trail'[i] = trail[i]
        /\ trail'[Len(trail) + 1] = e
    BY <1>1, AppendProperties, LenProperties DEF TypeOK
  <1> SUFFICES ASSUME NEW i \in 1..Len(trail'), LastWord(i)'
               PROVE  users'[trail'[i].target].deleted
                        = (trail'[i].action = "user.deleted")
    BY DEF DeletedMatchesTrail
  <1>3. CASE i = Len(trail) + 1
    <2>1. trail'[i] = e /\ job[r].op \in Lifecycle
      BY <1>2, <1>3 DEF LastWord
    <2>2. users'[t] = mem[r] /\ users'[t].deleted \in BOOLEAN
      BY <1>1 DEF Committing, TypeOK, Row
    <2>3. CASE job[r].op = "user.deleted"
      BY <1>1, <2>1, <2>2, <2>3 DEF Meets
    <2>4. CASE job[r].op = "user.restored"
      BY <1>1, <2>1, <2>2, <2>4 DEF Meets
    <2> QED BY <2>1, <2>3, <2>4 DEF Lifecycle
  <1>4. CASE i \in 1..Len(trail)
    <2>1. trail'[i] = trail[i] /\ trail[i] \in Entry
      BY <1>2, <1>4, ElementOfSeq DEF TypeOK
    <2>2. LastWord(i)
      <3>1. \A k \in (i + 1)..Len(trail) :
              k \in (i + 1)..Len(trail') /\ trail'[k] = trail[k]
        BY <1>2, <1>4
      <3> QED BY <2>1, <3>1 DEF LastWord
    <2>3. users[trail[i].target].deleted = (trail[i].action = "user.deleted")
      BY <1>4, <2>2 DEF DeletedMatchesTrail
    <2>4. CASE trail[i].target = t
      <3>1. Len(trail) + 1 \in (i + 1)..Len(trail')
        BY <1>2, <1>4
      <3>2. job[r].op \notin Lifecycle
        BY <1>2, <2>1, <2>4, <3>1 DEF LastWord
      <3>3. users'[t].deleted = users[t].deleted
        BY <1>1, <3>2, JobFields DEF Committing, Meets, Lifecycle
      <3> QED BY <2>1, <2>3, <2>4, <3>3
    <2>5. CASE trail[i].target # t
      BY <1>1, <2>1, <2>3, <2>5 DEF TypeOK, Entry
    <2> QED BY <2>4, <2>5
  <1> QED BY <1>2, <1>3, <1>4

-----------------------------------------------------------------------------
(* Versions.                                                               *)

\* The version a request loaded, or will write, is bounded by the entries
\* there were when it loaded the row; entries are only ever added.
VersionInv ==
  /\ VersionBoundedByTrail
  /\ \A r \in Req :
       /\ pc[r] = "authorized" => base[r].version <= 1 + Changes[job[r].actor]
       /\ pc[r] \in Writing \cup {"loaded"} =>
            mem[r].version <= 2 + Changes[job[r].target]

\* At first the versions are 1 and the trail is empty.
LEMMA InitVersion == Init => VersionInv
  <1> SUFFICES ASSUME Init PROVE VersionInv
    OBVIOUS
  <1>1. ASSUME NEW u \in Ids PROVE Changes[u] = 0
    <2>1. {i \in 1..Len(trail) : trail[i].target = u} = {}
      BY DEF Init
    <2> QED BY <2>1, FS_EmptySet DEF Changes
  <1>2. \A u \in Ids : users[u].version = 1
    BY DEF Init
  <1> QED BY <1>1, <1>2 DEF Init, VersionInv, VersionBoundedByTrail, Writing

\* There are finitely many entries about each user.
LEMMA ChangesCount ==
  ASSUME TypeOK
  PROVE  /\ Changes \in [Ids -> Nat]
         /\ \A u \in Ids :
              IsFiniteSet({i \in 1..Len(trail) : trail[i].target = u})
  <1>1. IsFiniteSet(1..Len(trail))
    BY LenProperties, FS_Interval DEF TypeOK
  <1>2. ASSUME NEW u \in Ids
        PROVE  IsFiniteSet({i \in 1..Len(trail) : trail[i].target = u})
    <2>1. {i \in 1..Len(trail) : trail[i].target = u} \subseteq 1..Len(trail)
      OBVIOUS
    <2> QED BY <1>1, <2>1, FS_Subset
  <1> QED BY <1>2, FS_CardinalityType DEF Changes

\* The entries are counted on the trail alone.
LEMMA ChangesUnchanged == UNCHANGED trail => UNCHANGED Changes
  BY DEF Changes

\* A commit adds one entry about its target and none about anyone else.
LEMMA CommitCounts ==
  ASSUME TypeOK, NEW r \in Req, Committing(r)
  PROVE  Changes' = [Changes EXCEPT ![job[r].target] = @ + 1]
  <1> DEFINE t == job[r].target
             e == [target |-> t, action |-> job[r].op]
             About(u) == {i \in 1..Len(trail) : trail[i].target = u}
  <1>1. e \in Entry /\ trail' = Append(trail, e)
    BY JobFields DEF Committing, Entry
  <1>2. /\ Len(trail') = Len(trail) + 1 /\ Len(trail) \in Nat
        /\ \A i \in 1..Len(trail) : trail'[i] = trail[i]
        /\ trail'[Len(trail) + 1].target = t
    BY <1>1, AppendProperties, LenProperties DEF TypeOK
  <1>3. ASSUME NEW u \in Ids
        PROVE  Changes'[u] = Changes[u] + IF u = t THEN 1 ELSE 0
    <2> DEFINE After == {i \in 1..Len(trail') : trail'[i].target = u}
    <2>1. Changes'[u] = Cardinality(After) /\ Changes[u] = Cardinality(About(u))
      BY DEF Changes
    <2>2. IsFiniteSet(About(u)) /\ Changes[u] \in Nat
      BY ChangesCount
    <2>3. CASE u = t
      <3>1. After = About(u) \cup {Len(trail) + 1}
        BY <1>2, <2>3
      <3>2. Len(trail) + 1 \notin About(u)
        BY <1>2
      <3> HIDE DEF About, After
      <3>3. Cardinality(After) = Cardinality(About(u)) + 1
        BY <2>2, <3>1, <3>2, FS_AddElement
      <3> QED BY <2>1, <2>3, <3>3
    <2>4. CASE u # t
      <3>1. After = About(u)
        BY <1>2, <2>4
      <3> HIDE DEF About, After
      <3> QED BY <2>1, <2>2, <2>4, <3>1
    <2> QED BY <2>3, <2>4
  <1>4. Changes' = [u \in Ids |-> Changes'[u]]
    BY DEF Changes
  <1>5. Changes \in [Ids -> Nat] /\ t \in Ids
    BY ChangesCount DEF Committing
  <1> QED BY <1>3, <1>4, <1>5

\* The three handlers bump the version of the object they selected by one.
LEMMA HandlersBump ==
  ASSUME NEW u \in Row, NEW patch
  PROVE  /\ Patched(u, patch).version = u.version + 1
         /\ Deleted(u).version = u.version + 1
         /\ Restored(u).version = u.version + 1
         /\ u.version \in Nat
  BY DEF Patched, Deleted, Restored, Row

\* A session that closes without a commit leaves the bounds on versions alone.
LEMMA CloseVersion ==
  ASSUME TypeOK, VersionInv, NEW r \in Req,
         NEW outcome \in {"done", "failed", "dropped"}, Close(r, outcome),
         UNCHANGED <<users, trail>>
  PROVE  VersionInv'
  <1>1. pc'[r] \notin Writing \cup {"loaded", "authorized"}
    BY DEF Close, TypeOK, Writing
  <1>2. \A q \in Req : q # r => /\ pc'[q] = pc[q] /\ job'[q] = job[q]
                               /\ base'[q] = base[q] /\ mem'[q] = mem[q]
    BY DEF Close, TypeOK
  <1> QED BY <1>1, <1>2, ChangesUnchanged DEF VersionInv, VersionBoundedByTrail

\* An object that is one version ahead of a bounded row is bounded as well.
LEMMA KeepVersion ==
  ASSUME TypeOK, VersionInv, NEW r \in Req, NEW u \in Row,
         pc[r] = "authorized", job[r].target \in Ids,
         u.version = Selected(r).version + 1, Keep(r, u)
  PROVE  VersionInv'
  <1>1. /\ Selected(r) \in Row
        /\ Selected(r).version <= 1 + Changes[job[r].target]
    BY SelectedIsRow DEF VersionInv, VersionBoundedByTrail, Selected
  <1>2. Selected(r).version \in Nat /\ Changes[job[r].target] \in Nat
    BY <1>1, ChangesCount DEF Row
  <1>3. u.version <= 2 + Changes[job[r].target]
    BY <1>1, <1>2
  <1>4. /\ pc'[r] = "loaded" /\ job'[r] = job[r] /\ mem'[r] = u
        /\ UNCHANGED <<users, trail>>
    BY DEF Keep, TypeOK
  <1>5. \A q \in Req : q # r => /\ pc'[q] = pc[q] /\ job'[q] = job[q]
                               /\ base'[q] = base[q] /\ mem'[q] = mem[q]
    BY DEF Keep, TypeOK
  <1> QED BY <1>3, <1>4, <1>5, ChangesUnchanged DEF VersionInv, VersionBoundedByTrail

\* No row and no object in memory runs ahead of the trail, in every step.
LEMMA NextVersion ==
  TypeOK /\ LockInv /\ ImageInv /\ VersionInv /\ [Next]_vars => VersionInv'
  <1> SUFFICES ASSUME TypeOK, LockInv, ImageInv, VersionInv, [Next]_vars
               PROVE  VersionInv'
    OBVIOUS
  <1>0. CASE UNCHANGED vars
    BY <1>0, ChangesUnchanged DEF vars, VersionInv, VersionBoundedByTrail
  <1>1. ASSUME NEW r \in Req, Reject(r) PROVE VersionInv'
    BY <1>1, CloseVersion DEF Reject
  <1>2. ASSUME NEW r \in Req, Authenticate(r), ~Reject(r) PROVE VersionInv'
    <2>1. PICK j \in Job : /\ pc' = [pc EXCEPT ![r] = "authorized"]
                           /\ job' = [job EXCEPT ![r] = j]
                           /\ base' = [base EXCEPT ![r] = users[j.actor]]
                           /\ UNCHANGED <<users, trail, lock, mem>>
      BY <1>2, Zenon DEF Authenticate
    <2>2. \A q \in Req : q # r => /\ pc'[q] = pc[q] /\ job'[q] = job[q]
                                 /\ base'[q] = base[q] /\ mem'[q] = mem[q]
      BY <2>1 DEF TypeOK
    <2>3. pc'[r] = "authorized" /\ job'[r] = j /\ base'[r] = users[j.actor]
      BY <2>1 DEF TypeOK
    <2>4. users[j.actor].version <= 1 + Changes[j.actor]
      BY JobFields DEF VersionInv, VersionBoundedByTrail
    <2> QED BY <2>1, <2>2, <2>3, <2>4, ChangesUnchanged
            DEF VersionInv, VersionBoundedByTrail, Writing
  <1>3. ASSUME NEW r \in Req, Update(r), ~Reject(r) PROVE VersionInv'
    <2>1. /\ pc[r] = "authorized" /\ job[r].target \in Ids
          /\ job[r].op = "user.updated"
          /\ Keep(r, Patched(Selected(r), job[r].patch))
      BY <1>3 DEF Update
    <2>2. job[r].patch \in Patches
      BY <2>1, JobFields DEF TypeOK, Open, Running
    <2>3. Patched(Selected(r), job[r].patch) \in Row
      BY <2>1, <2>2, SelectedIsRow, PatchedIsRow
    <2> QED BY <2>1, <2>3, SelectedIsRow, HandlersBump, KeepVersion
  <1>4. ASSUME NEW r \in Req, Delete(r), ~Reject(r) PROVE VersionInv'
    <2>1. CASE Close(r, "done") /\ UNCHANGED <<users, trail>>
      BY <2>1, CloseVersion
    <2>2. CASE ~(Close(r, "done") /\ UNCHANGED <<users, trail>>)
      <3>1. /\ pc[r] = "authorized" /\ job[r].target \in Ids
            /\ Keep(r, Deleted(Selected(r)))
        BY <1>4, <2>2 DEF Delete
      <3> QED BY <3>1, SelectedIsRow, DeletedIsRow, HandlersBump, KeepVersion
    <2> QED BY <2>1, <2>2
  <1>5. ASSUME NEW r \in Req, Restore(r), ~Reject(r) PROVE VersionInv'
    <2>1. /\ pc[r] = "authorized" /\ job[r].target \in Ids
          /\ Keep(r, Restored(Selected(r)))
      BY <1>5 DEF Restore
    <2> QED BY <2>1, SelectedIsRow, RestoredIsRow, HandlersBump, KeepVersion
  <1>6. ASSUME NEW r \in Req, Flush(r) PROVE VersionInv'
    <2> DEFINE t == job[r].target
               w == Written(users[t], base[r], mem[r])
    <2>1. /\ pc[r] = "loaded" /\ pc'[r] = "flushed" /\ job'[r] = job[r]
          /\ mem'[r] = w /\ UNCHANGED <<users, trail>>
      BY <1>6 DEF Flush, TypeOK
    <2>2. t \in Ids /\ users[t].version \in Nat
          /\ Changes[t] \in Nat
      BY <1>6, ChangesCount DEF TypeOK, Flush, Row
    <2>3. w.version \in {mem[r].version, users[t].version}
      BY DEF Written, Net
    <2>4. /\ mem[r].version <= 2 + Changes[t]
          /\ users[t].version <= 1 + Changes[t]
      BY <2>1, <2>2 DEF VersionInv, VersionBoundedByTrail
    <2>5. w.version <= 2 + Changes[t]
      BY <2>2, <2>3, <2>4
    <2>6. \A q \in Req : q # r => /\ pc'[q] = pc[q] /\ job'[q] = job[q]
                                 /\ base'[q] = base[q] /\ mem'[q] = mem[q]
      BY <1>6 DEF Flush, TypeOK
    <2> QED BY <2>1, <2>5, <2>6, ChangesUnchanged
            DEF VersionInv, VersionBoundedByTrail
  <1>7. ASSUME NEW r \in Req, Respond(r) PROVE VersionInv'
    BY <1>7, ChangesUnchanged DEF Respond, VersionInv, VersionBoundedByTrail,
                TypeOK, Writing
  <1>8. ASSUME NEW r \in Req, Commit(r), Committing(r) PROVE VersionInv'
    <2> DEFINE t == job[r].target
    <2>1. \A u \in Ids : /\ Changes[u] \in Nat
                         /\ Changes'[u]
                              = Changes[u]
                                + IF u = t THEN 1 ELSE 0
      BY <1>8, ChangesCount, CommitCounts
    <2>2. /\ t \in Ids /\ mem[r] \in Row
          /\ users' = [users EXCEPT ![t] = mem[r]]
          /\ mem[r].version <= 2 + Changes[t]
      BY <1>8 DEF Committing, VersionInv, Writing
    <2>3. ASSUME NEW u \in Ids
          PROVE  users'[u].version <= 1 + Changes'[u]
      <3>1. users[u].version <= 1 + Changes[u]
        BY DEF VersionInv, VersionBoundedByTrail
      <3>2. users[u].version \in Nat /\ mem[r].version \in Nat
        BY <2>2 DEF TypeOK, Row
      <3>3. CASE u = t
        <4>1. users'[u] = mem[r]
          BY <2>2, <3>3 DEF TypeOK
        <4> QED BY <2>1, <2>2, <3>2, <3>3, <4>1
      <3>4. CASE u # t
        <4>1. users'[u] = users[u]
          BY <2>2, <3>4 DEF TypeOK
        <4> QED BY <2>1, <3>1, <3>2, <3>4, <4>1
      <3> QED BY <3>3, <3>4
    <2>4. ASSUME NEW q \in Req
          PROVE  /\ pc'[q] = "authorized" =>
                      base'[q].version <= 1 + Changes'[job'[q].actor]
                 /\ pc'[q] \in Writing \cup {"loaded"} =>
                      mem'[q].version <= 2 + Changes'[job'[q].target]
      <3>1. CASE q = r
        BY <1>8, <3>1 DEF Commit, Close, TypeOK, Writing
      <3>2. CASE q # r
        <4>1. /\ pc'[q] = pc[q] /\ job'[q] = job[q]
              /\ base'[q] = base[q] /\ mem'[q] = mem[q]
          BY <1>8, <3>2 DEF Commit, Close, TypeOK
        <4>2. ASSUME pc[q] = "authorized"
              PROVE  base[q].version <= 1 + Changes'[job[q].actor]
          <5>1. job[q].actor \in Ids /\ base[q].version \in Nat
            BY <4>2, JobFields DEF TypeOK, Open, Running, Row
          <5>2. base[q].version <= 1 + Changes[job[q].actor]
            BY <4>2 DEF VersionInv
          <5> QED BY <2>1, <5>1, <5>2
        <4>3. ASSUME pc[q] \in Writing \cup {"loaded"}
              PROVE  mem[q].version <= 2 + Changes'[job[q].target]
          <5>1. job[q].target \in Ids /\ mem[q].version \in Nat
            BY <4>3 DEF TypeOK, Row
          <5>2. mem[q].version <= 2 + Changes[job[q].target]
            BY <4>3 DEF VersionInv
          <5> QED BY <2>1, <5>1, <5>2
        <4> QED BY <4>1, <4>2, <4>3
      <3> QED BY <3>1, <3>2
    <2> QED BY <2>3, <2>4 DEF VersionInv, VersionBoundedByTrail
  <1>9. ASSUME NEW r \in Req, Abort(r) PROVE VersionInv'
    BY <1>9, CloseVersion DEF Abort
  <1>10. ASSUME NEW r \in Req, Commit(r) PROVE Committing(r)
    BY <1>10, CommitIsCommitting
  <1> QED BY <1>0, <1>1, <1>2, <1>3, <1>4, <1>5, <1>6, <1>7, <1>8, <1>9, <1>10
          DEF Next, Step

-----------------------------------------------------------------------------
(* The theorems.                                                           *)

\* The inductive invariant: types, row locks, what each request will write,
\* and the two facts about the trail.
IInv == TypeOK /\ LockInv /\ ImageInv /\ DeletedMatchesTrail /\ VersionInv

\* The inductive invariant holds in every state.
THEOREM Invariance == Spec => []IInv
  <1>1. Init => IInv
    <2>1. Init => DeletedMatchesTrail
      BY DEF Init, DeletedMatchesTrail
    <2> QED BY <2>1, InitTyped, InitLock, InitImage, InitVersion DEF IInv
  <1>2. IInv /\ [Next]_vars => IInv'
    <2> SUFFICES ASSUME IInv, [Next]_vars PROVE IInv'
      OBVIOUS
    <2>1. TypeOK' /\ LockInv' /\ ImageInv' /\ VersionInv'
      BY NextTyped, NextLock, NextImage, NextVersion DEF IInv
    <2>2. DeletedMatchesTrail'
      <3>1. CASE UNCHANGED <<users, trail>>
        BY <3>1 DEF IInv, DeletedMatchesTrail, LastWord
      <3>2. CASE \E r \in Req : Committing(r)
        BY <3>2, CommitTrail DEF IInv
      <3> QED BY <3>1, <3>2, OnlyCommitsWrite DEF IInv
    <2> QED BY <2>1, <2>2 DEF IInv
  <1> QED BY <1>1, <1>2, PTL DEF Spec

\* However PATCH, DELETE and RESTORE interleave and fail, the deleted flag of
\* every row is the one the last audit entry about it tells.
THEOREM TrailTellsDeleted == Spec => []DeletedMatchesTrail
  BY Invariance, PTL DEF IInv

\* No row ever has a version with fewer audit entries about it than bumps.
THEOREM VersionsAreAudited == Spec => []VersionBoundedByTrail
  BY Invariance, PTL DEF IInv, VersionInv

\* A committed PATCH changes no column its body did not name.
THEOREM PatchesKeepUnsent == Spec => UnsentFieldsKept
  <1>1. IInv /\ [Next]_vars =>
          [\A r \in Req :
             pc[r] = "answered" /\ pc'[r] = "done" /\ job[r].op = "user.updated" =>
               LET t == job[r].target IN
               /\ job[r].patch.role = Unset => users'[t].role = users[t].role
               /\ job[r].patch.active = Unset => users'[t].active = users[t].active
               /\ users'[t].deleted = users[t].deleted]_vars
    <2> SUFFICES ASSUME IInv, [Next]_vars, NEW r \in Req,
                        pc[r] = "answered", pc'[r] = "done",
                        job[r].op = "user.updated"
                 PROVE  Meets(job[r], users[job[r].target], users'[job[r].target])
      BY DEF Meets
    <2>1. \/ UNCHANGED <<users, trail>>
          \/ \E q \in Req : Commit(q) /\ Committing(q)
      BY OnlyCommitsWrite DEF IInv
    <2>2. CASE UNCHANGED <<users, trail>>
      BY <2>2 DEF Meets
    <2>3. ASSUME NEW q \in Req, Commit(q), Committing(q)
          PROVE  Meets(job[r], users[job[r].target], users'[job[r].target])
      <3>1. q = r
        BY <2>3 DEF Commit, Close, IInv, TypeOK
      <3> QED BY <2>3, <3>1 DEF Committing
    <2> QED BY <2>1, <2>2, <2>3
  <1> QED BY <1>1, Invariance, PTL DEF Spec, UnsentFieldsKept

\* The three operations implement the audited table: a row and the trail
\* change together, in one step, and the entry is true.
THEOREM UsersImplementAudited == Spec => AuditedSpec
  <1>1. Init => Audited!Init
    BY InitTyped DEF Init, TypeOK, Audited!Init
  <1>2. IInv /\ [Next]_vars => [Audited!Next]_<<users, trail>>
    <2> SUFFICES ASSUME IInv, NEW r \in Req, Committing(r) PROVE Audited!Next
      BY OnlyCommitsWrite DEF IInv
    <2> DEFINE t == job[r].target
               e == [target |-> t, action |-> job[r].op]
    <2>1. e \in Audited!Entry /\ e.target = t /\ e.action = job[r].op
      BY JobFields DEF Committing, Audited!Entry
    <2>2. Audited!Change(t, job[r].op)
      <3>1. /\ users'[t] \in Row
            /\ users' = [users EXCEPT ![t] = users'[t]]
            /\ trail' = Append(trail, e)
        BY DEF Committing, IInv, TypeOK
      <3> QED BY <3>1 DEF Committing, Meets, Audited!Change
    <2> QED BY <2>1, <2>2, Zenon DEF Audited!Next
  <1> QED BY <1>1, <1>2, Invariance, PTL DEF Spec, AuditedSpec, Audited!Spec
=============================================================================
