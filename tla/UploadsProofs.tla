---------------------------- MODULE UploadsProofs ----------------------------
(***************************************************************************)
(* Theorems about Ingestion.tla, about EmbeddingModel.tla with the uploads *)
(* as its callers (M), and about Uploads.tla, which composes them: it      *)
(* implements both, and so has what is proved of each, for any uploads,    *)
(* contents, numbers of chunks, pool and number of restarts.               *)
(***************************************************************************)
EXTENDS Uploads, TLAPS

-----------------------------------------------------------------------------
(* Ingestion: its inductive invariant.                                     *)

\* An upload with an uncommitted document holds its hash in the index, and a
\* hash that is held has no committed document.
ClaimInv ==
  /\ \A r \in Req :
       pc[r] \in {"inserted", "embedding", "flushed", "answered"} =>
         claim[content[r]] = r
  /\ \A c \in Contents : claim[c] # None => docs[c] = None

\* The document in the session of an upload, empty before the last flush and
\* whole after it.
Whole(c) == [status |-> IF ChunkCount[c] = 0 THEN "failed" ELSE "ready",
             chunks |-> ChunkCount[c]]

DraftInv ==
  \A r \in Req :
    /\ pc[r] \in {"new", "missing", "inserted", "embedding"} => draft[r] = NoDraft
    /\ pc[r] = "embedding" => ChunkCount[content[r]] # 0
    /\ pc[r] \in {"flushed", "answered"} => draft[r] = Whole(content[r])
    /\ pc[r] = "answered" => ChunkCount[content[r]] # 0

IInv == TypeOK /\ ClaimInv /\ DraftInv /\ ReadyHasAllChunks

-----------------------------------------------------------------------------
(* Every step of an upload keeps it.                                       *)

\* The end of a transaction frees its hash and no other.
LEMMA ReleasedHashes ==
  ASSUME TypeOK, NEW r \in Req
  PROVE  /\ Released(r) \in [Contents -> Req \cup {None}]
         /\ \A c \in Contents : Released(r)[c] # r
         /\ \A c \in Contents : claim[c] # r => Released(r)[c] = claim[c]
         /\ \A c \in Contents : Released(r)[c] # None => Released(r)[c] = claim[c]
  BY NoneAssumption DEF TypeOK, Released

\* A document that is whole has a status and chunks that can be committed.
LEMMA WholeTyped ==
  ASSUME NEW c \in Contents
  PROVE  /\ Whole(c) \in [status : {"ready", "failed"}, chunks : Nat]
         /\ Whole(c).status = "ready" <=> Whole(c).chunks > 0
         /\ Whole(c).chunks = ChunkCount[c]
  BY ChunkCountAssumption DEF Whole

\* A commit makes the whole document visible, where nothing was before.
LEMMA CommitPuts ==
  ASSUME IInv, NEW r \in Req, Commit(r)
  PROVE  LET c == content[r] IN
         /\ c \in Contents /\ docs[c] = None /\ ChunkCount[c] > 0
         /\ docs' = [docs EXCEPT ![c] = "ready"]
         /\ rows' = [rows EXCEPT ![c] = Whole(c).chunks]
  <1>1. /\ content[r] \in Contents
        /\ claim[content[r]] = r
        /\ draft[r] = Whole(content[r])
        /\ ChunkCount[content[r]] # 0
    BY DEF IInv, TypeOK, ClaimInv, DraftInv, Commit
  <1>2. docs[content[r]] = None
    BY <1>1, NoneAssumption DEF IInv, ClaimInv
  <1>3. rows[content[r]] = 0 /\ Whole(content[r]).chunks \in Nat
    BY <1>1, <1>2, WholeTyped DEF IInv, ReadyHasAllChunks
  <1>4. rows[content[r]] + draft[r].chunks = Whole(content[r]).chunks
    BY <1>1, <1>3
  <1>5. ChunkCount[content[r]] > 0 /\ draft[r].status = "ready"
    BY <1>1, ChunkCountAssumption DEF Whole
  <1> QED BY <1>1, <1>2, <1>4, <1>5, Zenon DEF Commit

\* Only commits change what others can see.
LEMMA OnlyCommitsShow ==
  ASSUME [Next]_vars
  PROVE  UNCHANGED <<docs, rows>> \/ \E r \in Req : Commit(r)
  BY DEF Next, vars, Step, Lookup, Insert, Chunk, Embed, Error, Respond,
         Rollback, Abort

\* The initial states satisfy the invariant.
LEMMA InitInvariant == Init => IInv
  BY NoneAssumption
  DEF Init, IInv, TypeOK, ClaimInv, DraftInv, ReadyHasAllChunks, NoDraft

\* Every step keeps the types; that what is committed is "ready" needs DraftInv.
LEMMA NextTyped == IInv /\ [Next]_vars => TypeOK'
  <1> SUFFICES ASSUME IInv, [Next]_vars PROVE TypeOK'
    OBVIOUS
  <1> USE DEF IInv, TypeOK, InFlight, Ended, Goto
  <1>0. CASE UNCHANGED vars
    BY <1>0 DEF vars
  <1>1. ASSUME NEW r \in Req, Lookup(r) PROVE TypeOK'
    BY <1>1 DEF Lookup
  <1>2. ASSUME NEW r \in Req, Insert(r) PROVE TypeOK'
    BY <1>2 DEF Insert
  <1>3. ASSUME NEW r \in Req, Chunk(r) PROVE TypeOK'
    <2>1. [draft[r] EXCEPT !.status = "failed"]
             \in [status : {"processing", "ready", "failed"}, chunks : Nat]
      OBVIOUS
    <2>2. draft' \in [Req -> [status : {"processing", "ready", "failed"}, chunks : Nat]]
      BY <1>3, <2>1 DEF Chunk
    <2> QED BY <1>3, <2>2 DEF Chunk
  <1>4. ASSUME NEW r \in Req, Embed(r) PROVE TypeOK'
    <2>1. [status |-> "ready", chunks |-> ChunkCount[content[r]]]
             \in [status : {"processing", "ready", "failed"}, chunks : Nat]
      BY ChunkCountAssumption
    <2> QED BY <1>4, <2>1 DEF Embed
  <1>5. ASSUME NEW r \in Req, Error(r) PROVE TypeOK'
    BY <1>5 DEF Error
  <1>6. ASSUME NEW r \in Req, Respond(r) PROVE TypeOK'
    BY <1>6 DEF Respond
  <1>7. ASSUME NEW r \in Req, Commit(r) PROVE TypeOK'
    <2>1. /\ docs' \in [Contents -> {None, "ready"}]
          /\ rows' \in [Contents -> Nat]
      <3>1. Whole(content[r]).chunks \in Nat
        BY WholeTyped
      <3> QED BY <1>7, <3>1, CommitPuts
    <2> QED BY <1>7, <2>1, ReleasedHashes DEF Commit
  <1>8. ASSUME NEW r \in Req, Rollback(r) PROVE TypeOK'
    BY <1>8, ReleasedHashes DEF Rollback
  <1>9. ASSUME NEW r \in Req, Abort(r) PROVE TypeOK'
    BY <1>9, ReleasedHashes DEF Abort
  <1> QED
    BY <1>0, <1>1, <1>2, <1>3, <1>4, <1>5, <1>6, <1>7, <1>8, <1>9 DEF Next, Step

\* An INSERT takes a free hash, and only its holder commits it.
LEMMA NextClaimInv == IInv /\ [Next]_vars => ClaimInv'
  <1> SUFFICES ASSUME IInv, [Next]_vars PROVE ClaimInv'
    OBVIOUS
  <1> USE NoneAssumption DEF IInv, TypeOK, ClaimInv, Goto
  <1>0. CASE UNCHANGED vars
    BY <1>0 DEF vars
  <1>1. ASSUME NEW r \in Req, Lookup(r) PROVE ClaimInv'
    BY <1>1 DEF Lookup
  <1>2. ASSUME NEW r \in Req, Insert(r) PROVE ClaimInv'
    BY <1>2 DEF Insert
  <1>3. ASSUME NEW r \in Req, Chunk(r) PROVE ClaimInv'
    BY <1>3 DEF Chunk
  <1>4. ASSUME NEW r \in Req, Embed(r) PROVE ClaimInv'
    BY <1>4 DEF Embed
  <1>5. ASSUME NEW r \in Req, Error(r) PROVE ClaimInv'
    BY <1>5 DEF Error
  <1>6. ASSUME NEW r \in Req, Respond(r) PROVE ClaimInv'
    BY <1>6 DEF Respond
  <1>7. ASSUME NEW r \in Req, Commit(r) PROVE ClaimInv'
    BY <1>7, ReleasedHashes DEF Commit
  <1>8. ASSUME NEW r \in Req, Rollback(r) PROVE ClaimInv'
    BY <1>8, ReleasedHashes DEF Rollback
  <1>9. ASSUME NEW r \in Req, Abort(r) PROVE ClaimInv'
    BY <1>9, ReleasedHashes DEF Abort
  <1> QED
    BY <1>0, <1>1, <1>2, <1>3, <1>4, <1>5, <1>6, <1>7, <1>8, <1>9 DEF Next, Step

\* The last flush makes the document whole, and nothing changes it after.
LEMMA NextDraftInv == IInv /\ [Next]_vars => DraftInv'
  <1> SUFFICES ASSUME IInv, [Next]_vars PROVE DraftInv'
    OBVIOUS
  <1> USE DEF IInv, TypeOK, DraftInv, Goto
  <1>0. CASE UNCHANGED vars
    BY <1>0 DEF vars
  <1>1. ASSUME NEW r \in Req, Lookup(r) PROVE DraftInv'
    BY <1>1 DEF Lookup
  <1>2. ASSUME NEW r \in Req, Insert(r) PROVE DraftInv'
    BY <1>2 DEF Insert
  <1>3. ASSUME NEW r \in Req, Chunk(r) PROVE DraftInv'
    BY <1>3 DEF Chunk, Whole, NoDraft
  <1>4. ASSUME NEW r \in Req, Embed(r) PROVE DraftInv'
    BY <1>4 DEF Embed, Whole
  <1>5. ASSUME NEW r \in Req, Error(r) PROVE DraftInv'
    BY <1>5 DEF Error
  <1>6. ASSUME NEW r \in Req, Respond(r) PROVE DraftInv'
    <2>1. draft[r].status # "failed" => ChunkCount[content[r]] # 0
      BY <1>6 DEF Respond, Whole
    <2> QED BY <1>6, <2>1 DEF Respond
  <1>7. ASSUME NEW r \in Req, Commit(r) PROVE DraftInv'
    BY <1>7 DEF Commit
  <1>8. ASSUME NEW r \in Req, Rollback(r) PROVE DraftInv'
    BY <1>8 DEF Rollback
  <1>9. ASSUME NEW r \in Req, Abort(r) PROVE DraftInv'
    BY <1>9 DEF Abort
  <1> QED
    BY <1>0, <1>1, <1>2, <1>3, <1>4, <1>5, <1>6, <1>7, <1>8, <1>9 DEF Next, Step

\* What a commit shows is whole.
LEMMA NextReady == IInv /\ [Next]_vars => ReadyHasAllChunks'
  <1> SUFFICES ASSUME IInv, [Next]_vars, NEW c \in Contents
               PROVE  /\ docs'[c] # None =>
                           rows'[c] = ChunkCount[c] /\ rows'[c] > 0
                      /\ docs'[c] = None => rows'[c] = 0
    BY DEF ReadyHasAllChunks
  <1>1. CASE UNCHANGED <<docs, rows>>
    BY <1>1 DEF IInv, ReadyHasAllChunks
  <1>2. ASSUME NEW r \in Req, Commit(r), content[r] = c
        PROVE  /\ docs'[c] = "ready" /\ rows'[c] = ChunkCount[c]
               /\ ChunkCount[c] > 0
    BY <1>2, CommitPuts, WholeTyped DEF IInv, TypeOK
  <1>3. ASSUME NEW r \in Req, Commit(r), content[r] # c
        PROVE  docs'[c] = docs[c] /\ rows'[c] = rows[c]
    BY <1>3, CommitPuts DEF IInv, TypeOK
  <1> QED
    BY <1>1, <1>2, <1>3, OnlyCommitsShow, NoneAssumption DEF IInv, ReadyHasAllChunks

-----------------------------------------------------------------------------
(* The theorems about ingestion.                                           *)

\* The invariant holds in every state, whatever uploads race and fail.
THEOREM Invariance == Spec => []IInv
  <1>1. IInv /\ [Next]_vars => IInv'
    BY NextTyped, NextClaimInv, NextDraftInv, NextReady DEF IInv
  <1> QED BY <1>1, InitInvariant, PTL DEF Spec

\* Every variable of Ingestion.tla keeps its type.
THEOREM TypeCorrect == Spec => []TypeOK
  BY Invariance, PTL DEF IInv

\* No document that can be seen is half ingested, and no chunk is without one.
THEOREM DocumentsAreWhole == Spec => []ReadyHasAllChunks
  BY Invariance, PTL DEF IInv

\* The transactions of ingest_document implement the content store: every
\* content appears in one step, once and for good.
THEOREM IngestionImplementsStore == Spec => StoreSpec
  <1>1. Init => Store!Init
    BY DEF Init, Store!Init
  <1>2. IInv /\ [Next]_vars => [Store!Next]_<<docs, rows>>
    <2> SUFFICES ASSUME IInv, NEW r \in Req, Commit(r) PROVE Store!Next
      BY OnlyCommitsShow
    <2>1. Store!Put(content[r])
      BY CommitPuts, WholeTyped DEF Store!Put
    <2> QED BY <2>1, CommitPuts DEF Store!Next
  <1> QED BY <1>1, <1>2, Invariance, PTL DEF Spec, StoreSpec, Store!Spec

-----------------------------------------------------------------------------
(* EmbeddingModel: its inductive invariant.                                *)

InQueue(t) == \E i \in 1..Len(queue) : queue[i] = t

\* In the queue of the lock are those who wait for it and who has it.
Queued == \A t \in Req : InQueue(t) <=> task[t] \in {"waiting", "loading"}

\* Who loads has the lock, and there is no model yet.
LoaderInv ==
  \A t \in Req : task[t] = "loading" => Head(queue) = t /\ model = "none"

ModelInv == M!TypeOK /\ Queued /\ LoaderInv

-----------------------------------------------------------------------------
(* The queue.                                                              *)

\* A coroutine that comes new to the end of the queue is once in it.
LEMMA Enqueue ==
  ASSUME NEW q \in Seq(Req), M!IsInjective(q), NEW t \in Req,
         \A i \in 1..Len(q) : q[i] # t
  PROVE  /\ Append(q, t) \in Seq(Req) /\ M!IsInjective(Append(q, t))
         /\ \A s \in Req : (\E i \in 1..Len(Append(q, t)) : Append(q, t)[i] = s)
                              <=> s = t \/ \E i \in 1..Len(q) : q[i] = s
         /\ q # << >> => Head(Append(q, t)) = Head(q)
  <1>1. /\ Len(Append(q, t)) = Len(q) + 1
        /\ \A i \in 1..Len(q) : Append(q, t)[i] = q[i]
        /\ Append(q, t)[Len(q) + 1] = t
        /\ DOMAIN Append(q, t) = 1..(Len(q) + 1)
        /\ DOMAIN q = 1..Len(q) /\ Len(q) \in Nat
    OBVIOUS
  <1>2. M!IsInjective(Append(q, t))
    BY <1>1 DEF M!IsInjective
  <1>3. \A s \in Req : (\E i \in 1..Len(Append(q, t)) : Append(q, t)[i] = s)
                              <=> s = t \/ \E i \in 1..Len(q) : q[i] = s
    BY <1>1
  <1> QED BY <1>2, <1>3

\* The first of the queue leaves it, and the others stay.
LEMMA Dequeue ==
  ASSUME NEW q \in Seq(Req), M!IsInjective(q), q # << >>
  PROVE  /\ Tail(q) \in Seq(Req) /\ M!IsInjective(Tail(q))
         /\ \A s \in Req : (\E i \in 1..Len(Tail(q)) : Tail(q)[i] = s)
                              <=> s # Head(q) /\ \E i \in 1..Len(q) : q[i] = s
  <1>1. /\ Len(Tail(q)) = Len(q) - 1 /\ Len(q) \in Nat \ {0}
        /\ \A i \in 1..(Len(q) - 1) : Tail(q)[i] = q[i + 1]
        /\ DOMAIN Tail(q) = 1..(Len(q) - 1)
        /\ DOMAIN q = 1..Len(q)
        /\ Head(q) = q[1]
    OBVIOUS
  <1>2. \A i, j \in 1..Len(q) : q[i] = q[j] => i = j
    BY <1>1 DEF M!IsInjective
  <1>3. M!IsInjective(Tail(q))
    BY <1>1, <1>2 DEF M!IsInjective
  <1>4. ASSUME NEW s \in Req
        PROVE  (\E i \in 1..Len(Tail(q)) : Tail(q)[i] = s)
                 <=> s # Head(q) /\ \E i \in 1..Len(q) : q[i] = s
    <2>1. ASSUME NEW i \in 1..Len(Tail(q)), Tail(q)[i] = s
          PROVE  s # Head(q) /\ q[i + 1] = s /\ i + 1 \in 1..Len(q)
      BY <1>1, <1>2, <2>1
    <2>2. ASSUME NEW i \in 1..Len(q), q[i] = s, s # Head(q)
          PROVE  i - 1 \in 1..Len(Tail(q)) /\ Tail(q)[i - 1] = s
      BY <1>1, <2>2
    <2> QED BY <2>1, <2>2
  <1> QED BY <1>3, <1>4

-----------------------------------------------------------------------------
(* Every step of the model keeps it.                                       *)

\* The initial state satisfies it.
LEMMA ModelInit == M!Init => ModelInv
  <1> SUFFICES ASSUME M!Init PROVE ModelInv
    OBVIOUS
  <1>1. queue \in Seq(Req) /\ M!IsInjective(queue) /\ Len(queue) = 0
    BY DEF M!Init, M!IsInjective
  <1> QED BY <1>1 DEF M!Init, ModelInv, M!TypeOK, Queued, InQueue, LoaderInv

\* A caller that finds no model joins the queue, at its end.
LEMMA CallKeeps ==
  ASSUME ModelInv, NEW t \in Req, M!Call(t)
  PROVE  ModelInv'
  <1> USE DEF ModelInv, M!TypeOK, Queued, InQueue, LoaderInv, M!Goto
  <1>1. CASE UNCHANGED queue
    BY <1>1 DEF M!Call, M!Return
  <1>2. CASE model = "none" /\ queue' = Append(queue, t)
    <2>1. \A i \in 1..Len(queue) : queue[i] # t
      BY DEF M!Call
    <2>2. M!TypeOK'
      BY <1>2, <2>1, Enqueue DEF M!Call, M!Return
    <2>3. Queued'
      BY <1>2, <2>1, Enqueue DEF M!Call, M!Return
    <2>4. LoaderInv'
      BY <1>2, <2>1, Enqueue DEF M!Call, M!Return
    <2> QED BY <2>2, <2>3, <2>4
  <1> QED BY <1>1, <1>2 DEF M!Call

\* Who has the lock and gives it back without a load leaves the queue.
LEMMA LeaveKeeps ==
  ASSUME ModelInv, NEW t \in Req, queue # << >>, Head(queue) = t,
         task[t] \in {"waiting", "loading"},
         queue' = Tail(queue),
         NEW label \in {"encoding", "failed"}, M!Goto(t, label),
         used' \in [Req -> {"none", "good", "bad"}],
         model' \in {"none", "good", "bad"}
  PROVE  ModelInv'
  <1> USE DEF ModelInv, M!TypeOK, Queued, InQueue, LoaderInv, M!Goto
  <1>1. M!TypeOK'
    BY Dequeue
  <1>2. Queued'
    BY Dequeue
  <1>3. LoaderInv'
    OBVIOUS
  <1> QED BY <1>1, <1>2, <1>3

\* A coroutine in the queue finds it not empty.
LEMMA QueueNotEmpty ==
  ASSUME ModelInv, NEW t \in Req, task[t] \in {"waiting", "loading"}
  PROVE  queue # << >>
  <1> SUFFICES ASSUME queue = << >> PROVE FALSE
    OBVIOUS
  <1>1. Len(queue) = 0
    OBVIOUS
  <1> QED BY <1>1 DEF ModelInv, Queued, InQueue

\* Every step of every coroutine keeps the invariant.
LEMMA ModelNext == ModelInv /\ [M!Next]_(M!vars) => ModelInv'
  <1> SUFFICES ASSUME ModelInv, [M!Next]_(M!vars) PROVE ModelInv'
    OBVIOUS
  <1>0. CASE UNCHANGED M!vars
    BY <1>0 DEF M!vars, ModelInv, M!TypeOK, Queued, InQueue, LoaderInv
  <1>1. ASSUME NEW t \in Req, M!Call(t) PROVE ModelInv'
    BY <1>1, CallKeeps
  <1>2. ASSUME NEW t \in Req, M!Recheck(t) PROVE ModelInv'
    <2>1. CASE model # "none"
      BY <1>2, <2>1, LeaveKeeps, QueueNotEmpty DEF M!Recheck, M!Return, ModelInv, M!TypeOK
    <2>2. CASE model = "none"
      BY <1>2, <2>2
      DEF M!Recheck, M!Goto, ModelInv, M!TypeOK, Queued, InQueue, LoaderInv
    <2> QED BY <2>1, <2>2
  <1>3. ASSUME NEW t \in Req, M!Loaded(t) PROVE ModelInv'
    <2>1. queue # << >> /\ Head(queue) = t
      BY <1>3, QueueNotEmpty DEF M!Loaded, ModelInv, LoaderInv
    <2>2. /\ used' \in [Req -> {"none", "good", "bad"}]
          /\ model' \in {"none", "good", "bad"}
          /\ M!Goto(t, "encoding") \/ M!Goto(t, "failed")
      BY <1>3 DEF M!Loaded, M!Return, ModelInv, M!TypeOK
    <2> QED BY <1>3, <2>1, <2>2, LeaveKeeps DEF M!Loaded
  <1>4. ASSUME NEW t \in Req, M!LoadFails(t) PROVE ModelInv'
    <2>1. queue # << >> /\ Head(queue) = t
      BY <1>4, QueueNotEmpty DEF M!LoadFails, ModelInv, LoaderInv
    <2> QED BY <1>4, <2>1, LeaveKeeps DEF M!LoadFails, ModelInv, M!TypeOK
  <1>5. ASSUME NEW t \in Req, M!Encoded(t) PROVE ModelInv'
    BY <1>5 DEF M!Encoded, M!Goto, ModelInv, M!TypeOK, Queued, InQueue, LoaderInv
  <1>6. CASE M!Restart
    <2>1. queue' \in Seq(Req) /\ M!IsInjective(queue') /\ Len(queue') = 0
      BY <1>6 DEF M!Restart, M!IsInjective
    <2> QED BY <1>6, <2>1 DEF M!Restart, ModelInv, M!TypeOK, Queued, InQueue, LoaderInv
  <1> QED BY <1>0, <1>1, <1>2, <1>3, <1>4, <1>5, <1>6 DEF M!Next

-----------------------------------------------------------------------------
(* The theorems about the model.                                           *)

\* The invariant holds in every state, for any number of coroutines.
THEOREM ModelInvariance == M!Spec => []ModelInv
  BY ModelInit, ModelNext, PTL DEF M!Spec

\* The variables keep their types, and nobody is twice in the queue of the lock.
THEOREM ModelTypeCorrect == M!Spec => []M!TypeOK
  BY ModelInvariance, PTL DEF ModelInv

\* The model is never loaded by two coroutines at a time, nor when it is there:
\* the second look at _model under the lock is enough.
THEOREM ModelLoadedOnce == M!Spec => []M!LoadedOnce
  <1>1. ModelInv => M!LoadedOnce
    BY DEF ModelInv, LoaderInv, M!LoadedOnce
  <1> QED BY <1>1, ModelInvariance, PTL

-----------------------------------------------------------------------------
(* Uploads implements both.                                                *)

\* A step of the process is one of ingestion, or leaves the database alone.
LEMMA IngestionStep == [UploadNext]_uploadVars => [Next]_vars
<1> SUFFICES ASSUME [UploadNext]_uploadVars PROVE [Next]_vars
  OBVIOUS
<1>1. ASSUME NEW r \in Req, Arrive(r) \/ Raise(r) \/ Disconnect(r) \/ Cleanup(r) \/ Encode(r)
      PROVE  Next
  BY <1>1 DEF Arrive, Raise, Disconnect, Cleanup, Encode, Next, Step
<1>2. ASSUME NEW r \in Req, Proceed(r)
      PROVE  Next
  BY <1>2 DEF Proceed, Next, Step
<1>3. ASSUME NEW r \in Req, Ask(r) \/ GetModel(r)
      PROVE  UNCHANGED vars
  BY <1>3 DEF Ask, GetModel
<1>4. CASE Restart \/ UNCHANGED uploadVars
  BY <1>4 DEF Restart, uploadVars
<1>5. QED BY <1>1, <1>2, <1>3, <1>4 DEF UploadNext, UploadStep

\* And it is one of the model, or leaves the model alone.
LEMMA ModelStep == [UploadNext]_uploadVars => [M!Next]_(M!vars)
<1> SUFFICES ASSUME [UploadNext]_uploadVars PROVE [M!Next]_(M!vars)
  OBVIOUS
<1>1. ASSUME NEW r \in Req, Ask(r) \/ GetModel(r) \/ Encode(r)
      PROVE  M!Next
  BY <1>1 DEF Ask, GetModel, Encode, M!Next
<1>2. ASSUME NEW r \in Req, Arrive(r) \/ Proceed(r) \/ Raise(r) \/ Disconnect(r) \/ Cleanup(r)
      PROVE  UNCHANGED M!vars
  BY <1>2 DEF Arrive, Proceed, Raise, Disconnect, Cleanup, embedding, M!vars
<1>3. CASE Restart
  BY <1>3 DEF Restart, M!Next
<1>4. CASE UNCHANGED uploadVars
  BY <1>4 DEF uploadVars, embedding, M!vars
<1>5. QED BY <1>1, <1>2, <1>3, <1>4 DEF UploadNext, UploadStep

\* The composition implements ingestion.
THEOREM UploadsImplementIngestion == UploadSpec => Spec
  BY IngestionStep, PTL DEF UploadSpec, UploadInit, Spec

\* And it implements the embedding model.
THEOREM UploadsImplementModel == UploadSpec => M!Spec
  BY ModelStep, PTL DEF UploadSpec, UploadInit, M!Spec

\* Documents are whole though uploads share a model, wait for connections and
\* die with their process.
THEOREM UploadedDocumentsAreWhole == UploadSpec => []ReadyHasAllChunks
  BY UploadsImplementIngestion, DocumentsAreWhole, PTL

\* Contents are stored once, whole and for good.
THEOREM UploadsImplementStore == UploadSpec => StoreSpec
  BY UploadsImplementIngestion, IngestionImplementsStore, PTL

\* The model of the process is loaded once by all its uploads.
THEOREM UploadsLoadOnce == UploadSpec => []LoadedOnce
  BY UploadsImplementModel, ModelLoadedOnce, PTL DEF LoadedOnce

\* Whoever is with the model is embedding and alive.
Callers == /\ dead \subseteq Req
           /\ \A r \in Req : task[r] # "idle" => pc[r] = "embedding" /\ r \notin dead

\* A step of an upload keeps that of the others.
LEMMA CallersStay == TypeOK /\ M!TypeOK /\ Callers /\ [UploadNext]_uploadVars => Callers'
<1> SUFFICES ASSUME TypeOK, M!TypeOK, Callers, [UploadNext]_uploadVars
             PROVE  Callers'
  OBVIOUS
<1> USE DEF Callers, TypeOK, M!TypeOK, Goto, embedding
<1>1. ASSUME NEW r \in Req, Arrive(r) \/ Raise(r) \/ Disconnect(r) \/ Cleanup(r)
      PROVE  Callers'
  BY <1>1 DEF Arrive, Raise, Disconnect, Cleanup, Lookup, Error, Abort
<1>2. ASSUME NEW r \in Req, Proceed(r)
      PROVE  Callers'
  BY <1>2 DEF Proceed, Insert, Chunk, Respond, Commit, Rollback
<1>3. ASSUME NEW r \in Req, Ask(r) \/ GetModel(r)
      PROVE  Callers'
  <2>1. UNCHANGED <<pc, dead>> /\ \A s \in Req \ {r} : task'[s] = task[s]
    BY <1>3 DEF Ask, GetModel, vars, M!Call, M!Recheck, M!Loaded, M!LoadFails, M!Goto, M!Return
  <2>2. pc[r] = "embedding" /\ r \notin dead
    BY <1>3 DEF Ask, GetModel, M!Recheck, M!Loaded, M!LoadFails
  <2>3. QED BY <2>1, <2>2
<1>4. ASSUME NEW r \in Req, Encode(r)
      PROVE  Callers'
  <2>1. task' = [task EXCEPT ![r] = "idle"] /\ dead' = dead
    BY <1>4 DEF Encode, M!Encoded, M!Goto
  <2>2. \A s \in Req \ {r} : pc'[s] = pc[s]
    BY <1>4 DEF Encode, Embed, Error
  <2>3. QED BY <2>1, <2>2
<1>5. CASE Restart
  BY <1>5 DEF Restart, M!Restart, Connected
<1>6. CASE UNCHANGED uploadVars
  BY <1>6 DEF uploadVars, vars
<1>7. QED BY <1>1, <1>2, <1>3, <1>4, <1>5, <1>6 DEF UploadNext, UploadStep

\* The variables of the composition keep their types.
THEOREM UploadsTypeCorrect == UploadSpec => []UploadTypeOK
<1>1. UploadInit => Callers
  BY DEF UploadInit, M!Init, Callers
<1>2. UploadSpec => []TypeOK
  BY UploadsImplementIngestion, TypeCorrect, PTL
<1>3. UploadSpec => []M!TypeOK
  BY UploadsImplementModel, ModelTypeCorrect, PTL
<1>4. TypeOK /\ M!TypeOK /\ Callers => UploadTypeOK
  BY DEF UploadTypeOK, Callers
<1>5. QED BY <1>1, <1>2, <1>3, <1>4, CallersStay, PTL DEF UploadSpec
=============================================================================
