--------------------------- MODULE EmbeddingModel ---------------------------
(***************************************************************************)
(* get_embedding_model and embed_texts (app/services/embedding.py): the    *)
(* model of the process is loaded on first use, in a thread, under an      *)
(* asyncio lock, and checked against the dimension of the database schema. *)
(***************************************************************************)
EXTENDS Sequences, SequencesExt

CONSTANT Task  \* the coroutines that embed something

VARIABLES model,  \* _model: "none" yet, or "good", or "bad", which has not
                  \* EXPECTED_DIM dimensions
          queue,  \* _model_lock: its holder, then its waiters, in order
          pc,     \* how far each coroutine is
          used    \* the model each coroutine embeds with

vars == <<model, queue, pc, used>>

Init == /\ model = "none"
        /\ queue = << >>
        /\ pc = [t \in Task |-> "idle"]
        /\ used = [t \in Task |-> "none"]

Goto(t, label) == pc' = [pc EXCEPT ![t] = label]

\* get_embedding_model returns m; embed_texts goes on to encode with it.
Return(t, m) == Goto(t, "encoding") /\ used' = [used EXCEPT ![t] = m]

\* Up to the lock, which is handed over first come, first served.
Call(t) ==
  /\ pc[t] = "idle"
  /\ \/ model # "none" /\ Return(t, model) /\ UNCHANGED <<model, queue>>
     \/ /\ model = "none"
        /\ queue' = Append(queue, t)
        /\ Goto(t, "waiting")
        /\ UNCHANGED <<model, used>>

\* Mutant of Recheck: no second look at _model.
RecheckNot(t) ==
  /\ pc[t] = "waiting"
  /\ Head(queue) = t
  /\ Goto(t, "loading")
  /\ UNCHANGED <<model, queue, used>>

\* With the lock: a second look, and the load is started in a thread.
Recheck(t) ==
  /\ pc[t] = "waiting"
  /\ Head(queue) = t
  /\ IF model # "none"
       THEN Return(t, model) /\ queue' = Tail(queue) /\ UNCHANGED model
       ELSE Goto(t, "loading") /\ UNCHANGED <<model, queue, used>>

\* The thread is done: _model is set, then checked, and the lock released.
Loaded(t) ==
  /\ pc[t] = "loading"
  /\ \E m \in {"good", "bad"} :
       /\ model' = m
       /\ \/ m = "good" /\ Return(t, m)
          \/ m = "bad" /\ Goto(t, "failed") /\ UNCHANGED used
  /\ queue' = Tail(queue)

\* Mutant of LoadFails: the lock is not released when the load raises.
LoadFailsKeepsLock(t) ==
  /\ pc[t] = "loading"
  /\ Goto(t, "failed")
  /\ UNCHANGED <<model, queue, used>>

\* The thread raises: download or construction failed.
LoadFails(t) ==
  /\ pc[t] = "loading"
  /\ Goto(t, "failed")
  /\ queue' = Tail(queue)
  /\ UNCHANGED <<model, used>>

\* The encoding in a thread is done, or raises, and the caller goes on; it
\* may embed again, as it may after a failure.
Encoded(t) ==
  /\ pc[t] \in {"encoding", "failed"}
  /\ Goto(t, "idle")
  /\ used' = [used EXCEPT ![t] = "none"]
  /\ UNCHANGED <<model, queue>>

\* The process dies and is started again.
Restart == /\ model' = "none"
           /\ queue' = << >>
           /\ pc' = [t \in Task |-> "idle"]
           /\ used' = [t \in Task |-> "none"]

Next == \/ \E t \in Task : \/ Call(t) \/ Recheck(t) \/ Loaded(t) \/ LoadFails(t)
                           \/ Encoded(t)
        \/ Restart

Spec == Init /\ [][Next]_vars

-----------------------------------------------------------------------------
(* Properties.                                                             *)

\* The variables have their types; nobody is twice in the queue.
TypeOK ==
  /\ model \in {"none", "good", "bad"}
  /\ queue \in Seq(Task) /\ IsInjective(queue)
  /\ pc \in [Task -> {"idle", "waiting", "loading", "encoding", "failed"}]
  /\ used \in [Task -> {"none", "good", "bad"}]

\* The model is loaded once: no coroutine loads while another one does, and
\* none loads when a model is there already.
LoadedOnce ==
  \A t \in Task : pc[t] = "loading" =>
    model = "none" /\ \A s \in Task \ {t} : pc[s] # "loading"

\* embedding.py:45-52: the dimension is checked against the schema, and a
\* model that fails the check is not used.
OnlyCheckedModelUsed == \A t \in Task : used[t] # "bad"
=============================================================================
