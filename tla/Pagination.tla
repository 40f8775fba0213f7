----------------------------- MODULE Pagination -----------------------------
(***************************************************************************)
(* A client follows the cursors of one of the lists of the service         *)
(* (list_users and get_user_audit_log of app/api/v1/users.py,              *)
(* list_documents of app/api/v1/documents.py, app/api/cursor.py) from its  *)
(* first page to its last, while transactions add rows to the table and    *)
(* users are deleted and restored.  Rows come newest first, by created_at  *)
(* and then by id; created_at is now(), the start of the transaction.      *)
(***************************************************************************)
EXTENDS Integers, FiniteSets

CONSTANTS Rows,     \* the ids, in the order of UUIDs
          Limit,    \* the limit of the client
          MaxTime,  \* bound on the clock
          None      \* no cursor

Cursor == [created_at : Nat, id : Rows]

ASSUME RowsAssumption == Rows \subseteq Nat
ASSUME LimitAssumption == Limit \in Nat \ {0}
ASSUME MaxTimeAssumption == MaxTime \in Nat
ASSUME NoneAssumption == None \notin Cursor

VARIABLES endpoint,  \* the list that is read
          now,       \* the clock of the database
          row,       \* what became of each row
          created,   \* created_at of each row
          pc,        \* "reading", "end", or "failed"
          cursor,    \* next_cursor of the last answer
          page,      \* the rows of the last answer
          returned,  \* history: the rows of the answers before
          stable     \* history: rows that could be seen ever since the first

vars == <<endpoint, now, row, created, pc, cursor, page, returned, stable>>

Endpoints == {"list_users", "list_documents", "get_user_audit_log"}

\* Older rows may be there, from the seed script for one; only users are
\* ever deleted.
Init == /\ endpoint \in Endpoints
        /\ now = 1
        /\ row \in [Rows -> {"absent", "live"}]
        /\ created \in [Rows -> 0..1]
        /\ pc = "reading"
        /\ cursor = None
        /\ page = {}
        /\ returned = {}
        /\ stable = {}

-----------------------------------------------------------------------------
(* The table.                                                              *)

reader == <<endpoint, pc, cursor, page, returned>>

Become(r, from, to) == row[r] = from /\ row' = [row EXCEPT ![r] = to]

\* Mutant of Begin: created_at has no default.
BeginWithoutDefault(r) == /\ Become(r, "absent", "open")
                          /\ created' = [created EXCEPT ![r] = None]
                          /\ UNCHANGED <<reader, now, stable>>

\* A transaction starts that adds the row: created_at has its default.
Begin(r) == /\ Become(r, "absent", "open")
            /\ created' = [created EXCEPT ![r] = now]
            /\ UNCHANGED <<reader, now, stable>>

Commit(r) == Become(r, "open", "live") /\ UNCHANGED <<reader, now, created, stable>>

Rollback(r) == Become(r, "open", "absent") /\ UNCHANGED <<reader, now, created, stable>>

\* delete_user sets deleted_at.
Delete(r) == /\ endpoint = "list_users"
             /\ Become(r, "live", "deleted")
             /\ stable' = stable \ {r}
             /\ UNCHANGED <<reader, now, created>>

\* restore_user.
Restore(r) == Become(r, "deleted", "live") /\ UNCHANGED <<reader, now, created, stable>>

Tick == now < MaxTime /\ now' = now + 1 /\ UNCHANGED <<reader, row, created, stable>>

-----------------------------------------------------------------------------
(* The lists.                                                              *)

\* ORDER BY created_at DESC, id DESC: p comes before q.
Newer(p, q) == \/ created[p] > created[q]
               \/ created[p] = created[q] /\ p > q

\* Mutant of Below: the row at the cursor is given again.
BelowOrAt(r) ==
  \/ created[r] < cursor.created_at
  \/ endpoint = "list_users" /\ created[r] = cursor.created_at /\ r <= cursor.id

\* Mutant of Below: a comparison of Python tuples in list_users too.
BelowFirstColumn(r) == created[r] < cursor.created_at

\* The row comparison of list_users; in the other two lists a comparison of
\* Python tuples, of which the first column is all that reaches the query.
Below(r) ==
  \/ created[r] < cursor.created_at
  \/ endpoint = "list_users" /\ created[r] = cursor.created_at /\ r < cursor.id

\* WHERE deleted_at IS NULL, and below the cursor if there is one.
Matching == {r \in Rows : row[r] = "live" /\ (cursor # None => Below(r))}

\* rows[:limit] of the rows that match, in order.
IsPage(items) ==
  /\ \A p \in items, q \in Matching \ items : Newer(p, q)
  /\ IF Cardinality(Matching) > Limit THEN Cardinality(items) = Limit
                                      ELSE items = Matching

Last(items, r) == r \in items /\ \A q \in items : q = r \/ Newer(q, r)

\* Mutant of Answer: the cursor is made of the extra row that was fetched.
AnswerExtra ==
  /\ pc = "reading"
  /\ \E items \in SUBSET Matching :
       /\ IsPage(items)
       /\ page' = items
       /\ IF Cardinality(Matching) > Limit
            THEN /\ \E r \in Matching \ items :
                      /\ \A q \in Matching \ items : q = r \/ Newer(r, q)
                      /\ cursor' = [created_at |-> created[r], id |-> r]
                 /\ UNCHANGED pc
            ELSE cursor' = None /\ pc' = "end"
  /\ returned' = returned \cup page
  /\ stable' = IF cursor = None THEN Matching ELSE stable
  /\ UNCHANGED <<endpoint, now, row, created>>

\* One request of the client: limit + 1 rows are fetched to know has_more,
\* and the next cursor encodes the last item.
Answer ==
  /\ pc = "reading"
  /\ \E items \in SUBSET Matching :
       /\ IsPage(items)
       /\ page' = items
       /\ IF Cardinality(Matching) > Limit
            THEN /\ \E r \in Rows :
                      /\ Last(items, r)
                      /\ cursor' = [created_at |-> created[r], id |-> r]
                 /\ UNCHANGED pc
            ELSE cursor' = None /\ pc' = "end"
  /\ returned' = returned \cup page
  /\ stable' = IF cursor = None THEN Matching ELSE stable
  /\ UNCHANGED <<endpoint, now, row, created>>

\* The client sends a cursor that no answer gave it: 400 from list_users, an
\* uncaught ValueError or KeyError in the others.
BadCursor == /\ pc = "reading"
             /\ pc' = "failed"
             /\ UNCHANGED <<endpoint, now, row, created, cursor, page, returned, stable>>

Next == \/ \E r \in Rows : \/ Begin(r) \/ Commit(r) \/ Rollback(r)
                           \/ Delete(r) \/ Restore(r)
        \/ Tick \/ Answer \/ BadCursor

Spec == Init /\ [][Next]_vars

-----------------------------------------------------------------------------
(* Properties.                                                             *)

\* The variables have their types.
TypeOK ==
  /\ endpoint \in Endpoints
  /\ now \in Nat
  /\ row \in [Rows -> {"absent", "open", "live", "deleted"}]
  /\ created \in [Rows -> Nat]
  /\ pc \in {"reading", "end", "failed"}
  /\ cursor \in Cursor \cup {None}
  /\ {page, returned, stable} \subseteq SUBSET Rows

\* All the way through a list its rows come newest first and none comes
\* twice, whatever is added, deleted or restored between two pages.
PagesDescend == \A p \in returned, q \in page : Newer(p, q)

Missed == IF pc = "end" THEN stable \ (returned \cup page) ELSE {}

\* A client who followed the cursors of list_users to the end was given every
\* user who was there all the time, also users with equal created_at that a
\* page boundary falls between (users.py:158-161).
UsersListComplete == endpoint = "list_users" => Missed = {}

\* The other two lists can miss a row, but only one with the very created_at
\* of a row that ended a page.
MissedOnlyTies ==
  \A r \in Missed : \E q \in returned : created[q] = created[r] /\ q > r

(* What the documentation says and the code does not do.                   *)

\* README.md:23 (cursor pagination throughout) and DECISIONS.md D003: the
\* cursor of created_at and id does for a monotonic one, in every list.
ListsComplete == Missed = {}
=============================================================================
