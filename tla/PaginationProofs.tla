-------------------------- MODULE PaginationProofs --------------------------
(***************************************************************************)
(* What a client who follows the cursors is given, for any rows, limit and *)
(* clock.                                                                  *)
(***************************************************************************)
EXTENDS Pagination, TLAPS

Seen == returned \cup page

\* What was returned or was to be seen all the time was added for good, and
\* before the first answer there is nothing of either.
SeenInv ==
  /\ \A r \in Seen : row[r] \in {"live", "deleted"}
  /\ \A r \in stable : row[r] = "live"
  /\ pc = "reading" /\ cursor = None => Seen = {} /\ stable = {}

\* No row that was returned is below the cursor.
CursorInv ==
  cursor # None =>
    \A q \in Seen : \/ created[q] > cursor.created_at
                    \/ created[q] = cursor.created_at /\ q >= cursor.id

\* Row r has the created_at of a row of S that comes before it, and the list
\* does not tell them apart.
Tied(r, S) == /\ endpoint # "list_users"
              /\ \E q \in S : created[q] = created[r] /\ q > r

\* A row that is there all the time was returned, or is still to come, or is
\* tied with a row that was returned.
OwedInv ==
  /\ pc = "reading" /\ cursor # None =>
       \A r \in stable : r \in Seen \/ Below(r) \/ Tied(r, Seen)
  /\ pc = "end" => \A r \in stable : r \in Seen \/ Tied(r, returned)

Inv == TypeOK /\ SeenInv /\ CursorInv /\ PagesDescend /\ OwedInv

USE RowsAssumption, LimitAssumption, MaxTimeAssumption, NoneAssumption DEF Seen

\* At the start nothing was returned.
LEMMA InitInv == Init => Inv
BY DEF Init, Inv, TypeOK, SeenInv, CursorInv, PagesDescend, OwedInv, Endpoints

\* A step of a transaction that adds, deletes or restores a row leaves what
\* the client has alone, and created_at of the rows it was given.
LEMMA TableStep ==
  ASSUME Inv, NEW r \in Rows,
         Begin(r) \/ Commit(r) \/ Rollback(r) \/ Delete(r) \/ Restore(r)
  PROVE  Inv'
<1> USE DEF Inv, reader
<1>1. /\ UNCHANGED <<endpoint, pc, cursor, page, returned, now>>
      /\ stable' \subseteq stable
      /\ \A q \in Seen \cup stable : created'[q] = created[q]
      /\ SeenInv'
  BY DEF TypeOK, SeenInv, Begin, Commit, Rollback, Delete, Restore, Become
<1>2. TypeOK'
  BY DEF TypeOK, Begin, Commit, Rollback, Delete, Restore, Become
<1>3. CursorInv'
  BY <1>1 DEF CursorInv
<1>4. PagesDescend'
  BY <1>1 DEF PagesDescend, Newer
<1>5. OwedInv'
  <2>1. \A q \in stable : Below(q) => Below(q)'
    BY <1>1 DEF Below
  <2>2. \A q \in stable : Tied(q, Seen) => Tied(q, Seen)'
    BY <1>1 DEF Tied
  <2>3. \A q \in stable : Tied(q, returned) => Tied(q, returned)'
    BY <1>1 DEF Tied
  <2>4. QED BY <1>1, <2>1, <2>2, <2>3 DEF OwedInv
<1>6. QED BY <1>1, <1>2, <1>3, <1>4, <1>5

\* The clock and a bad cursor change nothing that matters.
LEMMA OtherStep ==
  ASSUME Inv, Tick \/ BadCursor \/ UNCHANGED vars
  PROVE  Inv'
<1> USE DEF Inv, reader, vars, Tick, BadCursor
<1>1. /\ UNCHANGED <<endpoint, row, created, cursor, page, returned, stable>>
      /\ pc' \in {pc, "failed"}
  OBVIOUS
<1>2. TypeOK'
  BY DEF TypeOK
<1>3. SeenInv'
  BY <1>1 DEF SeenInv
<1>4. CursorInv'
  BY <1>1 DEF CursorInv
<1>5. PagesDescend'
  BY <1>1 DEF PagesDescend, Newer
<1>6. OwedInv'
  BY <1>1 DEF OwedInv, Below, Tied
<1>7. QED BY <1>2, <1>3, <1>4, <1>5, <1>6

\* An answer: every row that was owed is in it, still to come, or tied with
\* the row that the new cursor is made of.
LEMMA AnswerStep ==
  ASSUME Inv, Answer
  PROVE  Inv'
<1> USE DEF Inv
<1>1. PICK items \in SUBSET Matching :
        /\ IsPage(items)
        /\ page' = items
        /\ IF Cardinality(Matching) > Limit
             THEN /\ \E r \in Rows :
                       /\ Last(items, r)
                       /\ cursor' = [created_at |-> created[r], id |-> r]
                  /\ UNCHANGED pc
             ELSE cursor' = None /\ pc' = "end"
  BY DEF Answer
<1>2. /\ pc = "reading"
      /\ returned' = Seen
      /\ stable' = IF cursor = None THEN Matching ELSE stable
      /\ UNCHANGED <<endpoint, now, row, created>>
  BY DEF Answer
<1>3. /\ Matching \subseteq Rows
      /\ \A r \in Matching : row[r] = "live" /\ (cursor # None => Below(r))
  BY DEF Matching
<1>4. TypeOK'
  BY <1>1, <1>2, <1>3 DEF TypeOK, Cursor
<1>5. \A p \in Seen, q \in items : Newer(p, q)
  <2> SUFFICES ASSUME NEW p \in Seen, NEW q \in items
               PROVE  Newer(p, q)
    OBVIOUS
  <2>1. cursor # None /\ Below(q)
    BY <1>1, <1>2, <1>3 DEF SeenInv
  <2>2. cursor.created_at \in Nat /\ cursor.id \in Nat
    BY <2>1 DEF TypeOK, Cursor
  <2>3. p \in Nat /\ q \in Nat /\ created[p] \in Nat /\ created[q] \in Nat
    BY <1>1, <1>3 DEF TypeOK
  <2>4. \/ created[p] > cursor.created_at
        \/ created[p] = cursor.created_at /\ p >= cursor.id
    BY <2>1 DEF CursorInv
  <2>5. QED BY <2>1, <2>2, <2>3, <2>4 DEF Below, Newer
<1>6. PagesDescend'
  BY <1>1, <1>2, <1>5 DEF PagesDescend, Newer
<1>7. \A r \in stable' : r \in Seen \/ r \in Matching \/ Tied(r, Seen)
  BY <1>2 DEF OwedInv, SeenInv, Matching, TypeOK
<1>8. CASE Cardinality(Matching) > Limit
  <2>1. PICK last \in Rows : /\ Last(items, last)
                             /\ cursor' = [created_at |-> created[last], id |-> last]
    BY <1>1, <1>8
  <2>2. pc' = "reading" /\ cursor' # None
    BY <1>1, <1>2, <1>8, <2>1 DEF Cursor, TypeOK
  <2>3. SeenInv'
    BY <1>1, <1>2, <1>3, <2>2 DEF SeenInv
  <2>4. \A q \in Seen \cup items : q = last \/ Newer(q, last)
    BY <1>5, <2>1 DEF Last
  <2>5. CursorInv'
    <3>1. /\ cursor'.created_at = created[last] /\ cursor'.id = last
          /\ Seen' = Seen \cup items /\ created' = created
      BY <1>1, <1>2, <2>1
    <3>2. \A q \in Seen \cup items : q \in Nat /\ created[q] \in Nat
      BY <1>1, <1>3 DEF TypeOK
    <3>3. last \in Nat /\ created[last] \in Nat
      BY DEF TypeOK
    <3>4. \A q \in Seen \cup items : \/ created[q] > created[last]
                                     \/ created[q] = created[last] /\ q >= last
      BY <2>4, <3>2, <3>3 DEF Newer
    <3>5. QED BY <3>1, <3>4 DEF CursorInv
  <2>6. \A r \in Matching \ items : Newer(last, r)
    BY <1>1, <2>1 DEF IsPage, Last
  <2>7. ASSUME NEW r \in Matching \ items
        PROVE  Below(r)' \/ Tied(r, Seen)'
    BY <1>1, <1>2, <1>3, <2>1, <2>6, <2>7 DEF Below, Tied, Newer, Last, TypeOK
  <2>8. \A r \in Rows : Tied(r, Seen) => Tied(r, Seen)'
    BY <1>2 DEF Tied
  <2>9. stable' \subseteq Rows
    BY <1>2, <1>3 DEF TypeOK
  <2>10. OwedInv'
    BY <1>1, <1>2, <1>7, <2>2, <2>7, <2>8, <2>9 DEF OwedInv
  <2>11. QED BY <1>4, <1>6, <2>3, <2>5, <2>10
<1>9. CASE ~(Cardinality(Matching) > Limit)
  <2>1. items = Matching /\ cursor' = None /\ pc' = "end"
    BY <1>1, <1>9 DEF IsPage
  <2>2. SeenInv'
    BY <1>1, <1>2, <1>3, <2>1 DEF SeenInv
  <2>3. CursorInv'
    BY <2>1 DEF CursorInv
  <2>4. \A r \in Rows : Tied(r, Seen) => Tied(r, returned)'
    BY <1>2 DEF Tied
  <2>5. stable' \subseteq Rows
    BY <1>2, <1>3 DEF TypeOK
  <2>6. OwedInv'
    BY <1>1, <1>2, <1>7, <2>1, <2>4, <2>5 DEF OwedInv
  <2>7. QED BY <1>4, <1>6, <2>2, <2>3, <2>6
<1>10. QED BY <1>8, <1>9

\* The invariant is inductive.
LEMMA Invariance == Spec => []Inv
<1>1. Inv /\ [Next]_vars => Inv'
  BY TableStep, OtherStep, AnswerStep DEF Next
<1>2. QED BY InitInv, <1>1, PTL DEF Spec

\* The variables keep their types.
THEOREM TypeCorrect == Spec => []TypeOK
<1>1. Inv => TypeOK
  BY DEF Inv
<1>2. QED BY <1>1, Invariance, PTL

\* Pages come newest first and no row comes twice, for every one of the three
\* lists, whatever is added, deleted and restored in between.
THEOREM PagesComeInOrder == Spec => []PagesDescend
<1>1. Inv => PagesDescend
  BY DEF Inv
<1>2. QED BY <1>1, Invariance, PTL

\* list_users misses nobody who was there all the time.
THEOREM UsersAreAllListed == Spec => []UsersListComplete
<1>1. Inv => UsersListComplete
  BY DEF Inv, OwedInv, Tied, UsersListComplete, Missed
<1>2. QED BY <1>1, Invariance, PTL

\* The lists that compare Python tuples miss at most rows with the created_at
\* of a row that ended a page.
THEOREM OnlyTiesAreMissed == Spec => []MissedOnlyTies
<1>1. Inv => MissedOnlyTies
  BY DEF Inv, OwedInv, Tied, MissedOnlyTies, Missed
<1>2. QED BY <1>1, Invariance, PTL
=============================================================================
