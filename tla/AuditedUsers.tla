---------------------------- MODULE AuditedUsers ----------------------------
(***************************************************************************)
(* What the user service promises of the users table and its audit trail:  *)
(* a row changes only together with one new trail entry about it, in one   *)
(* step, and the entry says which way the deleted flag went.  Nothing else *)
(* is ever visible: no change without its entry, no entry without its      *)
(* change (DECISIONS.md D018).                                             *)
(***************************************************************************)
EXTENDS Sequences

CONSTANTS Ids,   \* primary keys of the rows
          Row    \* the values a row can take

VARIABLES users, trail

Entry == [target : Ids,
          action : {"user.updated", "user.deleted", "user.restored"}]

Init == /\ users \in [Ids -> Row]
        /\ trail = << >>

\* One audited change of row u.
Change(u, action) ==
  /\ users'[u] \in Row
  /\ users' = [users EXCEPT ![u] = users'[u]]
  /\ trail' = Append(trail, [target |-> u, action |-> action])
  /\ action = "user.deleted" => users'[u].deleted
  /\ action = "user.restored" => ~users'[u].deleted
  /\ action = "user.updated" => users'[u].deleted = users[u].deleted

Next == \E e \in Entry : Change(e.target, e.action)

Spec == Init /\ [][Next]_<<users, trail>>
=============================================================================
