----------------------------- MODULE TokenStore -----------------------------
(***************************************************************************)
(* What authentication promises of tokens, as if it kept them in a table:  *)
(* who is let in with a token may revoke it, or a refresh token of the     *)
(* same user, or exchange a refresh token for a pair once it is revoked.   *)
(* What is revoked lets nobody in until it has expired anyway, and stays   *)
(* revoked (DECISIONS.md D015, docstring at app/api/v1/auth.py:217).       *)
(***************************************************************************)
EXTENDS Integers, Sequences

CONSTANTS Accounts,  \* users
          Req        \* requests

VARIABLES tokens,   \* the tokens issued, in order
          revoked,  \* which of them are revoked
          expired,  \* and which are past the second of their expiry
          bearer    \* the token that each request was let in with, 0 for none

table == <<tokens, revoked, expired>>
vars == <<table, bearer>>

Init == /\ tokens = << >>
        /\ revoked = {} /\ expired = {}
        /\ bearer = [r \in Req |-> 0]

Hold(r, j) == bearer' = [bearer EXCEPT ![r] = j]

\* A request is let in.  The last second of a token may count as expired.
Accept(r) == \E j \in DOMAIN tokens : /\ j \in revoked => j \in expired
                                      /\ Hold(r, j)
                                      /\ UNCHANGED table

\* It ends.
Leave(r) == Hold(r, 0) /\ UNCHANGED table

\* A request revokes its own token, or a refresh token of its user.
Revoke(r) == \E j \in DOMAIN tokens :
               /\ bearer[r] # 0
               /\ tokens[j].user = tokens[bearer[r]].user
               /\ j # bearer[r] => tokens[j].type = "refresh"
               /\ revoked' = revoked \cup {j}
               /\ UNCHANGED <<tokens, expired, bearer>>

Issue(u, parent) ==
  /\ tokens' = tokens \o <<[user |-> u, type |-> "access", parent |-> parent],
                           [user |-> u, type |-> "refresh", parent |-> parent]>>
  /\ UNCHANGED <<revoked, expired>>

\* A login.
Open(u) == Issue(u, 0) /\ UNCHANGED bearer

\* A refresh: one pair, to the same user, and the old token is revoked before.
Exchange(r) == /\ bearer[r] \in revoked
               /\ tokens[bearer[r]].type = "refresh"
               /\ Issue(tokens[bearer[r]].user, bearer[r])
               /\ Hold(r, 0)

\* Time passes.
Expire == /\ expired \subseteq expired' /\ expired' \subseteq DOMAIN tokens
          /\ UNCHANGED <<tokens, revoked, bearer>>

Next == \/ \E r \in Req : Accept(r) \/ Leave(r) \/ Revoke(r) \/ Exchange(r)
        \/ \E u \in Accounts : Open(u)
        \/ Expire

Spec == Init /\ [][Next]_vars
=============================================================================
