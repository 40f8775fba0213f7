------------------------------ MODULE Sessions ------------------------------
(***************************************************************************)
(* Tokens and their revocation: login, refresh and logout                  *)
(* (app/api/v1/auth.py), get_current_user (app/auth/dependencies.py) and   *)
(* app/auth/tokens.py.  Tokens carry an expiry in whole seconds and are    *)
(* stored nowhere; a denylist in Redis, whose entries time out, revokes    *)
(* them.  Reading the denylist, reading the user and writing the denylist  *)
(* are separate calls, and requests interleave between them.               *)
(***************************************************************************)
EXTENDS Integers, Sequences

CONSTANTS Accounts,        \* users
          Req,             \* requests, each served once
          AccessTTL,       \* jwt_access_ttl_minutes, in seconds
          RefreshTTL,      \* jwt_refresh_ttl_days, in seconds
          TicksPerSecond,  \* how finely the clock is modelled
          MaxTime,         \* bound on the clock, in ticks
          MaxTokens,       \* bound on the tokens issued
          None             \* no request received yet

ASSUME TTLAssumption == {AccessTTL, RefreshTTL, TicksPerSecond} \subseteq Nat \ {0}
ASSUME BoundAssumption == MaxTime \in Nat /\ MaxTokens \in Nat

VARIABLES now,      \* the clock
          tokens,   \* the tokens issued, in order; a jti is a position
          deny,     \* denylist: until when the entry of a jti is kept
          live,     \* which users are active and not deleted, as committed
          pc,       \* how far each request is
          job,      \* its endpoint and the tokens it presents
          revoked   \* history: the jtis that were ever denylisted

vars == <<now, tokens, deny, live, pc, job, revoked>>

Jti == 1..MaxTokens

Seconds(t) == t \div TicksPerSecond    \* int(timestamp())

\* parent: the refresh token that was exchanged for this one, 0 at a login.
Token == [user : Accounts, type : {"access", "refresh"}, exp : Nat,
          parent : Jti \cup {0}]

\* token: the bearer or, to refresh, the token of the body; other: the token
\* in the body of a logout, 0 for anything else.
Job == [op : {"login"}, user : Accounts]
       \cup [op : {"refresh", "me"}, token : Jti]
       \cup [op : {"logout"}, token : Jti, other : Jti \cup {0}]

Init == /\ now = 0
        /\ tokens = << >>
        /\ deny = [j \in Jti |-> -1]
        /\ live \in [Accounts -> BOOLEAN]
        /\ pc = [r \in Req |-> "new"]
        /\ job = [r \in Req |-> None]
        /\ revoked = {}

Goto(r, label) == pc' = [pc EXCEPT ![r] = label]

-----------------------------------------------------------------------------
(* Tokens and the denylist.                                                *)

\* decode_token: it was issued, and jose takes it through the second exp.
Decodes(j) == j \in DOMAIN tokens /\ Seconds(now) <= tokens[j].exp

\* redis.get(denylist:jti:...): the entry is there until it times out.
Denied(j) == now <= deny[j]

\* Mutant of DenyUntil: the TTL is counted from the second before last.
DenyUntilShort(j) ==
  LET rest == tokens[j].exp - Seconds(now) - 1
  IN  now + TicksPerSecond * (IF rest > 1 THEN rest ELSE 1)

\* setex(..., ttl) with ttl = max(exp - now_ts, 1) whole seconds.
DenyUntil(j) ==
  LET rest == tokens[j].exp - Seconds(now)
  IN  now + TicksPerSecond * (IF rest > 1 THEN rest ELSE 1)

PutOnDenylist(j) == /\ deny' = [deny EXCEPT ![j] = DenyUntil(j)]
                    /\ revoked' = revoked \cup {j}

\* Mutant of Pair: the wrong type claim.
PairOfBearers(user, parent) ==
  <<[user |-> user, type |-> "bearer", parent |-> parent,
     exp |-> Seconds(now + TicksPerSecond * AccessTTL)],
    [user |-> user, type |-> "refresh", parent |-> parent,
     exp |-> Seconds(now + TicksPerSecond * RefreshTTL)]>>

\* create_token, twice: an access and a refresh token.
Pair(user, parent) ==
  <<[user |-> user, type |-> "access", parent |-> parent,
     exp |-> Seconds(now + TicksPerSecond * AccessTTL)],
    [user |-> user, type |-> "refresh", parent |-> parent,
     exp |-> Seconds(now + TicksPerSecond * RefreshTTL)]>>

-----------------------------------------------------------------------------
(* The requests.                                                           *)

\* A login has no token; the password is right, or the request ends here.
Login(r) ==
  /\ pc[r] = "new"
  /\ \E u \in Accounts : job' = [job EXCEPT ![r] = [op |-> "login", user |-> u]]
  /\ \E next \in {"checked", "failed"} : Goto(r, next)
  /\ UNCHANGED <<now, tokens, deny, live, revoked>>

Wanted(op) == IF op = "refresh" THEN "refresh" ELSE "access"

\* The token of the request is decoded, its type and the denylist checked:
\* get_current_user for /me and /logout, the handler itself for /refresh.
Check(r) ==
  /\ pc[r] = "new"
  /\ \E j \in Job :
       /\ j.op # "login"
       /\ j.token \in DOMAIN tokens
       /\ j.op = "logout" => j.other \in DOMAIN tokens \cup {0}
       /\ job' = [job EXCEPT ![r] = j]
       /\ IF /\ Decodes(j.token)
             /\ tokens[j.token].type = Wanted(j.op)
             /\ ~Denied(j.token)
            THEN Goto(r, "checked") ELSE Goto(r, "failed")
  /\ UNCHANGED <<now, tokens, deny, live, revoked>>

Subject(r) == IF job[r].op = "login" THEN job[r].user
              ELSE tokens[job[r].token].user

\* The user is read: 401 unless active and not deleted; /me is served.
Select(r) ==
  /\ pc[r] = "checked"
  /\ CASE ~live[Subject(r)]      -> Goto(r, "failed")
       [] job[r].op = "me"       -> Goto(r, "done")
       [] job[r].op = "login"    -> Goto(r, "issuing")
       [] OTHER                  -> Goto(r, "selected")
  /\ UNCHANGED <<now, tokens, deny, live, job, revoked>>

\* Mutant of DenyOld: rotation without denylisting the old token.
DenyOldNever(r) ==
  /\ pc[r] = "selected"
  /\ job[r].op = "refresh"
  /\ Goto(r, "issuing")
  /\ UNCHANGED <<now, tokens, deny, live, job, revoked>>

\* refresh: the old refresh token goes on the denylist...
DenyOld(r) ==
  /\ pc[r] = "selected"
  /\ job[r].op = "refresh"
  /\ PutOnDenylist(job[r].token)
  /\ Goto(r, "issuing")
  /\ UNCHANGED <<now, tokens, live, job>>

\* ...and then a new pair is issued, as at the end of a login.
Issue(r) ==
  /\ pc[r] = "issuing"
  /\ Len(tokens) + 2 <= MaxTokens
  /\ tokens' = tokens \o Pair(Subject(r), IF job[r].op = "login" THEN 0
                                          ELSE job[r].token)
  /\ Goto(r, "done")
  /\ UNCHANGED <<now, deny, live, job, revoked>>

\* Mutant of OwnRefreshToken: the subject is not compared.
AnyRefreshToken(r, j) == Decodes(j) /\ tokens[j].type = "refresh"

\* What logout asks of the refresh token in its body.
OwnRefreshToken(r, j) == /\ Decodes(j)
                         /\ tokens[j].type = "refresh"
                         /\ tokens[j].user = Subject(r)

\* logout: first the refresh token of the body, if it is the user's own...
DenyRefreshToken(r) ==
  /\ pc[r] = "selected"
  /\ job[r].op = "logout"
  /\ IF OwnRefreshToken(r, job[r].other)
       THEN PutOnDenylist(job[r].other)
       ELSE UNCHANGED <<deny, revoked>>
  /\ Goto(r, "half")
  /\ UNCHANGED <<now, tokens, live, job>>

\* Mutant of DenyAccessToken: the bearer token is left.
DenyAccessTokenNever(r) ==
  /\ pc[r] = "half"
  /\ Goto(r, "answered")
  /\ UNCHANGED <<now, tokens, deny, live, job, revoked>>

\* ...then the bearer token, unless it expired in the meantime; and the audit
\* entry is added to the session.
DenyAccessToken(r) ==
  /\ pc[r] = "half"
  /\ IF Decodes(job[r].token)
       THEN PutOnDenylist(job[r].token)
       ELSE UNCHANGED <<deny, revoked>>
  /\ Goto(r, "answered")
  /\ UNCHANGED <<now, tokens, live, job>>

\* The answer to the logout was sent, and get_db commits its audit entry.
Commit(r) ==
  /\ pc[r] = "answered"
  /\ Goto(r, "done")
  /\ UNCHANGED <<now, tokens, deny, live, job, revoked>>

\* The store fails, or the worker dies, between any two steps.
Abort(r) == /\ pc[r] \notin {"new", "done", "failed"}
            /\ Goto(r, "failed")
            /\ UNCHANGED <<now, tokens, deny, live, job, revoked>>

\* An administrator disables a user, or enables one again (Users.tla).
Toggle(u) == /\ live' = [live EXCEPT ![u] = ~live[u]]
             /\ UNCHANGED <<now, tokens, deny, pc, job, revoked>>

Tick == /\ now < MaxTime
        /\ now' = now + 1
        /\ UNCHANGED <<tokens, deny, live, pc, job, revoked>>

Next == \/ \E r \in Req : \/ Login(r) \/ Check(r) \/ Select(r)
                          \/ DenyOld(r) \/ Issue(r)
                          \/ DenyRefreshToken(r) \/ DenyAccessToken(r)
                          \/ Commit(r) \/ Abort(r)
        \/ \E u \in Accounts : Toggle(u)
        \/ Tick

Spec == Init /\ [][Next]_vars

-----------------------------------------------------------------------------
(* Properties.                                                             *)

\* The variables have their types.
TypeOK ==
  /\ now \in 0..MaxTime
  /\ tokens \in Seq(Token) /\ Len(tokens) <= MaxTokens
  /\ deny \in [Jti -> Int]
  /\ live \in [Accounts -> BOOLEAN]
  /\ pc \in [Req -> {"new", "checked", "selected", "half", "issuing",
                     "answered", "done", "failed"}]
  /\ job \in [Req -> Job \cup {None}]
  /\ revoked \subseteq Jti

Accepts(r) == pc[r] = "new" /\ pc'[r] = "checked" /\ job'[r].op # "login"

\* A token that was denylisted once is refused through the second of its
\* expiry: no entry times out, and none is overwritten, too early for that.
RevokedUntilExp ==
  [][\A r \in Req : Accepts(r) =>
       \/ job'[r].token \notin revoked
       \/ now > TicksPerSecond * tokens[job'[r].token].exp]_vars

\* A refresh token that was exchanged is refused once its successors exist:
\* it is on the denylist before they are issued (theft detection, for uses
\* one after the other).
RotatedTokenRefused ==
  [][\A r \in Req : (Accepts(r) /\ job'[r].op = "refresh") =>
       \/ \A j \in DOMAIN tokens : tokens[j].parent # job'[r].token
       \/ now > TicksPerSecond * tokens[job'[r].token].exp]_vars

\* Nobody can log another user out: a token is denylisted only for a request
\* that presented a token of the same user.
OnlyOwnTokensRevoked ==
  [][\A j \in revoked' \ revoked :
       \E r \in Req : /\ pc[r] \in {"selected", "half"}
                      /\ pc'[r] # pc[r]
                      /\ Subject(r) = tokens[j].user]_vars

\* The token that a request under way was let in with.
Bearer(r) ==
  IF pc[r] \in {"checked", "selected", "half", "issuing", "answered"} /\ job[r].op # "login"
    THEN job[r].token ELSE 0

\* The tokens without their expiry.
Issued == [j \in DOMAIN tokens |-> [user |-> tokens[j].user, type |-> tokens[j].type,
                                    parent |-> tokens[j].parent]]

Expired == {j \in DOMAIN tokens : now > TicksPerSecond * tokens[j].exp}

Bearers == [r \in Req |-> Bearer(r)]

Store == INSTANCE TokenStore
           WITH tokens <- Issued, expired <- Expired, bearer <- Bearers

\* Tokens that nobody stores and a denylist that forgets are as good as a
\* table of tokens: nobody is let in with a revoked token before it expires,
\* nobody revokes another user's, and what is exchanged is revoked before.
TokenStoreSpec == Store!Spec

\* The tokens of the user that a logout presented.
Presented(r) ==
  {job[r].token} \cup {j \in {job[r].other} \cap DOMAIN tokens :
                         /\ tokens[j].type = "refresh"
                         /\ tokens[j].user = Subject(r)}

\* What the audit trail calls a logout is one: once its entry is committed
\* both tokens are refused through the second of their expiry, though they
\* were denylisted in two calls, each of which might have failed.
LogoutRevokes ==
  \A r \in Req : pc[r] = "done" /\ job[r].op = "logout" =>
    \A j \in Presented(r) : Denied(j) \/ now > TicksPerSecond * tokens[j].exp

(* What the documentation says and the code does not do.                   *)

\* auth.py:160: if the same refresh token is used twice, the second use is
\* denied.
RefreshTokensUsedOnce ==
  \A i, j \in DOMAIN tokens :
    (/\ tokens[i].type = "refresh" /\ tokens[j].type = "refresh"
     /\ tokens[i].parent = tokens[j].parent /\ tokens[i].parent # 0) => i = j

\* auth.py:187: the denylist entry can time out when the token would have.
DeniedForGood ==
  [][\A r \in Req : Accepts(r) => job'[r].token \notin revoked]_vars

\* auth.py:217 and 222: logout with both tokens fully logs the user out: no
\* token is minted from a refresh token after a logout denylisted it.
LogoutEndsSession ==
  [][\A r \in Req : (/\ pc[r] = "issuing" /\ pc'[r] = "done"
                     /\ job[r].op = "refresh") =>
       ~\E q \in Req : /\ pc[q] = "done" /\ job[q].op = "logout"
                       /\ job[q].other = job[r].token]_vars
=============================================================================
