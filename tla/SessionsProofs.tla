--------------------------- MODULE SessionsProofs ---------------------------
(***************************************************************************)
(* Theorems about Sessions.tla, for any users, requests, lifetimes and     *)
(* resolution of the clock.                                                *)
(***************************************************************************)
EXTENDS Sessions, SequenceTheorems, TLAPS

-----------------------------------------------------------------------------
(* The inductive invariant.                                                *)

\* A request under way has its job, presents tokens that were issued, and is
\* where its endpoint can be.
JobInv ==
  \A r \in Req : pc[r] \in {"checked", "selected", "half", "issuing", "answered"} =>
    /\ job[r] \in Job
    /\ job[r].op # "login" => job[r].token \in DOMAIN tokens
    /\ pc[r] = "selected" => job[r].op \in {"refresh", "logout"}
    /\ pc[r] \in {"half", "answered"} => job[r].op = "logout"
    /\ pc[r] = "issuing" => job[r].op \in {"login", "refresh"}

\* A revoked token was issued, and its entry is kept through its expiry.
DenyInv ==
  \A j \in revoked : /\ j \in DOMAIN tokens
                     /\ TicksPerSecond * tokens[j].exp <= deny[j]

\* What was exchanged is revoked: the parents of the tokens, and the token of
\* a refresh that is about to issue.
ParentInv ==
  /\ \A j \in DOMAIN tokens : tokens[j].parent \in revoked \cup {0}
  /\ \A r \in Req : pc[r] = "issuing" /\ job[r].op = "refresh" =>
                      job[r].token \in revoked

IInv == TypeOK /\ JobInv /\ DenyInv /\ ParentInv

\* A token that is refused from now on.
Gone(j) == j \in revoked \/ now > TicksPerSecond * tokens[j].exp

\* A logout presents tokens that were issued, and once it is past denylisting
\* one of them, that one is gone.
LogoutOwed(r) ==
  /\ pc[r] \in {"checked", "selected", "half", "answered", "done"}
  /\ job[r].op = "logout"
  => /\ job[r].token \in DOMAIN tokens
     /\ job[r].other \in DOMAIN tokens \cup {0}
     /\ pc[r] \in {"half", "answered", "done"} =>
          \A j \in Presented(r) :
            Gone(j) \/ (pc[r] = "half" /\ j = job[r].token)

LogoutInv == \A r \in Req : LogoutOwed(r)

-----------------------------------------------------------------------------
(* The clock and the denylist.                                             *)

\* The current second has begun.
LEMMA SecondsBegun ==
  ASSUME NEW t \in Nat
  PROVE  /\ Seconds(t) \in Nat
         /\ TicksPerSecond * Seconds(t) <= t
  BY TTLAssumption DEF Seconds

\* An entry of max(exp - now, 1) seconds lasts through the second of exp,
\* whatever fraction of the current second has passed.
LEMMA DenyLasts ==
  ASSUME TypeOK, NEW j \in DOMAIN tokens
  PROVE  /\ DenyUntil(j) \in Int
         /\ TicksPerSecond * tokens[j].exp <= DenyUntil(j)
  <1> DEFINE e == tokens[j].exp
             s == Seconds(now)
             T == TicksPerSecond
             rest == e - s
             ttl == IF rest > 1 THEN rest ELSE 1
  <1>1. e \in Nat /\ now \in Nat /\ T \in Nat \ {0}
    <2>1. tokens[j] \in Token
      BY ElementOfSeq, LenProperties DEF TypeOK
    <2> QED BY <2>1, BoundAssumption, TTLAssumption DEF TypeOK, Token
  <1>2. s \in Nat /\ T * s <= now
    BY <1>1, SecondsBegun
  <1>3. ttl \in Int /\ rest <= ttl
    BY <1>1, <1>2
  <1>4. T * rest <= T * ttl /\ T * ttl \in Int
    <2> HIDE DEF T, ttl, rest
    <2>1. rest \in Int
      BY <1>1, <1>2 DEF rest
    <2> QED BY <1>1, <1>3, <2>1
  <1>5. T * rest = T * e - T * s /\ T * e \in Int /\ T * s \in Int
    <2> HIDE DEF T, e, s
    <2> QED BY <1>1, <1>2
  <1>6. T * e <= now + T * ttl
    <2> HIDE DEF T, e, s, rest, ttl
    <2> QED BY <1>1, <1>2, <1>4, <1>5
  <1>7. DenyUntil(j) = now + T * ttl
    BY DEF DenyUntil
  <1> QED BY <1>1, <1>4, <1>6, <1>7

\* Putting a token on the denylist keeps the entries in order.
LEMMA DenylistKept ==
  ASSUME IInv, NEW j \in DOMAIN tokens, PutOnDenylist(j), UNCHANGED tokens
  PROVE  /\ deny' \in [Jti -> Int]
         /\ revoked' = revoked \cup {j} /\ revoked' \subseteq Jti
         /\ DenyInv'
  <1>1. j \in Jti
    BY BoundAssumption DEF IInv, TypeOK, Jti
  <1>2. DenyUntil(j) \in Int /\ TicksPerSecond * tokens[j].exp <= DenyUntil(j)
    BY DenyLasts DEF IInv
  <1> QED BY <1>1, <1>2 DEF IInv, TypeOK, DenyInv, PutOnDenylist

\* Two more tokens leave the earlier ones where they are.
LEMMA PairIssued ==
  ASSUME TypeOK, NEW u \in Accounts, NEW p \in Jti \cup {0},
         Len(tokens) + 2 <= MaxTokens,
         tokens' = tokens \o Pair(u, p)
  PROVE  /\ tokens' \in Seq(Token) /\ Len(tokens') <= MaxTokens
         /\ DOMAIN tokens \subseteq DOMAIN tokens'
         /\ \A j \in DOMAIN tokens : tokens'[j] = tokens[j]
         /\ \A j \in DOMAIN tokens' \ DOMAIN tokens : tokens'[j].parent = p
         /\ DOMAIN tokens' = 1..(Len(tokens) + 2)
         /\ tokens'[Len(tokens) + 1] = Pair(u, p)[1]
         /\ tokens'[Len(tokens) + 2] = Pair(u, p)[2]
  <1>1. Pair(u, p) \in Seq(Token) /\ Len(Pair(u, p)) = 2
    <2>1. /\ Seconds(now + TicksPerSecond * AccessTTL) \in Nat
          /\ Seconds(now + TicksPerSecond * RefreshTTL) \in Nat
      <3>1. now \in Nat
        BY BoundAssumption DEF TypeOK
      <3>2. /\ now + TicksPerSecond * AccessTTL \in Nat
            /\ now + TicksPerSecond * RefreshTTL \in Nat
        BY <3>1, TTLAssumption
      <3> QED BY <3>2, SecondsBegun
    <2> QED BY <2>1 DEF Pair, Token
  <1>2. Pair(u, p)[1].parent = p /\ Pair(u, p)[2].parent = p
    BY DEF Pair
  <1>3. tokens \in Seq(Token)
    BY DEF TypeOK
  <1>4. /\ tokens' \in Seq(Token)
        /\ Len(tokens') = Len(tokens) + 2
        /\ \A j \in 1..(Len(tokens) + 2) :
             tokens'[j] = IF j <= Len(tokens) THEN tokens[j]
                          ELSE Pair(u, p)[j - Len(tokens)]
    <2> DEFINE pair == Pair(u, p)
    <2>1. pair \in Seq(Token) /\ Len(pair) = 2 /\ tokens' = tokens \o pair
      BY <1>1
    <2> HIDE DEF pair
    <2>2. /\ tokens \o pair \in Seq(Token)
          /\ Len(tokens \o pair) = Len(tokens) + Len(pair)
          /\ \A j \in 1..(Len(tokens) + Len(pair)) :
               (tokens \o pair)[j] = IF j <= Len(tokens) THEN tokens[j]
                                     ELSE pair[j - Len(tokens)]
      BY <2>1, <1>3, ConcatProperties, Zenon
    <2> QED BY <2>1, <2>2 DEF pair
  <1>5. /\ Len(tokens) \in Nat
        /\ DOMAIN tokens = 1..Len(tokens)
        /\ DOMAIN tokens' = 1..(Len(tokens) + 2)
    BY <1>3, <1>4, LenProperties
  <1>6. \A j \in DOMAIN tokens' \ DOMAIN tokens :
          j - Len(tokens) = 1 \/ j - Len(tokens) = 2
    BY <1>5
  <1>7. /\ tokens'[Len(tokens) + 1] = Pair(u, p)[1]
        /\ tokens'[Len(tokens) + 2] = Pair(u, p)[2]
    BY <1>4, <1>5
  <1> QED BY <1>2, <1>4, <1>5, <1>6, <1>7, BoundAssumption

\* A login or a refresh issues for its own user, on top of what there was.
LEMMA IssueKeeps ==
  ASSUME IInv, NEW r \in Req, Issue(r)
  PROVE  /\ tokens' \in Seq(Token) /\ Len(tokens') <= MaxTokens
         /\ DOMAIN tokens \subseteq DOMAIN tokens'
         /\ \A j \in DOMAIN tokens : tokens'[j] = tokens[j]
         /\ \A j \in DOMAIN tokens' \ DOMAIN tokens :
              tokens'[j].parent = IF job[r].op = "login" THEN 0 ELSE job[r].token
         /\ DOMAIN tokens' = 1..(Len(tokens) + 2)
         /\ LET pair == Pair(Subject(r), IF job[r].op = "login" THEN 0 ELSE job[r].token)
            IN  tokens'[Len(tokens) + 1] = pair[1] /\ tokens'[Len(tokens) + 2] = pair[2]
         /\ Subject(r) \in Accounts
  <1> DEFINE p == IF job[r].op = "login" THEN 0 ELSE job[r].token
  <1>1. /\ job[r] \in Job
        /\ job[r].op = "login" \/ job[r].op = "refresh"
        /\ job[r].op = "refresh" =>
             job[r].token \in DOMAIN tokens /\ job[r].token \in revoked
    BY DEF Issue, IInv, JobInv, ParentInv
  <1>2. p \in revoked \cup {0} /\ p \in Jti \cup {0}
    BY <1>1 DEF IInv, TypeOK
  <1>3. Subject(r) \in Accounts
    <2>1. CASE job[r].op = "login"
      BY <1>1, <2>1 DEF Subject, Job
    <2>2. CASE job[r].op = "refresh"
      <3>1. tokens[job[r].token] \in Token
        BY <1>1, <2>2, ElementOfSeq, LenProperties DEF IInv, TypeOK
      <3> QED BY <2>2, <3>1 DEF Subject, Token
    <2> QED BY <1>1, <2>1, <2>2
  <1>4. /\ tokens' \in Seq(Token) /\ Len(tokens') <= MaxTokens
        /\ DOMAIN tokens \subseteq DOMAIN tokens'
        /\ \A j \in DOMAIN tokens : tokens'[j] = tokens[j]
        /\ \A j \in DOMAIN tokens' \ DOMAIN tokens : tokens'[j].parent = p
        /\ DOMAIN tokens' = 1..(Len(tokens) + 2)
        /\ tokens'[Len(tokens) + 1] = Pair(Subject(r), p)[1]
        /\ tokens'[Len(tokens) + 2] = Pair(Subject(r), p)[2]
    <2> HIDE DEF p
    <2>1. tokens' = tokens \o Pair(Subject(r), p) /\ Len(tokens) + 2 <= MaxTokens
      BY DEF Issue, p
    <2> QED BY <1>2, <1>3, <2>1, PairIssued DEF IInv
  <1> QED BY <1>3, <1>4

-----------------------------------------------------------------------------
(* Every step keeps the invariant.                                         *)

\* A request that moves on, and touches no token and no denylist entry, keeps
\* the invariant if it moves to where its endpoint can be.
LEMMA MoveKeeps ==
  ASSUME IInv, NEW r \in Req,
         NEW label \in {"checked", "selected", "half", "issuing", "done", "failed"},
         Goto(r, label), UNCHANGED <<now, tokens, deny, live, revoked>>,
         job' \in [Req -> Job \cup {None}],
         \A q \in Req \ {r} : job'[q] = job[q],
         label \notin {"done", "failed"} =>
           /\ job'[r] \in Job
           /\ job'[r].op # "login" => job'[r].token \in DOMAIN tokens,
         label = "selected" => job'[r].op \in {"refresh", "logout"},
         label # "half",
         label = "issuing" => job'[r].op = "login"
  PROVE  IInv'
  BY DEF IInv, TypeOK, JobInv, DenyInv, ParentInv, Goto

\* Every step of every request, and of the clock, keeps the invariant.
LEMMA NextInvariant == IInv /\ [Next]_vars => IInv'
  <1> SUFFICES ASSUME IInv, [Next]_vars PROVE IInv'
    OBVIOUS
  <1> USE DEF Goto
  <1>0. CASE UNCHANGED vars
    BY <1>0 DEF vars, IInv, TypeOK, JobInv, DenyInv, ParentInv
  <1>1. ASSUME NEW r \in Req, Login(r) PROVE IInv'
    <2>1. PICK u \in Accounts : job' = [job EXCEPT ![r] = [op |-> "login", user |-> u]]
      BY <1>1 DEF Login
    <2>2. [op |-> "login", user |-> u] \in Job
      BY DEF Job
    <2> QED BY <1>1, <2>1, <2>2, MoveKeeps DEF Login, IInv, TypeOK
  <1>2. ASSUME NEW r \in Req, Check(r) PROVE IInv'
    <2>1. PICK j \in Job : /\ j.token \in DOMAIN tokens
                           /\ job' = [job EXCEPT ![r] = j]
      BY <1>2 DEF Check
    <2>2. Goto(r, "checked") \/ Goto(r, "failed")
      BY <1>2 DEF Check
    <2> QED BY <1>2, <2>1, <2>2, MoveKeeps DEF Check, IInv, TypeOK
  <1>3. ASSUME NEW r \in Req, Select(r) PROVE IInv'
    <2>1. /\ job[r] \in Job
          /\ job[r].op # "login" => job[r].token \in DOMAIN tokens
          /\ job[r].op \in {"login", "me", "refresh", "logout"}
      BY <1>3 DEF Select, IInv, JobInv, Job
    <2>2. \/ Goto(r, "failed") \/ Goto(r, "done")
          \/ job[r].op = "login" /\ Goto(r, "issuing")
          \/ job[r].op \in {"refresh", "logout"} /\ Goto(r, "selected")
      BY <1>3, <2>1 DEF Select
    <2> QED BY <1>3, <2>1, <2>2, MoveKeeps DEF Select, IInv, TypeOK
  <1>4. ASSUME NEW r \in Req, DenyOld(r) PROVE IInv'
    <2>1. job[r].token \in DOMAIN tokens
      BY <1>4 DEF DenyOld, IInv, JobInv
    <2>2. /\ deny' \in [Jti -> Int] /\ revoked' \subseteq Jti /\ DenyInv'
          /\ revoked' = revoked \cup {job[r].token}
      BY <1>4, <2>1, DenylistKept DEF DenyOld
    <2> QED BY <1>4, <2>2 DEF DenyOld, IInv, TypeOK, JobInv, ParentInv
  <1>5. ASSUME NEW r \in Req, Issue(r) PROVE IInv'
    <2> DEFINE p == IF job[r].op = "login" THEN 0 ELSE job[r].token
    <2>2. p \in revoked \cup {0}
      BY <1>5 DEF Issue, IInv, JobInv, ParentInv
    <2>4. /\ tokens' \in Seq(Token) /\ Len(tokens') <= MaxTokens
          /\ DOMAIN tokens \subseteq DOMAIN tokens'
          /\ \A j \in DOMAIN tokens : tokens'[j] = tokens[j]
          /\ \A j \in DOMAIN tokens' \ DOMAIN tokens : tokens'[j].parent = p
      BY <1>5, IssueKeeps
    <2>5. TypeOK'
      BY <1>5, <2>4 DEF Issue, IInv, TypeOK
    <2>6. JobInv'
      BY <1>5, <2>4 DEF Issue, IInv, TypeOK, JobInv
    <2>7. DenyInv'
      BY <1>5, <2>4 DEF Issue, IInv, DenyInv
    <2>8. ParentInv'
      <3> HIDE DEF p
      <3>1. \A j \in DOMAIN tokens' : tokens'[j].parent \in revoked' \cup {0}
        BY <1>5, <2>2, <2>4 DEF Issue, IInv, ParentInv
      <3> QED BY <1>5, <3>1 DEF Issue, IInv, TypeOK, ParentInv
    <2> QED BY <2>5, <2>6, <2>7, <2>8 DEF IInv
  <1>6. ASSUME NEW r \in Req, DenyRefreshToken(r) PROVE IInv'
    <2>1. CASE OwnRefreshToken(r, job[r].other)
      <3>1. job[r].other \in DOMAIN tokens
        BY <2>1 DEF OwnRefreshToken, Decodes
      <3>2. /\ deny' \in [Jti -> Int] /\ revoked' \subseteq Jti /\ DenyInv'
            /\ revoked \subseteq revoked'
        BY <1>6, <2>1, <3>1, DenylistKept DEF DenyRefreshToken
      <3> QED BY <1>6, <3>2 DEF DenyRefreshToken, IInv, TypeOK, JobInv, ParentInv
    <2>2. CASE ~OwnRefreshToken(r, job[r].other)
      BY <1>6, <2>2
      DEF DenyRefreshToken, IInv, TypeOK, JobInv, DenyInv, ParentInv
    <2> QED BY <2>1, <2>2
  <1>7. ASSUME NEW r \in Req, DenyAccessToken(r) PROVE IInv'
    <2>1. CASE Decodes(job[r].token)
      <3>1. job[r].token \in DOMAIN tokens
        BY <2>1 DEF Decodes
      <3>2. /\ deny' \in [Jti -> Int] /\ revoked' \subseteq Jti /\ DenyInv'
            /\ revoked \subseteq revoked'
        BY <1>7, <2>1, <3>1, DenylistKept DEF DenyAccessToken
      <3> QED BY <1>7, <3>2 DEF DenyAccessToken, IInv, TypeOK, JobInv, ParentInv
    <2>2. CASE ~Decodes(job[r].token)
      BY <1>7, <2>2
      DEF DenyAccessToken, IInv, TypeOK, JobInv, DenyInv, ParentInv
    <2> QED BY <2>1, <2>2
  <1>8. ASSUME NEW r \in Req, Commit(r) \/ Abort(r) PROVE IInv'
    BY <1>8, MoveKeeps DEF Commit, Abort, IInv, TypeOK
  <1>9. ASSUME NEW u \in Accounts, Toggle(u) PROVE IInv'
    BY <1>9 DEF Toggle, IInv, TypeOK, JobInv, DenyInv, ParentInv
  <1>10. CASE Tick
    BY <1>10, BoundAssumption
    DEF Tick, IInv, TypeOK, JobInv, DenyInv, ParentInv
  <1> QED
    BY <1>0, <1>1, <1>2, <1>3, <1>4, <1>5, <1>6, <1>7, <1>8, <1>9, <1>10 DEF Next

-----------------------------------------------------------------------------
(* The theorems.                                                           *)

\* The initial states satisfy the invariant.
LEMMA InitInvariant == Init => IInv
  <1> SUFFICES ASSUME Init PROVE IInv
    OBVIOUS
  <1>1. tokens \in Seq(Token) /\ Len(tokens) = 0 /\ DOMAIN tokens = {}
    BY EmptySeq, LenProperties DEF Init
  <1> QED BY <1>1, BoundAssumption
          DEF Init, IInv, TypeOK, JobInv, DenyInv, ParentInv

\* The invariant holds in every state.
THEOREM Invariance == Spec => []IInv
  BY InitInvariant, NextInvariant, PTL DEF Spec

\* Every variable of Sessions.tla keeps its type.
THEOREM TypeCorrect == Spec => []TypeOK
  BY Invariance, PTL DEF IInv

\* Only Check lets a request in.
LEMMA AcceptedByCheck ==
  ASSUME IInv, [Next]_vars, NEW r \in Req, Accepts(r)
  PROVE  Check(r)
  <1>1. \A q \in Req : Login(q) \/ Check(q) => q = r
    BY DEF Login, Check, Accepts, Goto, IInv, TypeOK
  <1>2. ~Login(r)
    BY DEF Login, Accepts, IInv, TypeOK
  <1>3. \A q \in Req : ~(\/ Select(q) \/ DenyOld(q) \/ Issue(q)
                         \/ DenyRefreshToken(q) \/ DenyAccessToken(q)
                         \/ Commit(q) \/ Abort(q))
    BY DEF Select, DenyOld, Issue, DenyRefreshToken, DenyAccessToken, Commit,
           Abort, Accepts, Goto, IInv, TypeOK
  <1> QED BY <1>1, <1>2, <1>3 DEF Accepts, Next, Toggle, Tick, vars

\* Who is let in presented a token that was issued and is not denied.
LEMMA AcceptedNotDenied ==
  ASSUME IInv, [Next]_vars, NEW r \in Req, Accepts(r)
  PROVE  /\ job'[r].token \in DOMAIN tokens
         /\ job'[r].op \in {"refresh", "me", "logout"}
         /\ now > deny[job'[r].token]
  <1>1. Check(r)
    BY AcceptedByCheck
  <1>2. PICK j \in Job :
          /\ j.op # "login"
          /\ j.token \in DOMAIN tokens
          /\ job' = [job EXCEPT ![r] = j]
          /\ IF /\ Decodes(j.token)
                /\ tokens[j.token].type = Wanted(j.op)
                /\ ~Denied(j.token)
               THEN Goto(r, "checked") ELSE Goto(r, "failed")
    BY <1>1 DEF Check
  <1>3. job'[r] = j /\ j.op \in {"refresh", "me", "logout"}
    BY <1>2 DEF IInv, TypeOK, Job
  <1>4. ~Denied(j.token)
    BY <1>2 DEF Accepts, Goto, IInv, TypeOK
  <1>5. j.token \in Jti /\ now \in Int /\ deny[j.token] \in Int
    BY <1>2, BoundAssumption DEF IInv, TypeOK, Jti
  <1> QED BY <1>2, <1>3, <1>4, <1>5 DEF Denied

\* A revoked token is refused as long as its last second has not begun.
LEMMA RevokedRefused ==
  ASSUME IInv, [Next]_vars, NEW r \in Req, Accepts(r), job'[r].token \in revoked
  PROVE  now > TicksPerSecond * tokens[job'[r].token].exp
  <1> DEFINE j == job'[r].token
  <1>1. j \in DOMAIN tokens /\ now > deny[j]
    BY AcceptedNotDenied
  <1>2. TicksPerSecond * tokens[j].exp <= deny[j]
    BY DEF IInv, DenyInv
  <1>3. tokens[j] \in Token
    BY <1>1, ElementOfSeq, LenProperties DEF IInv, TypeOK
  <1>4. TicksPerSecond * tokens[j].exp \in Int
    BY <1>3, TTLAssumption DEF Token
  <1>5. now \in Int /\ deny[j] \in Int
    BY <1>1, BoundAssumption DEF IInv, TypeOK, Jti
  <1> HIDE DEF j
  <1>6. now > TicksPerSecond * tokens[j].exp
    BY <1>1, <1>2, <1>4, <1>5
  <1> QED BY <1>6 DEF j

\* No denylist entry times out, or is overwritten, before the second of its
\* token's expiry: until then the token is refused everywhere.
THEOREM RevocationLasts == Spec => RevokedUntilExp
  <1>1. IInv /\ [Next]_vars =>
          [\A r \in Req : Accepts(r) =>
             \/ job'[r].token \notin revoked
             \/ now > TicksPerSecond * tokens[job'[r].token].exp]_vars
    BY RevokedRefused
  <1> QED BY <1>1, Invariance, PTL DEF Spec, RevokedUntilExp

\* A refresh token with successors is refused: it was revoked before they
\* were issued.
THEOREM RotationLasts == Spec => RotatedTokenRefused
  <1>1. IInv /\ [Next]_vars =>
          [\A r \in Req : (Accepts(r) /\ job'[r].op = "refresh") =>
             \/ \A j \in DOMAIN tokens : tokens[j].parent # job'[r].token
             \/ now > TicksPerSecond * tokens[job'[r].token].exp]_vars
    <2> SUFFICES ASSUME IInv, [Next]_vars, NEW r \in Req, Accepts(r),
                        NEW j \in DOMAIN tokens,
                        tokens[j].parent = job'[r].token
                 PROVE  now > TicksPerSecond * tokens[job'[r].token].exp
      OBVIOUS
    <2>1. job'[r].token \in DOMAIN tokens
      BY AcceptedNotDenied
    <2>2. job'[r].token # 0
      BY <2>1, LenProperties DEF IInv, TypeOK
    <2>3. job'[r].token \in revoked
      BY <2>2 DEF IInv, ParentInv
    <2> QED BY <2>3, RevokedRefused
  <1> QED BY <1>1, Invariance, PTL DEF Spec, RotatedTokenRefused

\* A token goes on the denylist only by the hand of a request that presented
\* a token of the same user.
THEOREM RevocationsAreOwn == Spec => OnlyOwnTokensRevoked
  <1>1. IInv /\ [Next]_vars =>
          [\A j \in revoked' \ revoked :
             \E r \in Req : /\ pc[r] \in {"selected", "half"}
                            /\ pc'[r] # pc[r]
                            /\ Subject(r) = tokens[j].user]_vars
    <2> SUFFICES ASSUME IInv, [Next]_vars, NEW j \in revoked' \ revoked
                 PROVE  \E r \in Req : /\ pc[r] \in {"selected", "half"}
                                       /\ pc'[r] # pc[r]
                                       /\ Subject(r) = tokens[j].user
      OBVIOUS
    <2>1. PICK r \in Req : DenyOld(r) \/ DenyRefreshToken(r) \/ DenyAccessToken(r)
      BY DEF Next, Login, Check, Select, Issue, Commit, Abort, Toggle, Tick, vars
    <2>2. CASE DenyOld(r) \/ DenyAccessToken(r)
      <3>1. j = job[r].token /\ job[r].op # "login"
        BY <2>2 DEF DenyOld, DenyAccessToken, PutOnDenylist, IInv, JobInv
      <3>2. pc[r] \in {"selected", "half"} /\ pc'[r] # pc[r]
        BY <2>2 DEF DenyOld, DenyAccessToken, Goto, IInv, TypeOK
      <3> QED BY <3>1, <3>2 DEF Subject
    <2>3. CASE DenyRefreshToken(r)
      <3>1. j = job[r].other /\ OwnRefreshToken(r, j)
        BY <2>3 DEF DenyRefreshToken, PutOnDenylist
      <3>2. pc[r] = "selected" /\ pc'[r] # pc[r]
        BY <2>3 DEF DenyRefreshToken, Goto, IInv, TypeOK
      <3> QED BY <3>1, <3>2 DEF OwnRefreshToken
    <2> QED BY <2>1, <2>2, <2>3
  <1> QED BY <1>1, Invariance, PTL DEF Spec, OnlyOwnTokensRevoked
-----------------------------------------------------------------------------
(* Logout.                                                                 *)

\* A token that does not decode is past the second of its expiry.
LEMMA ExpiredGone ==
  ASSUME TypeOK, NEW j \in DOMAIN tokens, ~Decodes(j)
  PROVE  now > TicksPerSecond * tokens[j].exp
  <1> DEFINE e == tokens[j].exp
             s == Seconds(now)
             T == TicksPerSecond
  <1>1. e \in Nat /\ now \in Nat /\ T \in Nat \ {0}
    <2>1. tokens[j] \in Token
      BY ElementOfSeq, LenProperties DEF TypeOK
    <2> QED BY <2>1, BoundAssumption, TTLAssumption DEF TypeOK, Token
  <1>2. s \in Nat /\ T * s <= now
    BY <1>1, SecondsBegun
  <1>3. s >= e + 1
    BY <1>1, <1>2 DEF Decodes
  <1> HIDE DEF e, s, T
  <1>4. T * s >= T * (e + 1)
    BY <1>1, <1>2, <1>3
  <1>5. T * (e + 1) = T * e + T /\ T * e \in Int /\ T * s \in Int
    BY <1>1, <1>2
  <1>6. now > T * e
    BY <1>1, <1>2, <1>4, <1>5
  <1> QED BY <1>6 DEF e, T

\* Tokens stay as they were issued, the clock does not go back, and nothing
\* leaves the history of revocations: what is gone stays gone.
LEMMA GoneStays ==
  ASSUME IInv, [Next]_vars, NEW j \in DOMAIN tokens
  PROVE  /\ j \in DOMAIN tokens'
         /\ tokens'[j] = tokens[j]
         /\ Gone(j) => Gone(j)'
  <1>1. /\ DOMAIN tokens \subseteq DOMAIN tokens'
        /\ \A i \in DOMAIN tokens : tokens'[i] = tokens[i]
    <2>1. CASE \E r \in Req : Issue(r)
      <3>1. PICK r \in Req : Issue(r)
        BY <2>1
      <3> QED BY <3>1, IssueKeeps
    <2>2. CASE ~\E r \in Req : Issue(r)
      <3>1. tokens' = tokens
        BY <2>2 DEF Next, Login, Check, Select, DenyOld, DenyRefreshToken,
                    DenyAccessToken, Commit, Abort, Toggle, Tick, vars
      <3> QED BY <3>1
    <2> QED BY <2>1, <2>2
  <1>2. revoked \subseteq revoked'
    BY DEF Next, Login, Check, Select, DenyOld, Issue, DenyRefreshToken,
           DenyAccessToken, Commit, Abort, Toggle, Tick, vars, PutOnDenylist
  <1>3. now' = now \/ now' = now + 1
    BY DEF Next, Login, Check, Select, DenyOld, Issue, DenyRefreshToken,
           DenyAccessToken, Commit, Abort, Toggle, Tick, vars
  <1>4. now \in Int /\ TicksPerSecond * tokens[j].exp \in Int
    <2>1. tokens[j] \in Token
      BY ElementOfSeq, LenProperties DEF IInv, TypeOK
    <2> QED BY <2>1, BoundAssumption, TTLAssumption DEF IInv, TypeOK, Token
  <1>5. now > TicksPerSecond * tokens[j].exp
          => now' > TicksPerSecond * tokens[j].exp
    BY <1>3, <1>4
  <1> QED BY <1>1, <1>2, <1>5 DEF Gone

\* What a logout presented is the same tokens as long as it runs.
LEMMA PresentedStays ==
  ASSUME IInv, [Next]_vars, NEW r \in Req, job'[r] = job[r],
         job[r].token \in DOMAIN tokens,
         job[r].other \in DOMAIN tokens \cup {0}
  PROVE  /\ Presented(r)' = Presented(r)
         /\ Presented(r) \subseteq DOMAIN tokens
         /\ job[r].other \in DOMAIN tokens' \cup {0}
         /\ job[r].token \in DOMAIN tokens'
         /\ \A j \in Presented(r) : Gone(j) => Gone(j)'
  <1>1. /\ \A j \in DOMAIN tokens : j \in DOMAIN tokens'
        /\ \A j \in DOMAIN tokens : tokens'[j] = tokens[j]
    BY GoneStays
  <1>2. 0 \notin DOMAIN tokens /\ 0 \notin DOMAIN tokens'
    <2>1. tokens \in Seq(Token) /\ tokens' \in Seq(Token)
      BY NextInvariant DEF IInv, TypeOK
    <2> QED BY <2>1, LenProperties
  <1>3. /\ {job[r].other} \cap DOMAIN tokens' = {job[r].other} \cap DOMAIN tokens
        /\ tokens'[job[r].token] = tokens[job[r].token]
        /\ \A j \in {job[r].other} \cap DOMAIN tokens : tokens'[j] = tokens[j]
    <2> DEFINE o == job[r].other
               D == DOMAIN tokens
               E == DOMAIN tokens'
    <2>1. /\ o \in D \cup {0} /\ 0 \notin D /\ 0 \notin E
          /\ \A j \in D : j \in E
      BY <1>1, <1>2
    <2>2. {o} \cap E = {o} \cap D
      <3> HIDE DEF o, D, E
      <3> QED BY <2>1
    <2> QED BY <1>1, <2>2
  <1>4. Subject(r)' = Subject(r) \/ job[r].op = "login"
    BY <1>3 DEF Subject
  <1>5. job[r].op = "login" => Subject(r)' = Subject(r)
    BY DEF Subject
  <1>6. Presented(r)' = Presented(r)
    BY <1>3, <1>4, <1>5 DEF Presented
  <1>7. Presented(r) \subseteq DOMAIN tokens
    BY DEF Presented
  <1>8. \A j \in Presented(r) : Gone(j) => Gone(j)'
    BY <1>7, GoneStays
  <1>9. job[r].other \in DOMAIN tokens' \cup {0} /\ job[r].token \in DOMAIN tokens'
    BY <1>1
  <1> QED BY <1>6, <1>7, <1>8, <1>9

\* A step that leaves a request alone, or takes it from one place to another
\* that owes no more, keeps what it is owed.
LEMMA OwedStays ==
  ASSUME IInv, [Next]_vars, NEW r \in Req, LogoutOwed(r), job'[r] = job[r],
         \/ pc'[r] = pc[r]
         \/ pc[r] = "checked" /\ pc'[r] = "selected"
         \/ pc[r] = "answered" /\ pc'[r] = "done"
  PROVE  LogoutOwed(r)'
  <1> SUFFICES ASSUME pc[r] \in {"checked", "selected", "half", "answered", "done"},
                      job[r].op = "logout"
               PROVE  LogoutOwed(r)'
    BY DEF LogoutOwed
  <1>1. job[r].token \in DOMAIN tokens /\ job[r].other \in DOMAIN tokens \cup {0}
    BY DEF LogoutOwed
  <1> QED BY <1>1, PresentedStays DEF LogoutOwed

\* Every step keeps what the logouts are owed.
LEMMA LogoutStep == IInv /\ LogoutInv /\ [Next]_vars => LogoutInv'
  <1> SUFFICES ASSUME IInv, [Next]_vars, NEW r \in Req, LogoutOwed(r)
               PROVE  LogoutOwed(r)'
    BY DEF LogoutInv
  <1>1. CASE pc'[r] = pc[r] /\ job'[r] = job[r]
    BY <1>1, OwedStays
  <1>2. CASE Login(r)
    <2>1. job'[r].op = "login"
      BY <1>2 DEF Login, IInv, TypeOK
    <2> QED BY <2>1 DEF LogoutOwed
  <1>3. CASE Check(r)
    <2>1. /\ tokens' = tokens
          /\ pc'[r] \in {"checked", "failed"}
          /\ job'[r].token \in DOMAIN tokens
          /\ job'[r].op = "logout" => job'[r].other \in DOMAIN tokens \cup {0}
      BY <1>3 DEF Check, Goto, IInv, TypeOK
    <2> QED BY <2>1 DEF LogoutOwed
  <1>4. CASE Select(r)
    <2>1. /\ job'[r] = job[r] /\ pc[r] = "checked"
          /\ job[r] \in Job
      BY <1>4 DEF Select, IInv, JobInv
    <2>2. \/ pc'[r] \in {"failed", "issuing"}
          \/ pc'[r] = "done" /\ job[r].op = "me"
          \/ pc'[r] = "selected"
      BY <1>4, <2>1 DEF Select, Goto, IInv, TypeOK
    <2> QED BY <2>1, <2>2, OwedStays DEF LogoutOwed
  <1>5. CASE DenyOld(r) \/ Issue(r) \/ Abort(r)
    <2>1. \/ pc'[r] \in {"failed", "issuing"}
          \/ job'[r].op \in {"login", "refresh"}
      BY <1>5 DEF DenyOld, Issue, Abort, Goto, IInv, TypeOK, JobInv
    <2> QED BY <2>1 DEF LogoutOwed
  <1>6. CASE DenyRefreshToken(r)
    <2>1. /\ job'[r] = job[r] /\ tokens' = tokens /\ now' = now
          /\ job[r].op = "logout" /\ pc[r] = "selected" /\ pc'[r] = "half"
      BY <1>6 DEF DenyRefreshToken, Goto, IInv, TypeOK
    <2>2. job[r].token \in DOMAIN tokens /\ job[r].other \in DOMAIN tokens \cup {0}
      BY <2>1 DEF LogoutOwed
    <2>3. Presented(r)' = Presented(r)
      BY <2>1, <2>2, PresentedStays
    <2>4. ASSUME NEW j \in Presented(r), j # job[r].token PROVE Gone(j)'
      <3>1. /\ j = job[r].other /\ j \in DOMAIN tokens
            /\ tokens[j].type = "refresh" /\ tokens[j].user = Subject(r)
        BY <2>4 DEF Presented
      <3>2. CASE Decodes(j)
        BY <1>6, <3>1, <3>2 DEF DenyRefreshToken, OwnRefreshToken, PutOnDenylist, Gone
      <3>3. CASE ~Decodes(j)
        BY <2>1, <3>1, <3>3, ExpiredGone DEF IInv, Gone
      <3> QED BY <3>2, <3>3
    <2> QED BY <2>1, <2>2, <2>3, <2>4 DEF LogoutOwed
  <1>7. CASE DenyAccessToken(r)
    <2>1. /\ job'[r] = job[r] /\ tokens' = tokens /\ now' = now
          /\ job[r].op = "logout" /\ pc[r] = "half" /\ pc'[r] = "answered"
      BY <1>7 DEF DenyAccessToken, Goto, IInv, TypeOK, JobInv
    <2>2. job[r].token \in DOMAIN tokens /\ job[r].other \in DOMAIN tokens \cup {0}
      BY <2>1 DEF LogoutOwed
    <2>3. /\ Presented(r)' = Presented(r)
          /\ \A j \in Presented(r) : Gone(j) => Gone(j)'
      BY <2>1, <2>2, PresentedStays
    <2>4. Gone(job[r].token)'
      <3>1. CASE Decodes(job[r].token)
        BY <1>7, <2>1, <3>1 DEF DenyAccessToken, PutOnDenylist, Gone
      <3>2. CASE ~Decodes(job[r].token)
        BY <2>1, <2>2, <3>2, ExpiredGone DEF IInv, Gone
      <3> QED BY <3>1, <3>2
    <2> QED BY <2>1, <2>2, <2>3, <2>4 DEF LogoutOwed
  <1>8. CASE Commit(r)
    <2>1. job'[r] = job[r] /\ pc[r] = "answered" /\ pc'[r] = "done"
      BY <1>8 DEF Commit, Goto, IInv, TypeOK
    <2> QED BY <2>1, OwedStays
  <1>9. \/ pc'[r] = pc[r] /\ job'[r] = job[r]
        \/ Login(r) \/ Check(r) \/ Select(r) \/ DenyOld(r) \/ Issue(r)
        \/ DenyRefreshToken(r) \/ DenyAccessToken(r) \/ Commit(r) \/ Abort(r)
    <2>1. CASE \E q \in Req \ {r} :
                 \/ Login(q) \/ Check(q) \/ Select(q) \/ DenyOld(q) \/ Issue(q)
                 \/ DenyRefreshToken(q) \/ DenyAccessToken(q)
                 \/ Commit(q) \/ Abort(q)
      <3>1. pc'[r] = pc[r] /\ job'[r] = job[r]
        BY <2>1 DEF Login, Check, Select, DenyOld, Issue, DenyRefreshToken,
                    DenyAccessToken, Commit, Abort, Goto, IInv, TypeOK
      <3> QED BY <3>1
    <2>2. CASE UNCHANGED vars \/ Tick \/ \E u \in Accounts : Toggle(u)
      BY <2>2 DEF vars, Tick, Toggle
    <2> QED BY <2>1, <2>2 DEF Next
  <1> QED BY <1>1, <1>2, <1>3, <1>4, <1>5, <1>6, <1>7, <1>8, <1>9

\* Once a logout is committed to the audit trail, the tokens it presented are
\* refused through the second of their expiry, wherever its two writes to the
\* denylist and the clock fell, and whoever else wrote there.
THEOREM LogoutsRevoke == Spec => []LogoutRevokes
  <1>1. Init => LogoutInv
    BY DEF Init, LogoutInv, LogoutOwed
  <1>2. IInv /\ LogoutInv => LogoutRevokes
    <2> SUFFICES ASSUME IInv, LogoutInv, NEW r \in Req,
                        pc[r] = "done", job[r].op = "logout",
                        NEW j \in Presented(r)
                 PROVE  Denied(j) \/ now > TicksPerSecond * tokens[j].exp
      BY DEF LogoutRevokes
    <2>1. Gone(j) /\ j \in DOMAIN tokens
      BY DEF LogoutInv, LogoutOwed, Presented
    <2>2. CASE j \in revoked
      <3>1. TicksPerSecond * tokens[j].exp <= deny[j]
        BY <2>2 DEF IInv, DenyInv
      <3>2. tokens[j] \in Token
        BY <2>1, ElementOfSeq, LenProperties DEF IInv, TypeOK
      <3>3. TicksPerSecond * tokens[j].exp \in Int
        BY <3>2, TTLAssumption DEF Token
      <3>4. now \in Int /\ deny[j] \in Int
        BY <2>2, BoundAssumption DEF IInv, TypeOK
      <3> QED BY <3>1, <3>3, <3>4 DEF Denied
    <2> QED BY <2>1, <2>2 DEF Gone
  <1> QED BY <1>1, <1>2, LogoutStep, Invariance, PTL DEF Spec

-----------------------------------------------------------------------------
(* The table of tokens that Sessions implements.                           *)

\* Who exchanges a token was let in with a refresh token.
RefreshInv ==
  \A r \in Req : /\ pc[r] \in {"checked", "selected", "issuing"}
                 /\ job[r].op = "refresh"
                 => tokens[job[r].token].type = "refresh"

\* The type of a token is looked at when a request is let in, and tokens do not
\* change.
LEMMA RefreshStep == IInv /\ RefreshInv /\ [Next]_vars => RefreshInv'
  <1> SUFFICES ASSUME IInv, RefreshInv, [Next]_vars, NEW r \in Req,
                      pc'[r] \in {"checked", "selected", "issuing"},
                      job'[r].op = "refresh"
               PROVE  tokens'[job'[r].token].type = "refresh"
    BY DEF RefreshInv
  <1>1. \/ Accepts(r)
        \/ job'[r] = job[r] /\ pc[r] \in {"checked", "selected", "issuing"}
    <2>1. CASE \E q \in Req : Login(q)
      BY <2>1 DEF Login, Goto, IInv, TypeOK
    <2>2. CASE \E q \in Req : Check(q)
      BY <2>2 DEF Check, Accepts, Goto, IInv, TypeOK
    <2>3. CASE \E q \in Req : Select(q) \/ DenyOld(q)
      BY <2>3 DEF Select, DenyOld, Goto, IInv, TypeOK
    <2>4. CASE \E q \in Req : \/ Issue(q) \/ DenyRefreshToken(q)
                              \/ DenyAccessToken(q) \/ Commit(q) \/ Abort(q)
      BY <2>4 DEF Issue, DenyRefreshToken, DenyAccessToken, Commit, Abort, Goto,
                  IInv, TypeOK
    <2>5. CASE UNCHANGED vars \/ Tick \/ \E u \in Accounts : Toggle(u)
      BY <2>5 DEF vars, Tick, Toggle
    <2> QED BY <2>1, <2>2, <2>3, <2>4, <2>5 DEF Next
  <1>2. CASE Accepts(r)
    <2>1. Check(r)
      BY <1>2, AcceptedByCheck
    <2> QED BY <1>2, <2>1 DEF Check, Accepts, Wanted, Goto, IInv, TypeOK
  <1>3. CASE job'[r] = job[r] /\ pc[r] \in {"checked", "selected", "issuing"}
    <2>1. tokens[job[r].token].type = "refresh" /\ job[r].token \in DOMAIN tokens
      BY <1>3 DEF RefreshInv, IInv, JobInv
    <2> QED BY <1>3, <2>1, GoneStays
  <1> QED BY <1>1, <1>2, <1>3

\* The token of a request is one that was issued.
LEMMA BearerIssued ==
  ASSUME IInv, NEW r \in Req, Bearer(r) # 0
  PROVE  Bearer(r) = job[r].token /\ Bearer(r) \in DOMAIN tokens
  BY DEF Bearer, IInv, JobInv

\* A step of one request changes what that one holds.
LEMMA BearerMoves ==
  ASSUME IInv, NEW r \in Req, NEW label, Goto(r, label),
         \A q \in Req \ {r} : job'[q] = job[q]
  PROVE  /\ pc'[r] = label
         /\ Bearers' = [Bearers EXCEPT ![r] = Bearer(r)']
         /\ Bearer(r)' = Bearer(r) => Bearers' = Bearers
  <1>1. pc'[r] = label /\ \A q \in Req \ {r} : pc'[q] = pc[q]
    BY DEF Goto, IInv, TypeOK
  <1>2. \A q \in Req \ {r} : Bearer(q)' = Bearer(q)
    BY <1>1 DEF Bearer
  <1>3. /\ Bearers = [q \in Req |-> Bearer(q)]
        /\ Bearers' = [q \in Req |-> Bearer(q)']
    BY DEF Bearers
  <1> HIDE DEF Bearer
  <1> QED BY <1>1, <1>2, <1>3

LEMMA TableKept ==
  ASSUME UNCHANGED <<now, tokens>>
  PROVE  /\ UNCHANGED <<Issued, Expired>>
         /\ DOMAIN Issued = DOMAIN tokens
         /\ \A j \in DOMAIN tokens : /\ Issued[j].user = tokens[j].user
                                     /\ Issued[j].type = tokens[j].type
  BY DEF Issued, Expired

\* A token goes on the denylist for a request that holds one of the same user.
LEMMA DenyRevokes ==
  ASSUME IInv, NEW r \in Req, Bearer(r) # 0, NEW j \in DOMAIN tokens,
         PutOnDenylist(j), UNCHANGED <<now, tokens, Bearers>>,
         tokens[j].user = tokens[Bearer(r)].user,
         j # Bearer(r) => tokens[j].type = "refresh"
  PROVE  Store!Revoke(r)
  <1>1. Bearers[r] = Bearer(r) /\ Bearer(r) \in DOMAIN tokens
    BY BearerIssued DEF Bearers
  <1>2. revoked' = revoked \cup {j}
    BY DEF PutOnDenylist
  <1> QED BY <1>1, <1>2, TableKept DEF Store!Revoke

\* A token is issued before its last second.
LEMMA IssuedInTime ==
  ASSUME NEW t \in Nat, NEW ttl \in Nat \ {0}
  PROVE  ~(t > TicksPerSecond * Seconds(t + TicksPerSecond * ttl))
  <1> DEFINE T == TicksPerSecond
             x == t + T * ttl
  <1>1. T \in Nat \ {0}
    BY TTLAssumption
  <1>2. T * ttl \in Nat /\ T <= T * ttl
    <2> HIDE DEF T
    <2>1. T * 1 <= T * ttl
      BY <1>1
    <2> QED BY <1>1, <2>1
  <1>3. x \in Nat /\ t + T <= x
    BY <1>1, <1>2
  <1>4. x < T * (x \div T) + T
    <2> HIDE DEF T, x
    <2> QED BY <1>1, <1>3
  <1>5. T * (x \div T) \in Int
    BY <1>1, <1>3
  <1>6. ~(t > T * (x \div T))
    <2> HIDE DEF x
    <2> QED BY <1>1, <1>3, <1>4, <1>5
  <1> QED BY <1>6 DEF Seconds

\* A pair is appended to the table.
LEMMA IssuePair ==
  ASSUME IInv, NEW r \in Req, Issue(r)
  PROVE  Store!Issue(Subject(r), IF job[r].op = "login" THEN 0 ELSE job[r].token)
  <1> DEFINE u == Subject(r)
             p == IF job[r].op = "login" THEN 0 ELSE job[r].token
             n == Len(tokens)
             S == [user : Accounts, type : {"access", "refresh"}, parent : Jti \cup {0}]
             a == [user |-> u, type |-> "access", parent |-> p]
             b == [user |-> u, type |-> "refresh", parent |-> p]
  <1>1. /\ tokens \in Seq(Token) /\ n \in Nat /\ DOMAIN tokens = 1..n
        /\ now \in Nat
    BY LenProperties, BoundAssumption DEF IInv, TypeOK
  <1>2. /\ tokens' \in Seq(Token) /\ DOMAIN tokens' = 1..(n + 2)
        /\ \A j \in 1..n : tokens'[j] = tokens[j]
        /\ tokens'[n + 1] = Pair(u, p)[1] /\ tokens'[n + 2] = Pair(u, p)[2]
    BY <1>1, IssueKeeps
  <1>3. now' = now /\ revoked' = revoked
    BY DEF Issue
  <1>4. Expired' = Expired
    <2>1. /\ tokens'[n + 1].exp = Seconds(now + TicksPerSecond * AccessTTL)
          /\ tokens'[n + 2].exp = Seconds(now + TicksPerSecond * RefreshTTL)
      BY <1>2 DEF Pair
    <2>2. /\ ~(now > TicksPerSecond * tokens'[n + 1].exp)
          /\ ~(now > TicksPerSecond * tokens'[n + 2].exp)
      BY <1>1, <2>1, IssuedInTime, TTLAssumption
    <2>3. 1..(n + 2) = 1..n \cup {n + 1, n + 2}
      BY <1>1
    <2> HIDE DEF n
    <2> QED BY <1>1, <1>2, <1>3, <2>2, <2>3 DEF Expired
  <1>5. Issued' = Issued \o <<a, b>>
    <2>1. /\ Issued \in Seq(S) /\ Len(Issued) = n
          /\ \A j \in 1..n : Issued[j] = [user |-> tokens[j].user, type |-> tokens[j].type,
                                          parent |-> tokens[j].parent]
      <3>1. \A j \in 1..n : tokens[j] \in Token
        BY <1>1
      <3>2. Issued = [j \in 1..n |-> [user |-> tokens[j].user, type |-> tokens[j].type,
                                      parent |-> tokens[j].parent]]
        BY <1>1 DEF Issued
      <3> HIDE DEF n
      <3> QED BY <1>1, <3>1, <3>2 DEF Token
    <2>2. <<a, b>> \in Seq(S) /\ Len(<<a, b>>) = 2 /\ <<a, b>>[1] = a /\ <<a, b>>[2] = b
      <3>1. u \in Accounts
        BY IssueKeeps
      <3>2. p \in Jti \cup {0}
        BY DEF Issue, IInv, TypeOK, JobInv, Job
      <3> HIDE DEF u, p
      <3> QED BY <3>1, <3>2
    <2> DEFINE pair == <<a, b>>
    <2>3. /\ Issued \o pair \in Seq(S) /\ Len(Issued \o pair) = n + 2
          /\ \A j \in 1..(n + 2) :
               (Issued \o pair)[j] = IF j <= n THEN Issued[j] ELSE pair[j - n]
      <3>1. Issued \in Seq(S) /\ pair \in Seq(S) /\ Len(pair) = 2
        BY <2>1, <2>2
      <3> HIDE DEF S, pair, n
      <3>2. /\ Issued \o pair \in Seq(S)
            /\ Len(Issued \o pair) = Len(Issued) + Len(pair)
            /\ \A j \in 1..(Len(Issued) + Len(pair)) :
                 (Issued \o pair)[j] = IF j <= Len(Issued) THEN Issued[j]
                                       ELSE pair[j - Len(Issued)]
        BY <3>1, ConcatProperties, Zenon
      <3> QED BY <2>1, <3>1, <3>2
    <2>4. \A j \in 1..(n + 2) : Issued'[j] = (Issued \o pair)[j]
      <3>1. ASSUME NEW j \in 1..n PROVE Issued'[j] = (Issued \o pair)[j]
        BY <1>1, <1>2, <2>1, <2>3 DEF Issued
      <3>2. Issued'[n + 1] = a /\ Issued'[n + 2] = b
        BY <1>1, <1>2 DEF Issued, Pair
      <3>3. (Issued \o pair)[n + 1] = a /\ (Issued \o pair)[n + 2] = b
        <4>1. /\ n + 1 \in 1..(n + 2) /\ n + 2 \in 1..(n + 2)
              /\ ~(n + 1 <= n) /\ ~(n + 2 <= n)
              /\ (n + 1) - n = 1 /\ (n + 2) - n = 2
          BY <1>1
        <4>2. pair[1] = a /\ pair[2] = b
          BY <2>2
        <4> HIDE DEF n, pair, a, b
        <4> QED BY <2>3, <4>1, <4>2
      <3>4. \A j \in 1..(n + 2) : j \in 1..n \/ j = n + 1 \/ j = n + 2
        BY <1>1
      <3> QED BY <3>1, <3>2, <3>3, <3>4
    <2>5. /\ Issued' = [j \in 1..(n + 2) |-> Issued'[j]]
          /\ Issued \o pair = [j \in 1..(n + 2) |-> (Issued \o pair)[j]]
      <3>1. DOMAIN Issued' = 1..(n + 2) /\ Issued' = [j \in DOMAIN Issued' |-> Issued'[j]]
        BY <1>2 DEF Issued
      <3>2. DOMAIN (Issued \o pair) = 1..(n + 2)
        BY <2>3, LenProperties
      <3>3. Issued \o pair = [j \in DOMAIN (Issued \o pair) |-> (Issued \o pair)[j]]
        <4> DEFINE q == Issued \o pair
        <4>1. q \in Seq(S)
          BY <2>3
        <4> HIDE DEF q
        <4>2. q = [j \in DOMAIN q |-> q[j]]
          BY <4>1
        <4> QED BY <4>2 DEF q
      <3> QED BY <3>1, <3>2, <3>3
    <2> QED BY <2>4, <2>5
  <1> QED BY <1>3, <1>4, <1>5 DEF Store!Issue

\* Every step is one of the table, or none that can be seen there.
LEMMA StoreStep ==
  IInv /\ RefreshInv /\ [Next]_vars => [Store!Next]_(Store!vars)
  <1> DEFINE table == <<Issued, revoked, Expired>>
             Seen == Store!Next \/ UNCHANGED <<table, Bearers>>
  <1> SUFFICES ASSUME IInv, RefreshInv, [Next]_vars PROVE Seen
    BY DEF Store!vars, Store!table
  <1>0. \A r \in Req : Bearers[r] = Bearer(r)
    BY DEF Bearers
  <1>1. ASSUME UNCHANGED <<now, tokens, pc, job, revoked>> PROVE Seen
    BY <1>1 DEF Issued, Expired, Bearers, Bearer
  <1>2. ASSUME NEW r \in Req, Login(r) PROVE Seen
    <2>1. PICK label \in {"checked", "failed"} : Goto(r, label)
      BY <1>2 DEF Login
    <2>2. /\ UNCHANGED <<now, tokens, revoked>>
          /\ \A q \in Req \ {r} : job'[q] = job[q]
          /\ pc[r] = "new" /\ job'[r].op = "login"
      BY <1>2 DEF Login, IInv, TypeOK
    <2>3. Bearer(r) = 0 /\ Bearer(r)' = 0
      BY <2>2 DEF Bearer
    <2> QED BY <2>1, <2>2, <2>3, BearerMoves, TableKept
  <1>3. ASSUME NEW r \in Req, Check(r) PROVE Seen
    <2>1. PICK label \in {"checked", "failed"} : Goto(r, label)
      BY <1>3 DEF Check
    <2>2. /\ UNCHANGED <<now, tokens, revoked>>
          /\ \A q \in Req \ {r} : job'[q] = job[q]
          /\ pc[r] = "new" /\ job'[r].op # "login"
          /\ job'[r].token \in DOMAIN tokens
      BY <1>3 DEF Check, IInv, TypeOK
    <2>3. UNCHANGED table /\ Bearers' = [Bearers EXCEPT ![r] = Bearer(r)'] /\ pc'[r] = label
      BY <2>1, <2>2, BearerMoves, TableKept
    <2>4. CASE label = "failed"
      <3>1. Bearer(r)' = 0
        BY <2>3, <2>4 DEF Bearer
      <3> QED BY <2>3, <3>1 DEF Store!Leave, Store!Hold, Store!table, Store!Next
    <2>5. CASE label = "checked"
      <3>1. Bearer(r)' = job'[r].token
        BY <2>2, <2>3, <2>5 DEF Bearer
      <3>2. Accepts(r)
        BY <2>2, <2>3, <2>5 DEF Accepts
      <3>3. job'[r].token \in revoked => job'[r].token \in Expired
        BY <2>2, <3>2, RevokedRefused DEF Expired
      <3>4. job'[r].token \in DOMAIN Issued
        BY <2>2 DEF Issued
      <3> QED BY <2>3, <3>1, <3>3, <3>4 DEF Store!Accept, Store!Hold, Store!table, Store!Next
    <2> QED BY <2>4, <2>5
  <1>4. ASSUME NEW r \in Req, NEW label, Goto(r, label), UNCHANGED <<now, tokens, revoked, job>>,
               Bearer(r)' = Bearer(r) \/ Bearer(r)' = 0
        PROVE  Seen
    <2>1. /\ UNCHANGED table /\ Bearers' = [Bearers EXCEPT ![r] = Bearer(r)']
          /\ Bearer(r)' = Bearer(r) => Bearers' = Bearers
      BY <1>4, BearerMoves, TableKept
    <2>2. CASE Bearer(r)' = 0
      BY <2>1, <2>2 DEF Store!Leave, Store!Hold, Store!table, Store!Next
    <2> QED BY <1>4, <2>1, <2>2
  <1>5. ASSUME NEW r \in Req, Select(r) \/ Commit(r) \/ Abort(r) PROVE Seen
    <2>1. UNCHANGED <<now, tokens, revoked, job>>
      BY <1>5 DEF Select, Commit, Abort
    <2>2. PICK label \in {"selected", "issuing", "done", "failed"} : Goto(r, label)
      BY <1>5 DEF Select, Commit, Abort
    <2>3. pc'[r] = label
      BY <2>2 DEF Goto, IInv, TypeOK
    <2>4. label \in {"selected", "issuing"} => pc[r] = "checked"
      BY <1>5, <2>2, <2>3 DEF Select, Commit, Abort, Goto, IInv, TypeOK
    <2>5. Bearer(r)' = Bearer(r) \/ Bearer(r)' = 0
      BY <2>1, <2>3, <2>4 DEF Bearer
    <2> QED BY <1>4, <2>1, <2>2, <2>5
  <1>6. ASSUME NEW r \in Req, DenyOld(r) PROVE Seen
    <2>1. /\ UNCHANGED <<now, tokens, job>> /\ pc[r] = "selected" /\ Goto(r, "issuing")
          /\ job[r].op = "refresh" /\ PutOnDenylist(job[r].token)
      BY <1>6 DEF DenyOld
    <2>2. pc'[r] = "issuing" /\ (Bearer(r)' = Bearer(r) => Bearers' = Bearers)
      BY <2>1, BearerMoves
    <2>3. Bearer(r) = job[r].token /\ Bearer(r)' = Bearer(r)
      BY <2>1, <2>2 DEF Bearer
    <2>4. job[r].token \in DOMAIN tokens /\ job[r].token # 0
      BY <2>1, LenProperties DEF IInv, JobInv, TypeOK
    <2>5. Store!Revoke(r)
      BY <2>1, <2>2, <2>3, <2>4, DenyRevokes
    <2> QED BY <2>5 DEF Store!Next
  <1>7. ASSUME NEW r \in Req, Issue(r) PROVE Seen
    <2>1. /\ job' = job /\ pc[r] = "issuing" /\ Goto(r, "done")
          /\ job[r].op \in {"login", "refresh"} /\ revoked' = revoked
          /\ job[r].op = "refresh" => job[r].token \in revoked /\ job[r].token \in DOMAIN tokens
      BY <1>7 DEF Issue, IInv, JobInv, ParentInv
    <2>2. /\ pc'[r] = "done" /\ Bearers' = [Bearers EXCEPT ![r] = Bearer(r)']
          /\ Bearer(r)' = Bearer(r) => Bearers' = Bearers
      BY <2>1, BearerMoves
    <2>3. Bearer(r)' = 0
      BY <2>2 DEF Bearer
    <2>4. CASE job[r].op = "login"
      <3>1. Bearers' = Bearers
        BY <2>2, <2>3, <2>4 DEF Bearer
      <3>2. Store!Issue(Subject(r), 0) /\ Subject(r) \in Accounts
        BY <1>7, <2>4, IssuePair, IssueKeeps
      <3> QED BY <3>1, <3>2 DEF Store!Open, Store!Next
    <2>5. CASE job[r].op = "refresh"
      <3>1. Bearers[r] = job[r].token
        BY <1>0, <2>1, <2>5 DEF Bearer
      <3>2. Store!Issue(Subject(r), job[r].token)
        BY <1>7, <2>5, IssuePair
      <3>3. /\ Issued[job[r].token].user = Subject(r)
            /\ Issued[job[r].token].type = "refresh"
        BY <2>1, <2>5 DEF Issued, Subject, RefreshInv
      <3>4. Bearers' = [Bearers EXCEPT ![r] = 0]
        BY <2>2, <2>3
      <3>5. Store!Exchange(r)
        BY <2>1, <2>5, <3>1, <3>2, <3>3, <3>4 DEF Store!Exchange, Store!Hold
      <3> QED BY <3>5 DEF Store!Next
    <2> QED BY <2>1, <2>4, <2>5
  <1>8. ASSUME NEW r \in Req, DenyRefreshToken(r) PROVE Seen
    <2>1. /\ UNCHANGED <<now, tokens, job>> /\ pc[r] = "selected" /\ Goto(r, "half")
          /\ job[r].op = "logout"
      BY <1>8 DEF DenyRefreshToken
    <2>2. pc'[r] = "half" /\ (Bearer(r)' = Bearer(r) => Bearers' = Bearers)
      BY <2>1, BearerMoves
    <2>3. Bearer(r) = job[r].token /\ Bearer(r)' = Bearer(r)
      BY <2>1, <2>2 DEF Bearer
    <2>4. job[r].token \in DOMAIN tokens /\ job[r].token # 0
      BY <2>1, LenProperties DEF IInv, JobInv, TypeOK
    <2>5. CASE OwnRefreshToken(r, job[r].other)
      <3>1. /\ PutOnDenylist(job[r].other) /\ job[r].other \in DOMAIN tokens
            /\ tokens[job[r].other].user = tokens[job[r].token].user
            /\ tokens[job[r].other].type = "refresh"
        BY <1>8, <2>1, <2>5 DEF DenyRefreshToken, OwnRefreshToken, Decodes, Subject
      <3>2. Store!Revoke(r)
        BY <2>1, <2>2, <2>3, <2>4, <3>1, DenyRevokes
      <3> QED BY <3>2 DEF Store!Next
    <2>6. CASE ~OwnRefreshToken(r, job[r].other)
      BY <1>4, <1>8, <2>1, <2>3, <2>6 DEF DenyRefreshToken
    <2> QED BY <2>5, <2>6
  <1>9. ASSUME NEW r \in Req, DenyAccessToken(r) PROVE Seen
    <2>1. /\ UNCHANGED <<now, tokens, job>> /\ pc[r] = "half" /\ Goto(r, "answered")
          /\ job[r].op = "logout"
      BY <1>9 DEF DenyAccessToken, IInv, JobInv
    <2>2. pc'[r] = "answered" /\ (Bearer(r)' = Bearer(r) => Bearers' = Bearers)
      BY <2>1, BearerMoves
    <2>3. Bearer(r) = job[r].token /\ Bearer(r)' = Bearer(r)
      BY <2>1, <2>2 DEF Bearer
    <2>4. job[r].token \in DOMAIN tokens /\ job[r].token # 0
      BY <2>1, LenProperties DEF IInv, JobInv, TypeOK
    <2>5. CASE Decodes(job[r].token)
      <3>1. PutOnDenylist(job[r].token)
        BY <1>9, <2>5 DEF DenyAccessToken
      <3>2. Store!Revoke(r)
        BY <2>1, <2>2, <2>3, <2>4, <3>1, DenyRevokes
      <3> QED BY <3>2 DEF Store!Next
    <2>6. CASE ~Decodes(job[r].token)
      BY <1>4, <1>9, <2>1, <2>3, <2>6 DEF DenyAccessToken
    <2> QED BY <2>5, <2>6
  <1>10. CASE Tick
    <2>1. Expired \subseteq Expired'
      <3>1. \A j \in DOMAIN tokens : TicksPerSecond * tokens[j].exp \in Int
        <4>1. \A j \in DOMAIN tokens : tokens[j] \in Token
          BY ElementOfSeq, LenProperties DEF IInv, TypeOK
        <4>2. TicksPerSecond \in Int /\ \A j \in DOMAIN tokens : tokens[j].exp \in Int
          BY <4>1, TTLAssumption DEF Token
        <4> QED BY <4>2
      <3>2. now \in Int /\ now' = now + 1 /\ tokens' = tokens
        BY <1>10, BoundAssumption DEF Tick, IInv, TypeOK
      <3> QED BY <3>1, <3>2 DEF Expired
    <2>2. UNCHANGED <<Issued, revoked, Bearers>>
      BY <1>10 DEF Tick, Issued, Bearers, Bearer
    <2>3. Expired' \subseteq DOMAIN Issued
      BY <1>10 DEF Tick, Expired, Issued
    <2> QED BY <2>1, <2>2, <2>3 DEF Store!Expire, Store!Next
  <1>11. CASE UNCHANGED vars \/ \E u \in Accounts : Toggle(u)
    BY <1>1, <1>11 DEF vars, Toggle
  <1> HIDE DEF Seen
  <1> QED BY <1>2, <1>3, <1>5, <1>6, <1>7, <1>8, <1>9, <1>10, <1>11 DEF Next

\* Tokens that are stored nowhere, with a denylist that forgets, are as good as
\* a table of them, for any users, requests, lifetimes and clock.
THEOREM SessionsImplementStore == Spec => TokenStoreSpec
  <1>1. Init => RefreshInv
    BY DEF Init, RefreshInv
  <1>2. Init => Store!Init
    <2> SUFFICES ASSUME Init PROVE Store!Init
      OBVIOUS
    <2>1. DOMAIN tokens = {}
      BY DEF Init
    <2>2. Issued = << >>
      BY <2>1 DEF Issued
    <2>3. Expired = {} /\ Bearers = [r \in Req |-> 0]
      BY <2>1 DEF Expired, Bearers, Bearer, Init
    <2> QED BY <2>2, <2>3 DEF Init, Store!Init
  <1> QED BY <1>1, <1>2, RefreshStep, StoreStep, Invariance, PTL
          DEF Spec, TokenStoreSpec, Store!Spec
=============================================================================
