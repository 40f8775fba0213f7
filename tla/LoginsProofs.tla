---------------------------- MODULE LoginsProofs ----------------------------
(***************************************************************************)
(* The login limit for any logins, emails, limit and window.               *)
(***************************************************************************)
EXTENDS Logins, FiniteSetTheorems, TLAPS

USE EmailsAssumption, MaxAssumption, WindowAssumption DEF Key, Opens, TooMany, Left,
    Gone, Lifetime, InFlight, Ended, redis

\* The logins a living key counted have numbers of their own, up to its count,
\* and those that passed the limit have one within it.
CountInv ==
  /\ \A e \in Emails : ttl[e] # Forever => count[e] > 0
  /\ \A r \in counted : attempts[r] \in 1..count[Key(r)]
  /\ \A r, s \in counted : Key(r) = Key(s) /\ attempts[r] = attempts[s] => r = s
  /\ \A r \in admitted : attempts[r] \in 1..Max
  /\ \A r \in Req : pc[r] = "new" => r \notin counted \cup admitted

\* A login between INCR and EXPIRE is the first of its key, which has no TTL.
OpeningInv ==
  \A r \in Req : pc[r] = "expiring" =>
    r \in counted /\ r \notin admitted /\ attempts[r] = 1 /\ ttl[Key(r)] = Forever

\* What is committed is an audit entry.
AnsweredInv == \A r \in Req : pc[r] = "answered" => entry[r] # "none"

Old(r) == r \in admitted \ counted

\* The logins that passed by a key that is gone are at least as old as the TTL
\* of the present key, and the recent ones among them are all of one key.
OldInv ==
  /\ \A r \in Req : Old(r) /\ ttl[Key(r)] # Forever => age[r] >= Window - ttl[Key(r)]
  /\ \A r, s \in Req : /\ Old(r) /\ Old(s) /\ Key(r) = Key(s)
                       /\ age[r] < Window /\ age[s] < Window
                       /\ attempts[r] = attempts[s]
                       => r = s

Inv == TypeOK /\ AnsweredInv /\ CountInv /\ OpeningInv /\ OldInv /\ OnlyFaultsLock

\* At the start there are no keys.
LEMMA InitInv == Init => Inv
BY DEF Init, Inv, TypeOK, AnsweredInv, CountInv, OpeningInv, OldInv, Old, OnlyFaultsLock

\* INCR gives a login a number that no other one of the key has.
LEMMA IncrStep ==
  ASSUME Inv, NEW r \in Req, Incr(r)
  PROVE  Inv'
<1> USE DEF Inv
<1> DEFINE n == count[Key(r)] + 1
<1>1. /\ n \in Nat
      /\ count' = [count EXCEPT ![Key(r)] = n]
      /\ attempts' = [attempts EXCEPT ![r] = n]
      /\ spoilt' = spoilt
      /\ Goto(r, IF n = 1 THEN "expiring"
                 ELSE IF n > Max THEN "limited" ELSE "checking")
      /\ admitted' = IF n = 1 \/ n > Max THEN admitted ELSE admitted \cup {r}
  BY DEF Incr, TypeOK
<1>2. /\ pc[r] = "new" /\ counted' = counted \cup {r}
      /\ UNCHANGED <<ttl, age, trail, email, entry>>
  BY DEF Incr
<1>3. TypeOK'
  BY <1>1, <1>2 DEF TypeOK, Goto
<1>4. /\ r \notin counted \cup admitted
      /\ \A s \in Req : Key(s)' = Key(s) /\ (s # r => attempts'[s] = attempts[s])
      /\ attempts'[r] = n /\ count'[Key(r)] = n /\ n > count[Key(r)]
      /\ \A e \in Emails : count'[e] >= count[e] /\ (e # Key(r) => count'[e] = count[e])
  BY <1>1, <1>2 DEF CountInv, TypeOK
<1>5. CountInv'
  BY <1>1, <1>2, <1>3, <1>4 DEF CountInv, TypeOK, Goto
<1>6. OpeningInv'
  <2>1. n = 1 => ttl[Key(r)] = Forever
    BY <1>1 DEF CountInv, TypeOK
  <2>2. QED BY <1>1, <1>2, <1>4, <2>1 DEF OpeningInv, Goto, TypeOK
<1>7. OldInv'
  BY <1>1, <1>2, <1>4 DEF OldInv, Old
<1>8. OnlyFaultsLock'
  <2> SUFFICES ASSUME NEW e \in Emails, count'[e] > 0, ttl[e] = Forever, e \notin spoilt'
               PROVE  \E s \in Req : pc'[s] = "expiring" /\ Key(s) = e
    BY <1>2, <1>4 DEF OnlyFaultsLock
  <2>1. CASE count[e] > 0
    BY <1>1, <1>2, <2>1 DEF OnlyFaultsLock, Goto, TypeOK
  <2>2. CASE ~(count[e] > 0)
    BY <1>1, <1>4, <2>2 DEF Goto, TypeOK
  <2>3. QED BY <2>1, <2>2
<1>9. AnsweredInv'
  BY <1>1, <1>2 DEF AnsweredInv, Goto, TypeOK
<1>10. QED BY <1>3, <1>5, <1>6, <1>7, <1>8, <1>9

\* An INCR that raises leaves a key that is known to be spoilt.
LEMMA IncrFailsStep ==
  ASSUME Inv, NEW r \in Req, IncrFails(r)
  PROVE  Inv'
<1> USE DEF Inv
<1>1. \/ UNCHANGED <<count, spoilt>>
      \/ /\ count' = [count EXCEPT ![Key(r)] = @ + 1]
         /\ spoilt' = IF count[Key(r)] = 0 THEN spoilt \cup {Key(r)} ELSE spoilt
  BY DEF IncrFails
<1>2. /\ pc[r] = "new" /\ pc' = [pc EXCEPT ![r] = "failed"]
      /\ UNCHANGED <<ttl, counted, age, trail, email, attempts, entry, admitted>>
  BY DEF IncrFails, Goto
<1>3. \A e \in Emails : /\ count'[e] >= count[e] /\ count'[e] \in Nat
                        /\ count[e] > 0 \/ count'[e] = 0 \/ e \in spoilt'
  BY <1>1 DEF TypeOK
<1>4. TypeOK'
  BY <1>1, <1>2 DEF TypeOK
<1>5. CountInv'
  BY <1>1, <1>2, <1>3 DEF CountInv, TypeOK
<1>6. OpeningInv' /\ OldInv'
  BY <1>2 DEF OpeningInv, OldInv, Old, TypeOK
<1>7. OnlyFaultsLock'
  BY <1>1, <1>2, <1>3 DEF OnlyFaultsLock, TypeOK
<1>8. AnsweredInv'
  BY <1>2 DEF AnsweredInv, TypeOK
<1>9. QED BY <1>4, <1>5, <1>6, <1>7, <1>8

\* EXPIRE is called for a key without a TTL, by nobody else.
LEMMA ExpireStep ==
  ASSUME Inv, NEW r \in Req, Expire(r) \/ ExpireFails(r)
  PROVE  Inv'
<1> USE DEF Inv
<1>1. /\ pc[r] = "expiring"
      /\ UNCHANGED <<count, counted, age, trail, email, attempts, entry>>
      /\ \E label \in {"checking", "failed"} : pc' = [pc EXCEPT ![r] = label]
      /\ \/ ttl' = [ttl EXCEPT ![Key(r)] = Window] /\ spoilt' = spoilt
         \/ ttl' = ttl /\ spoilt' = spoilt \cup {Key(r)}
      /\ admitted' \in {admitted, admitted \cup {r}}
  BY DEF Expire, ExpireFails, Goto
<1>2. /\ r \in counted /\ attempts[r] = 1 /\ ttl[Key(r)] = Forever
      /\ \A s \in Req : pc[s] = "expiring" /\ Key(s) = Key(r) => s = r
      /\ count[Key(r)] > 0
  BY <1>1 DEF OpeningInv, CountInv, TypeOK
<1>3. TypeOK'
  BY <1>1 DEF TypeOK
<1>4. CountInv'
  BY <1>1, <1>2 DEF CountInv, TypeOK
<1>5. OpeningInv'
  BY <1>1, <1>2 DEF OpeningInv, TypeOK
<1>6. \A s \in Req : Old(s)' = Old(s)
  BY <1>1, <1>2 DEF Old
<1>7. OldInv'
  BY <1>1, <1>3, <1>6 DEF OldInv, TypeOK
<1>8. OnlyFaultsLock'
  BY <1>1, <1>2 DEF OnlyFaultsLock, TypeOK
<1>9. AnsweredInv'
  BY <1>1 DEF AnsweredInv, TypeOK
<1>10. QED BY <1>3, <1>4, <1>5, <1>7, <1>8, <1>9

\* Everything after the limit leaves Redis alone, but a login that stops
\* before its EXPIRE spoils its key.
LEMMA OtherStep ==
  ASSUME Inv, \/ \E r \in Req : Refuse(r) \/ Verify(r) \/ Rollback(r) \/ Commit(r) \/ Abort(r)
              \/ UNCHANGED vars
  PROVE  Inv'
<1> USE DEF Inv
<1>1. CASE UNCHANGED vars
  BY <1>1 DEF vars, TypeOK, AnsweredInv, CountInv, OpeningInv, OldInv, Old, OnlyFaultsLock
<1>2. ASSUME NEW r \in Req,
             Refuse(r) \/ Verify(r) \/ Rollback(r) \/ Commit(r) \/ Abort(r)
      PROVE  Inv'
  <2>1. /\ UNCHANGED <<count, ttl, counted, age, email, attempts, admitted>>
        /\ \E label \in (InFlight \cup Ended) \ {"expiring"} : pc' = [pc EXCEPT ![r] = label]
        /\ spoilt' = IF pc[r] = "expiring" THEN spoilt \cup {Key(r)} ELSE spoilt
    BY <1>2 DEF Refuse, Verify, Rollback, Commit, Abort, Goto
  <2>2. TypeOK'
    <3>1. entry' \in [Req -> {"none", "USER_LOGIN_SUCCESS", "USER_LOGIN_FAILED"}]
      BY <1>2 DEF TypeOK, Refuse, Verify, Rollback, Commit, Abort
    <3>2. trail' \subseteq Req \X {"USER_LOGIN_SUCCESS", "USER_LOGIN_FAILED"}
      BY <1>2 DEF TypeOK, AnsweredInv, Refuse, Verify, Rollback, Commit, Abort
    <3>3. pc' \in [Req -> {"new"} \cup InFlight \cup Ended]
      BY <2>1 DEF TypeOK
    <3>4. spoilt' \subseteq Emails
      BY <2>1 DEF TypeOK
    <3>5. QED BY <2>1, <3>1, <3>2, <3>3, <3>4 DEF TypeOK
  <2>3. CountInv' /\ OpeningInv' /\ OldInv'
    BY <2>1 DEF CountInv, OpeningInv, OldInv, Old, TypeOK
  <2>4. OnlyFaultsLock'
    BY <2>1 DEF OnlyFaultsLock, TypeOK
  <2>5. AnsweredInv'
    BY <1>2 DEF AnsweredInv, TypeOK, Refuse, Verify, Rollback, Commit, Abort, Goto
  <2>6. QED BY <2>2, <2>3, <2>4, <2>5
<1>3. QED BY <1>1, <1>2

\* When a key goes, the logins it counted become old, and whoever was old
\* before is so by a whole window.
LEMMA TickStep ==
  ASSUME Inv, Tick
  PROVE  Inv'
<1> USE DEF Inv
<1>1. /\ ttl' = [e \in Emails |-> Left(e)]
      /\ count' = [e \in Emails |-> IF Gone(e) THEN 0 ELSE count[e]]
      /\ counted' = {r \in counted : ~Gone(Key(r))}
      /\ spoilt' = {e \in spoilt : ~Gone(e)}
      /\ age' = [r \in Req |-> IF r \in admitted /\ age[r] < Window THEN age[r] + 1
                                                                  ELSE age[r]]
      /\ UNCHANGED <<trail, pc, email, attempts, entry, admitted>>
  BY DEF Tick
<1>2. TypeOK'
  BY <1>1 DEF TypeOK
<1>3. \A r \in Req : Key(r) \in Emails /\ Key(r)' = Key(r)
  BY <1>1 DEF TypeOK
<1>4. CountInv'
  BY <1>1, <1>3 DEF CountInv, TypeOK
<1>5. OpeningInv'
  BY <1>1, <1>3 DEF OpeningInv, TypeOK
<1>6. \A r \in Req : Old(r)' => Old(r) \/ (r \in counted /\ Gone(Key(r)))
  BY <1>1 DEF Old, TypeOK
<1>7. \A r \in Req : Old(r) /\ Gone(Key(r)) => age'[r] >= Window
  BY <1>1, <1>3 DEF OldInv, Old, TypeOK
<1>8. \A r \in Req : Old(r) /\ ttl[Key(r)] # Forever =>
                       age'[r] >= Window - (ttl[Key(r)] - 1)
  BY <1>1, <1>3 DEF OldInv, Old, TypeOK
<1>9. OldInv'
  <2>1. ASSUME NEW r \in Req, Old(r)', ttl'[Key(r)] # Forever
        PROVE  age'[r] >= Window - ttl'[Key(r)]
    BY <1>1, <1>3, <1>6, <1>8, <2>1 DEF TypeOK
  <2>2. ASSUME NEW r \in Req, NEW s \in Req, Old(r)', Old(s)', Key(r) = Key(s),
               age'[r] < Window, age'[s] < Window, attempts[r] = attempts[s]
        PROVE  r = s
    <3>1. age[r] < Window /\ age[s] < Window
      BY <1>1, <2>2 DEF TypeOK
    <3>2. CASE Old(r) /\ Old(s)
      BY <2>2, <3>1, <3>2 DEF OldInv
    <3>3. CASE r \in counted /\ s \in counted
      BY <2>2, <3>3 DEF CountInv
    <3>4. CASE Gone(Key(r)) /\ (Old(r) \/ Old(s))
      BY <1>2, <1>7, <2>2, <3>4 DEF TypeOK
    <3>5. QED BY <1>6, <2>2, <3>2, <3>3, <3>4
  <2>3. QED BY <1>1, <1>3, <2>1, <2>2 DEF OldInv
<1>10. OnlyFaultsLock'
  BY <1>1, <1>3 DEF OnlyFaultsLock, OpeningInv, TypeOK
<1>11. AnsweredInv'
  BY <1>1 DEF AnsweredInv
<1>12. QED BY <1>2, <1>4, <1>5, <1>9, <1>10, <1>11

\* The invariant is inductive.
LEMMA Invariance == Spec => []Inv
<1>1. Inv /\ [Next]_vars => Inv'
  BY IncrStep, IncrFailsStep, ExpireStep, OtherStep, TickStep DEF Next, Step
<1>2. QED BY InitInv, <1>1, PTL DEF Spec

\* Logins with different numbers within the limit are no more than the limit.
LEMMA FewNumbers ==
  ASSUME NEW S, NEW f, \A r \in S : f[r] \in 1..Max,
         \A r, s \in S : f[r] = f[s] => r = s
  PROVE  IsFiniteSet(S) /\ Cardinality(S) <= Max
<1> DEFINE g == [r \in S |-> f[r]]
<1>1. g \in Injection(S, 1..Max)
  BY DEF Injection, IsInjective
<1>2. IsFiniteSet(1..Max) /\ Cardinality(1..Max) = Max
  BY FS_Interval
<1>3. QED BY <1>1, <1>2, FS_Injection

\* The variables keep their types.
THEOREM TypeCorrect == Spec => []TypeOK
<1>1. Inv => TypeOK
  BY DEF Inv
<1>2. QED BY <1>1, Invariance, PTL

\* One key lets no more than Max logins check a password.
THEOREM LimitHolds == Spec => []AttemptsBounded
<1>1. ASSUME Inv PROVE AttemptsBounded
  <2> SUFFICES ASSUME NEW e \in Emails
               PROVE  Cardinality({r \in admitted \cap counted : Lower[email[r]] = e}) <= Max
    BY DEF AttemptsBounded
  <2> DEFINE S == {r \in admitted \cap counted : Lower[email[r]] = e}
  <2>1. \A r \in S : attempts[r] \in 1..Max
    BY <1>1 DEF Inv, CountInv
  <2>2. \A r, s \in S : attempts[r] = attempts[s] => r = s
    BY <1>1 DEF Inv, CountInv
  <2>3. QED BY <2>1, <2>2, FewNumbers
<1>2. QED BY <1>1, Invariance, PTL

\* No hour sees more than twice the limit, whatever keys came and went.
THEOREM BurstsAreBounded == Spec => []BurstBounded
<1>1. ASSUME Inv PROVE BurstBounded
  <2> SUFFICES ASSUME NEW e \in Emails
               PROVE  Cardinality({r \in admitted : Lower[email[r]] = e /\ age[r] < Window})
                        <= 2 * Max
    BY DEF BurstBounded
  <2> DEFINE R == {r \in admitted : Lower[email[r]] = e /\ age[r] < Window}
             S == R \cap counted
             T == R \ counted
  <2>1. IsFiniteSet(S) /\ Cardinality(S) <= Max
    <3>1. \A r \in S : attempts[r] \in 1..Max
      BY <1>1 DEF Inv, CountInv
    <3>2. \A r, s \in S : attempts[r] = attempts[s] => r = s
      BY <1>1 DEF Inv, CountInv
    <3>3. QED BY <3>1, <3>2, FewNumbers
  <2>2. IsFiniteSet(T) /\ Cardinality(T) <= Max
    <3>1. \A r \in T : attempts[r] \in 1..Max
      BY <1>1 DEF Inv, CountInv
    <3>2. \A r, s \in T : attempts[r] = attempts[s] => r = s
      BY <1>1 DEF Inv, OldInv, Old, TypeOK
    <3>3. QED BY <3>1, <3>2, FewNumbers
  <2>3. /\ S \cup T = R /\ S \cap T = {}
        /\ Cardinality(S) \in Nat /\ Cardinality(T) \in Nat
    BY <2>1, <2>2, FS_CardinalityType
  <2>4. Cardinality(S \cup T) = Cardinality(S) + Cardinality(T)
    <3>1. Cardinality(S \cup T) = Cardinality(S) + Cardinality(T) - Cardinality(S \cap T)
      BY <2>1, <2>2, FS_Union
    <3>2. Cardinality(S \cap T) = 0
      BY <2>3, FS_EmptySet
    <3>3. QED BY <2>3, <3>1, <3>2
  <2>5. Cardinality(R) <= 2 * Max
    <3> HIDE DEF R, S, T
    <3>1. QED BY <2>1, <2>2, <2>3, <2>4
  <2>6. QED BY <2>5
<1>2. QED BY <1>1, Invariance, PTL

\* The TTL of a key that has one only runs down.
THEOREM WindowsAreFixed == Spec => WindowFixed
<1>1. ASSUME Inv, [Next]_vars
      PROVE  \A e \in Emails : ttl[e] # Forever => ttl'[e] \in {Left(e), ttl[e]}
  <2>1. CASE Tick
    BY <2>1 DEF Tick
  <2>2. ASSUME NEW r \in Req, Expire(r) \/ ExpireFails(r)
        PROVE  \A e \in Emails : ttl[e] # Forever => ttl'[e] \in {Left(e), ttl[e]}
    BY <1>1, <2>2 DEF Expire, ExpireFails, Inv, OpeningInv, TypeOK
  <2>3. ASSUME NEW r \in Req, \/ Refuse(r) \/ Incr(r) \/ IncrFails(r) \/ Verify(r)
                              \/ Rollback(r) \/ Commit(r) \/ Abort(r)
        PROVE  UNCHANGED ttl
    BY <2>3 DEF Refuse, Incr, IncrFails, Verify, Rollback, Commit, Abort
  <2>4. CASE UNCHANGED vars
    BY <2>4 DEF vars
  <2>5. QED BY <1>1, <2>1, <2>2, <2>3, <2>4 DEF Next, Step
<1>2. QED BY <1>1, Invariance, PTL DEF Spec, WindowFixed

\* Only faults leave a key without a TTL behind.
THEOREM LocksComeOfFaults == Spec => []OnlyFaultsLock
<1>1. Inv => OnlyFaultsLock
  BY DEF Inv
<1>2. QED BY <1>1, Invariance, PTL
=============================================================================
