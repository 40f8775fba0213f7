------------------------------- MODULE Logins -------------------------------
(***************************************************************************)
(* POST /auth/login (login of app/api/v1/auth.py) up to its answer: the    *)
(* counter per email in Redis, raised by INCR and given its hour by an     *)
(* EXPIRE of its own, the password check, and the audit entry in the       *)
(* session of get_db.  What tokens are worth is in Sessions.tla.           *)
(***************************************************************************)
EXTENDS Integers, FiniteSets

CONSTANTS Req,         \* the logins
          Emails,      \* emails as clients type them
          Lower,       \* each of them in lower case
          Registered,  \* emails of users, as stored
          Max,         \* attempts allowed (10)
          Window,      \* lifetime of a counter (3600 s)
          Forever      \* a key without expiry

ASSUME EmailsAssumption == Lower \in [Emails -> Emails] /\ Registered \subseteq Emails
ASSUME MaxAssumption == Max \in Nat \ {0}
ASSUME WindowAssumption == Window \in Nat \ {0} /\ Forever \notin Nat

VARIABLES count,     \* Redis: the counters, 0 for no key
          ttl,       \* Redis: what a key has left to live
          trail,     \* table audit_logs: <<login, action>>
          pc,        \* how far each login is
          email,     \* the email it sends
          attempts,  \* the INCR's reply
          entry,     \* the action of the audit entry in its session
          counted,   \* history: logins that a living key counted
          admitted,  \* history: logins that passed the limit
          age,       \* history: time since a login was admitted, up to Window
          spoilt     \* history: keys a fault hit between INCR and EXPIRE

redis == <<count, ttl, counted, age, spoilt>>
vars == <<redis, trail, pc, email, attempts, entry, admitted>>

InFlight == {"expiring", "checking", "erring", "answered"}
Ended == {"limited", "denied", "done", "failed", "dropped"}

Init == /\ count = [e \in Emails |-> 0]
        /\ ttl = [e \in Emails |-> Forever]
        /\ trail = {}
        /\ pc = [r \in Req |-> "new"]
        /\ email \in [Req -> Emails]
        /\ attempts = [r \in Req |-> 0]
        /\ entry = [r \in Req |-> "none"]
        /\ counted = {}
        /\ admitted = {}
        /\ age = [r \in Req |-> 0]
        /\ spoilt = {}

Goto(r, label) == pc' = [pc EXCEPT ![r] = label]

-----------------------------------------------------------------------------
(* The limit.                                                              *)

\* Mutant of Key: the email as it was typed.
KeyAsTyped(r) == email[r]

\* ratelimit:login:email:{payload.email.lower()}.
Key(r) == Lower[email[r]]

\* Mutant of Opens: every attempt gives the key its hour.
OpensAlways(n) == TRUE

\* Mutant of Opens: the reply is taken for the count before.
OpensAtZero(n) == n = 0

\* The attempt that sets the key's TTL.
Opens(n) == n = 1

\* Mutant of TooMany: one too many.
TooManyLate(n) == n > Max + 1

TooMany(n) == n > Max

\* The decorator refuses the client's address (rate_limit.py): 429.
Refuse(r) == /\ pc[r] = "new"
             /\ Goto(r, "limited")
             /\ UNCHANGED <<redis, trail, email, attempts, entry, admitted>>

\* INCR, and what is done with its reply.
Incr(r) ==
  /\ pc[r] = "new"
  /\ LET n == count[Key(r)] + 1 IN
       /\ count' = [count EXCEPT ![Key(r)] = n]
       /\ attempts' = [attempts EXCEPT ![r] = n]
       /\ Goto(r, IF Opens(n) THEN "expiring"
                  ELSE IF TooMany(n) THEN "limited" ELSE "checking")
       /\ admitted' = IF Opens(n) \/ TooMany(n) THEN admitted ELSE admitted \cup {r}
  /\ counted' = counted \cup {r}
  /\ UNCHANGED <<ttl, age, spoilt, trail, email, entry>>

\* INCR raises, whether it took effect or not: 500.  A counter that it made is
\* without TTL, and nobody reads a 1.  The client of redis_client.py has no
\* retry policy and sends a call once.
IncrFails(r) ==
  /\ pc[r] = "new"
  /\ \/ UNCHANGED <<count, spoilt>>
     \/ /\ count' = [count EXCEPT ![Key(r)] = @ + 1]
        /\ spoilt' = IF count[Key(r)] = 0 THEN spoilt \cup {Key(r)} ELSE spoilt
  /\ Goto(r, "failed")
  /\ UNCHANGED <<ttl, counted, age, trail, email, attempts, entry, admitted>>

\* Mutant of Lifetime: minutes for seconds.
LifetimeShort == 1

\* Mutant of Lifetime: a window too long by one.
LifetimeLong == Window + 1

Lifetime == Window

\* EXPIRE, and on to the password: attempts is 1 here.
Expire(r) ==
  /\ pc[r] = "expiring"
  /\ ttl' = [ttl EXCEPT ![Key(r)] = Lifetime]
  /\ admitted' = admitted \cup {r}
  /\ Goto(r, "checking")
  /\ UNCHANGED <<count, counted, age, spoilt, trail, email, attempts, entry>>

\* EXPIRE raises, whether it took effect or not: 500.
ExpireFails(r) ==
  /\ pc[r] = "expiring"
  /\ \/ ttl' = [ttl EXCEPT ![Key(r)] = Lifetime] /\ UNCHANGED spoilt
     \/ spoilt' = spoilt \cup {Key(r)} /\ UNCHANGED ttl
  /\ Goto(r, "failed")
  /\ UNCHANGED <<count, counted, age, trail, email, attempts, entry, admitted>>

-----------------------------------------------------------------------------
(* The password, the audit entry and the session.                          *)

\* The SELECT takes the email as typed; a wrong password, an unknown email
\* and a disabled user are one.  Either way an audit entry is added.
Verify(r) ==
  /\ pc[r] = "checking"
  /\ \/ /\ email[r] \in Registered
        /\ entry' = [entry EXCEPT ![r] = "USER_LOGIN_SUCCESS"]
        /\ Goto(r, "answered")
     \/ /\ entry' = [entry EXCEPT ![r] = "USER_LOGIN_FAILED"]
        /\ Goto(r, "erring")
  /\ UNCHANGED <<redis, trail, email, attempts, admitted>>

\* UnauthorizedError leaves the handler: get_db rolls back, then the 401.
Rollback(r) ==
  /\ pc[r] = "erring"
  /\ entry' = [entry EXCEPT ![r] = "none"]
  /\ Goto(r, "denied")
  /\ UNCHANGED <<redis, trail, email, attempts, admitted>>

\* The tokens are with the client already.
Commit(r) ==
  /\ pc[r] = "answered"
  /\ trail' = trail \cup {<<r, entry[r]>>}
  /\ entry' = [entry EXCEPT ![r] = "none"]
  /\ Goto(r, "done")
  /\ UNCHANGED <<redis, email, attempts, admitted>>

\* The database fails, the request is cancelled, or the worker dies.
Abort(r) ==
  /\ pc[r] \in InFlight
  /\ spoilt' = IF pc[r] = "expiring" THEN spoilt \cup {Key(r)} ELSE spoilt
  /\ entry' = [entry EXCEPT ![r] = "none"]
  /\ Goto(r, IF pc[r] = "answered" THEN "dropped" ELSE "failed")
  /\ UNCHANGED <<count, ttl, counted, age, trail, email, attempts, admitted>>

-----------------------------------------------------------------------------
(* Time.                                                                   *)

Left(e) == IF ttl[e] \in {Forever, 1} THEN Forever ELSE ttl[e] - 1

Gone(e) == ttl[e] # Forever /\ Left(e) = Forever

\* Redis deletes the keys whose time has come.
Tick ==
  /\ ttl' = [e \in Emails |-> Left(e)]
  /\ count' = [e \in Emails |-> IF Gone(e) THEN 0 ELSE count[e]]
  /\ counted' = {r \in counted : ~Gone(Key(r))}
  /\ spoilt' = {e \in spoilt : ~Gone(e)}
  /\ age' = [r \in Req |-> IF r \in admitted /\ age[r] < Window THEN age[r] + 1
                                                                   ELSE age[r]]
  /\ UNCHANGED <<trail, pc, email, attempts, entry, admitted>>

Step(r) == Expire(r) \/ Verify(r) \/ Rollback(r) \/ Commit(r)

Next == \/ \E r \in Req : \/ Refuse(r) \/ Incr(r) \/ IncrFails(r) \/ Step(r)
                          \/ ExpireFails(r) \/ Abort(r)
        \/ Tick

\* Logins go on, and time passes.
Fairness == WF_vars(Tick) /\ \A r \in Req : WF_vars(Step(r))

Spec == Init /\ [][Next]_vars

FairSpec == Spec /\ Fairness

-----------------------------------------------------------------------------
(* Properties.                                                             *)

\* The variables have their types; a key that is gone has no TTL.
TypeOK ==
  /\ count \in [Emails -> Nat]
  /\ ttl \in [Emails -> (1..Window) \cup {Forever}]
  /\ trail \subseteq Req \X {"USER_LOGIN_SUCCESS", "USER_LOGIN_FAILED"}
  /\ pc \in [Req -> {"new"} \cup InFlight \cup Ended]
  /\ email \in [Req -> Emails]
  /\ attempts \in [Req -> Nat]
  /\ entry \in [Req -> {"none", "USER_LOGIN_SUCCESS", "USER_LOGIN_FAILED"}]
  /\ counted \subseteq Req /\ admitted \subseteq Req
  /\ age \in [Req -> 0..Window]
  /\ spoilt \subseteq Emails

\* One key admits no more than Max logins to the password check, however the
\* email is typed, the logins race and the calls to Redis fail.
AttemptsBounded ==
  \A e \in Emails :
    Cardinality({r \in admitted \cap counted : Lower[email[r]] = e}) <= Max

\* Two keys can meet within an hour, the end of one and the start of the
\* next, but never three: no hour sees more than twice as many.
BurstBounded ==
  \A e \in Emails :
    Cardinality({r \in admitted : Lower[email[r]] = e /\ age[r] < Window}) <= 2 * Max

\* Attempts do not put off the end of the lockout: a TTL that runs is not
\* set again.
WindowFixed ==
  [][\A e \in Emails : ttl[e] # Forever => ttl'[e] \in {Left(e), ttl[e]}]_vars

\* A counter that nobody is about to give its TTL has one, unless the INCR
\* that made it raised, or the login stopped before EXPIRE was through.
OnlyFaultsLock ==
  \A e \in Emails : count[e] > 0 /\ ttl[e] = Forever =>
    e \in spoilt \/ \E r \in Req : pc[r] = "expiring" /\ Key(r) = e

\* And so an email that no such fault hit is let in again.
EmailUnlocked ==
  \A e \in Emails : count[e] > Max ~> count[e] = 0 \/ e \in spoilt

(* What comments and documentation say and the code does not do.           *)

\* auth.py:105: the failure is audited whether the user exists or not.
FailuresAudited ==
  \A r \in Req : pc[r] = "denied" => <<r, "USER_LOGIN_FAILED">> \in trail

\* auth.py:75 (1 hour window), DECISIONS.md D023 (10/hour per email).
LockoutEnds == \A e \in Emails : count[e] > Max ~> count[e] = 0

\* DECISIONS.md D023: the limit is cleared on successful login.
SuccessClears ==
  \A r \in Req : pc[r] = "done" /\ r \in counted => count[Key(r)] < attempts[r]
=============================================================================
