----------------------------- MODULE SetupProofs -----------------------------
(***************************************************************************)
(* Theorems about Setup.tla, for any numbers of batches: what no sequence  *)
(* of upgrades, downgrades and seeds, failing or cut short, can break.     *)
(***************************************************************************)
EXTENDS Setup, TLAPS

Names == {"users", "audit_logs", "documents", "document_chunks", "none", "email",
          "deleted_at", "active_pagination", "action", "actor_user_id", "created_at",
          "target_user_id", "target_created_id", "content_hash", "status",
          "uploaded_by", "document_chunk_idx", "document_id", "embedding_hnsw"}

Obj == [table : Names, index : Names]

Statement == [op : {"create", "drop", "drop if exists"}, on : Obj]

-----------------------------------------------------------------------------
(* Sequences of statements.                                                *)

LEMMA ConcatRange ==
  ASSUME NEW S, NEW s \in Seq(S), NEW t \in Seq(S)
  PROVE  s \o t \in Seq(S) /\ Range(s \o t) = Range(s) \cup Range(t)
<1>1. /\ s \o t \in Seq(S) /\ Len(s) \in Nat /\ Len(t) \in Nat
      /\ DOMAIN (s \o t) = 1..(Len(s) + Len(t))
      /\ DOMAIN s = 1..Len(s) /\ DOMAIN t = 1..Len(t)
  OBVIOUS
<1>2. ASSUME NEW i \in 1..(Len(s) + Len(t))
      PROVE  (s \o t)[i] = IF i <= Len(s) THEN s[i] ELSE t[i - Len(s)]
  BY <1>1
<1>3. ASSUME NEW x \in Range(s \o t) PROVE x \in Range(s) \cup Range(t)
  <2>1. PICK i \in 1..(Len(s) + Len(t)) : x = (s \o t)[i]
    BY <1>1 DEF Range
  <2>2. CASE i <= Len(s)
    BY <1>1, <1>2, <2>1, <2>2 DEF Range
  <2>3. CASE ~(i <= Len(s))
    <3>1. i - Len(s) \in 1..Len(t)
      BY <1>1, <2>3
    <3> QED BY <1>1, <1>2, <2>1, <2>3, <3>1 DEF Range
  <2> QED BY <2>2, <2>3
<1>4. ASSUME NEW x \in Range(s) PROVE x \in Range(s \o t)
  <2>1. PICK i \in 1..Len(s) : x = s[i]
    BY <1>1 DEF Range
  <2>2. i \in 1..(Len(s) + Len(t)) /\ i <= Len(s)
    BY <1>1
  <2> QED BY <1>1, <1>2, <2>1, <2>2 DEF Range
<1>5. ASSUME NEW x \in Range(t) PROVE x \in Range(s \o t)
  <2>1. PICK i \in 1..Len(t) : x = t[i]
    BY <1>1 DEF Range
  <2>2. i + Len(s) \in 1..(Len(s) + Len(t)) /\ ~(i + Len(s) <= Len(s))
        /\ (i + Len(s)) - Len(s) = i
    BY <1>1
  <2> QED BY <1>1, <1>2, <2>1, <2>2 DEF Range
<1> QED BY <1>1, <1>3, <1>4, <1>5

\* What a sequence of CREATEs creates, and of DROPs drops.
LEMMA CreatesSays ==
  ASSUME NEW os \in Seq(Obj)
  PROVE  /\ Creates(os) \in Seq(Statement)
         /\ Created(Creates(os)) = Range(os) /\ Dropped(Creates(os)) = {}
<1>1. /\ Len(os) \in Nat /\ DOMAIN os = 1..Len(os)
      /\ \A i \in 1..Len(os) : os[i] \in Obj
  OBVIOUS
<1>2. Creates(os) = [i \in 1..Len(os) |-> Create(os[i])]
  BY <1>1 DEF Creates
<1>3. \A i \in 1..Len(os) : /\ Creates(os)[i] \in Statement
                            /\ Creates(os)[i].op = "create"
                            /\ Creates(os)[i].on = os[i]
  BY <1>1, <1>2 DEF Create, Statement
<1>4. Creates(os) \in Seq(Statement)
  BY <1>1, <1>2, <1>3
<1>5. Range(Creates(os)) = {Creates(os)[i] : i \in 1..Len(os)}
  BY <1>2 DEF Range
<1>6. Range(os) = {os[i] : i \in 1..Len(os)}
  BY <1>1 DEF Range
<1> QED BY <1>3, <1>4, <1>5, <1>6 DEF Created, Dropped

LEMMA DropsSays ==
  ASSUME NEW os \in Seq(Obj)
  PROVE  /\ Drops(os) \in Seq(Statement)
         /\ Created(Drops(os)) = {} /\ Dropped(Drops(os)) = Range(os)
<1>1. /\ Len(os) \in Nat /\ DOMAIN os = 1..Len(os)
      /\ \A i \in 1..Len(os) : os[i] \in Obj
  OBVIOUS
<1>2. \A i \in 1..Len(os) : /\ Len(os) - i + 1 \in 1..Len(os)
                            /\ Len(os) - (Len(os) - i + 1) + 1 = i
  BY <1>1
<1>3. Reverse(os) = [i \in 1..Len(os) |-> os[Len(os) - i + 1]]
  BY DEF Reverse
<1>4. Drops(os) = [i \in 1..Len(os) |-> Drop(os[Len(os) - i + 1])]
  BY <1>1, <1>3 DEF Drops
<1>5. \A i \in 1..Len(os) : /\ Drops(os)[i] \in Statement
                            /\ Drops(os)[i].op = "drop"
                            /\ Drops(os)[i].on = os[Len(os) - i + 1]
  BY <1>1, <1>2, <1>4 DEF Drop, Statement
<1>6. Drops(os) \in Seq(Statement)
  BY <1>1, <1>4, <1>5
<1>7. Range(Drops(os)) = {Drops(os)[i] : i \in 1..Len(os)}
  BY <1>4 DEF Range
<1>8. Range(os) = {os[i] : i \in 1..Len(os)}
  BY <1>1 DEF Range
<1>9. Created(Drops(os)) = {}
  BY <1>5, <1>7 DEF Created
<1>10. Dropped(Drops(os)) = Range(os)
  <2>1. ASSUME NEW o \in Range(os) PROVE o \in Dropped(Drops(os))
    <3>1. PICK i \in 1..Len(os) : o = os[i]
      BY <1>8
    <3>2. Drops(os)[Len(os) - i + 1].on = o
      BY <1>2, <1>5, <3>1
    <3> QED BY <1>2, <1>5, <1>7, <3>2 DEF Dropped
  <2>2. ASSUME NEW o \in Dropped(Drops(os)) PROVE o \in Range(os)
    BY <1>2, <1>5, <1>7, <1>8 DEF Dropped
  <2> QED BY <2>1, <2>2
<1> QED BY <1>6, <1>9, <1>10

-----------------------------------------------------------------------------
(* What is left of a revision.                                             *)

\* Statements take o away: they drop it, or its table.
Removes(ss, o) == o \in Dropped(ss) \/ Table(o.table) \in Dropped(ss)

\* The objects os once the statements are carried out, if none of them takes
\* away what another one creates.
Result(os, ss) == {o \in os : ~Removes(ss, o)} \cup Created(ss)

Clean(ss) == \A o \in Created(ss) : ~Removes(ss, o)

\* The first of the statements and the others.
LEMMA HeadAndTail ==
  ASSUME NEW ss \in Seq(Statement), ss # << >>
  PROVE  /\ Head(ss) \in Statement /\ Tail(ss) \in Seq(Statement)
         /\ Range(ss) = {Head(ss)} \cup Range(Tail(ss))
<1>1. /\ Len(ss) \in Nat \ {0} /\ DOMAIN ss = 1..Len(ss) /\ Head(ss) = ss[1]
      /\ Tail(ss) \in Seq(Statement) /\ Len(Tail(ss)) = Len(ss) - 1
      /\ DOMAIN Tail(ss) = 1..(Len(ss) - 1)
      /\ \A i \in 1..(Len(ss) - 1) : Tail(ss)[i] = ss[i + 1]
  OBVIOUS
<1>2. Head(ss) \in Statement
  BY <1>1
<1>3. ASSUME NEW i \in 1..Len(ss) PROVE ss[i] \in {Head(ss)} \cup Range(Tail(ss))
  <2>1. CASE i = 1
    BY <1>1, <2>1
  <2>2. CASE i # 1
    <3>1. i - 1 \in 1..(Len(ss) - 1) /\ (i - 1) + 1 = i
      BY <1>1, <2>2
    <3>2. ss[i] = Tail(ss)[i - 1]
      BY <1>1, <3>1
    <3>3. i - 1 \in DOMAIN Tail(ss)
      BY <1>1, <3>1
    <3> QED BY <3>2, <3>3 DEF Range
  <2> QED BY <2>1, <2>2
<1>4. ASSUME NEW i \in 1..(Len(ss) - 1) PROVE Tail(ss)[i] \in Range(ss)
  <2>1. i + 1 \in 1..Len(ss)
    BY <1>1
  <2> QED BY <1>1, <2>1 DEF Range
<1>5. Head(ss) \in Range(ss)
  BY <1>1 DEF Range
<1>6. Range(ss) = {ss[i] : i \in 1..Len(ss)}
  BY <1>1 DEF Range
<1>7. Range(Tail(ss)) = {Tail(ss)[i] : i \in 1..(Len(ss) - 1)}
  BY <1>1 DEF Range
<1> QED BY <1>1, <1>2, <1>3, <1>4, <1>5, <1>6, <1>7

\* A statement that is carried out leaves the result the same.
LEMMA AfterKeepsResult ==
  ASSUME NEW ss \in Seq(Statement), ss # << >>, Clean(ss), NEW os
  PROVE  /\ Clean(Tail(ss))
         /\ Result(After(Head(ss), os), Tail(ss)) = Result(os, ss)
<1> DEFINE h == Head(ss)
           r == Tail(ss)
<1>1. h \in Statement /\ Range(ss) = {h} \cup Range(r)
  BY HeadAndTail
<1> HIDE DEF h, r
<1>2. h.on \in Obj /\ h.op \in {"create", "drop", "drop if exists"}
  BY <1>1 DEF Statement
<1>3. /\ Created(ss) = Created(r) \cup (IF h.op = "create" THEN {h.on} ELSE {})
      /\ Dropped(ss) = Dropped(r) \cup (IF h.op = "create" THEN {} ELSE {h.on})
  BY <1>1 DEF Created, Dropped
<1>4. Clean(r)
  BY <1>3 DEF Clean, Removes
<1>5. CASE h.op = "create"
  <2>1. After(h, os) = os \cup {h.on}
    BY <1>5 DEF After
  <2>2. ~Removes(r, h.on)
    BY <1>3, <1>5 DEF Clean, Removes
  <2>3. \A o : Removes(ss, o) <=> Removes(r, o)
    BY <1>3, <1>5 DEF Removes
  <2> QED BY <1>3, <1>4, <1>5, <2>1, <2>2, <2>3 DEF Result, h, r
<1>6. CASE h.op # "create"
  <2>1. \A o : h.on = Table(o.table) <=> h.on.index = "none" /\ o.table = h.on.table
    <3>1. h.on = [table |-> h.on.table, index |-> h.on.index]
      BY <1>2 DEF Obj
    <3>2. \A t : h.on = Table(t) => h.on.index = "none" /\ t = h.on.table
      BY DEF Table
    <3> QED BY <3>1, <3>2 DEF Table
  <2>2. \A o : Removes(ss, o) <=> \/ Removes(r, o) \/ o = h.on
                                  \/ h.on.index = "none" /\ o.table = h.on.table
    BY <1>3, <1>6, <2>1 DEF Removes
  <2>3. \A o : o \in After(h, os) <=>
                 o \in os /\ o # h.on /\ ~(h.on.index = "none" /\ o.table = h.on.table)
    BY <1>6 DEF After
  <2>4. \A o : o \in {x \in After(h, os) : ~Removes(r, x)}
                 <=> o \in {x \in os : ~Removes(ss, x)}
    BY <2>2, <2>3
  <2> HIDE DEF h, r
  <2>5. Created(ss) = Created(r)
    BY <1>3, <1>6
  <2> QED BY <1>4, <2>4, <2>5 DEF Result, h, r
<1> QED BY <1>5, <1>6

\* With nothing left the result is there.
LEMMA NothingLeft == \A os : Result(os, << >>) = os
<1>1. Range(<< >>) = {}
  BY DEF Range
<1>2. Created(<< >>) = {} /\ Dropped(<< >>) = {}
  BY <1>1 DEF Created, Dropped
<1> QED BY <1>2 DEF Result, Removes

-----------------------------------------------------------------------------
(* What the revisions say.                                                 *)

\* The objects of three revisions; two of them have TargetUser.
OfUsers == {Table("users"), DeletedAt, Email}
OfLogs == {Table("audit_logs"), Index("audit_logs", "action"),
           Index("audit_logs", "actor_user_id"), Index("audit_logs", "created_at"),
           TargetUser}
OfDocuments == {Table("documents"), Index("documents", "content_hash"),
                Index("documents", "status"), Index("documents", "uploaded_by"),
                Table("document_chunks"),
                Index("document_chunks", "document_chunk_idx"),
                Index("document_chunks", "document_id"), TargetUser}

LEMMA Objects ==
  /\ \A t \in Names : Table(t) \in Obj
  /\ \A t, i \in Names : Index(t, i) \in Obj
<1>1. "none" \in Names
  BY DEF Names
<1>2. \A t, i \in Names : [table |-> t, index |-> i] \in Obj
  BY DEF Obj
<1> QED BY <1>1, <1>2 DEF Table, Index

LEMMA NamedObjects ==
  {Email, DeletedAt, ActivePagination, TargetUser, TargetCreated, Hnsw} \subseteq Obj
BY Objects DEF Names, Email, DeletedAt, ActivePagination, TargetUser, TargetCreated, Hnsw

\* The sequences of objects that they are written with.
LEMMA UsersObjects ==
  LET os == <<Table("users"), DeletedAt, Email>>
  IN  os \in Seq(Obj) /\ Range(os) = OfUsers
<1> DEFINE a == Table("users")
           b == DeletedAt
           c == Email
<1>1. a \in Obj /\ b \in Obj /\ c \in Obj /\ OfUsers = {a, b, c}
  BY Objects, NamedObjects DEF OfUsers, Names
<1> HIDE DEF a, b, c
<1>2. <<a, b, c>> \in Seq(Obj) /\ Range(<<a, b, c>>) = {a, b, c}
  BY <1>1 DEF Range
<1> QED BY <1>1, <1>2 DEF a, b, c

LEMMA LogsObjects ==
  LET os == <<Table("audit_logs")>> \o OnLogs
  IN  os \in Seq(Obj) /\ Range(os) = OfLogs
<1> DEFINE t == Table("audit_logs")
           a == Index("audit_logs", "action")
           b == Index("audit_logs", "actor_user_id")
           c == Index("audit_logs", "created_at")
           d == TargetUser
<1>1. /\ t \in Obj /\ a \in Obj /\ b \in Obj /\ c \in Obj /\ d \in Obj
      /\ OfLogs = {t, a, b, c, d} /\ OnLogs = <<a, b, c, d>>
  BY Objects, NamedObjects DEF OfLogs, OnLogs, Names
<1> HIDE DEF t, a, b, c, d
<1>2. <<a, b, c, d>> \in Seq(Obj) /\ Range(<<a, b, c, d>>) = {a, b, c, d}
  BY <1>1 DEF Range
<1>3. <<t>> \in Seq(Obj) /\ Range(<<t>>) = {t}
  BY <1>1 DEF Range
<1>4. <<t>> \o <<a, b, c, d>> \in Seq(Obj) /\ Range(<<t>> \o <<a, b, c, d>>) = {t, a, b, c, d}
  <2> DEFINE u == <<t>>
             v == <<a, b, c, d>>
  <2>1. u \in Seq(Obj) /\ v \in Seq(Obj) /\ Range(u) \cup Range(v) = {t, a, b, c, d}
    BY <1>2, <1>3
  <2> HIDE DEF u, v
  <2>2. u \o v \in Seq(Obj) /\ Range(u \o v) = {t, a, b, c, d}
    BY <2>1, ConcatRange
  <2> QED BY <2>2 DEF u, v
<1> QED BY <1>1, <1>4 DEF t

LEMMA DocumentsObjects ==
  LET os == <<Table("documents")>> \o OnDocuments \o <<Table("document_chunks")>>
              \o OnChunks \o <<TargetUser>>
  IN  os \in Seq(Obj) /\ Range(os) = OfDocuments
<1> DEFINE t == Table("documents")
           a == Index("documents", "content_hash")
           b == Index("documents", "status")
           c == Index("documents", "uploaded_by")
           u == Table("document_chunks")
           d == Index("document_chunks", "document_chunk_idx")
           e == Index("document_chunks", "document_id")
           f == TargetUser
<1>1. /\ t \in Obj /\ a \in Obj /\ b \in Obj /\ c \in Obj
      /\ u \in Obj /\ d \in Obj /\ e \in Obj /\ f \in Obj
      /\ OfDocuments = {t, a, b, c, u, d, e, f}
      /\ OnDocuments = <<a, b, c>> /\ OnChunks = <<d, e>>
  BY Objects, NamedObjects DEF OfDocuments, OnDocuments, OnChunks, Names
<1> HIDE DEF t, a, b, c, u, d, e, f
<1>2. \A x \in Obj : <<x>> \in Seq(Obj) /\ Range(<<x>>) = {x}
  BY DEF Range
<1>3. /\ OnDocuments \in Seq(Obj) /\ Range(OnDocuments) = {a, b, c}
      /\ OnChunks \in Seq(Obj) /\ Range(OnChunks) = {d, e}
  BY <1>1 DEF Range
<1> DEFINE p == <<t>>
           q == <<u>>
           r == <<f>>
<1>4. /\ p \in Seq(Obj) /\ q \in Seq(Obj) /\ r \in Seq(Obj)
      /\ Range(p) = {t} /\ Range(q) = {u} /\ Range(r) = {f}
  BY <1>1, <1>2
<1> HIDE DEF p, q, r
<1> DEFINE w == p \o OnDocuments
           x == w \o q
           y == x \o OnChunks
           z == y \o r
<1>5. w \in Seq(Obj) /\ Range(w) = {t, a, b, c}
  <2>1. w \in Seq(Obj) /\ Range(w) = Range(p) \cup Range(OnDocuments)
    BY <1>3, <1>4, ConcatRange
  <2> QED BY <1>3, <1>4, <2>1
<1> HIDE DEF w
<1>6. x \in Seq(Obj) /\ Range(x) = {t, a, b, c, u}
  <2>1. x \in Seq(Obj) /\ Range(x) = Range(w) \cup Range(q)
    BY <1>4, <1>5, ConcatRange
  <2> QED BY <1>4, <1>5, <2>1
<1> HIDE DEF x
<1>7. y \in Seq(Obj) /\ Range(y) = {t, a, b, c, u, d, e}
  <2>1. y \in Seq(Obj) /\ Range(y) = Range(x) \cup Range(OnChunks)
    BY <1>3, <1>6, ConcatRange
  <2> QED BY <1>3, <1>6, <2>1
<1> HIDE DEF y
<1>8. z \in Seq(Obj) /\ Range(z) = {t, a, b, c, u, d, e, f}
  <2>1. z \in Seq(Obj) /\ Range(z) = Range(y) \cup Range(r)
    BY <1>4, <1>7, ConcatRange
  <2> QED BY <1>4, <1>7, <2>1
<1> HIDE DEF z
<1> QED BY <1>1, <1>8 DEF p, q, r, t, u, f, w, x, y, z

\* What a sequence of one or two statements creates and drops.
LEMMA OneCreate ==
  ASSUME NEW o \in Obj
  PROVE  /\ <<Create(o)>> \in Seq(Statement)
         /\ Created(<<Create(o)>>) = {o} /\ Dropped(<<Create(o)>>) = {}
<1> DEFINE s == Create(o)
<1>1. s \in Statement /\ s.op = "create" /\ s.on = o
  BY DEF Create, Statement
<1> HIDE DEF s
<1>2. <<s>> \in Seq(Statement) /\ Range(<<s>>) = {s}
  BY <1>1 DEF Range
<1>3. Created(<<s>>) = {o} /\ Dropped(<<s>>) = {}
  BY <1>1, <1>2 DEF Created, Dropped
<1> QED BY <1>2, <1>3 DEF s

LEMMA OneDrop ==
  ASSUME NEW o \in Obj, NEW s, s \in {Drop(o), DropIfExists(o)}
  PROVE  /\ <<s>> \in Seq(Statement)
         /\ Created(<<s>>) = {} /\ Dropped(<<s>>) = {o}
<1>1. s \in Statement /\ s.op # "create" /\ s.on = o
  <2>1. CASE s = Drop(o)
    BY <2>1 DEF Drop, Statement
  <2>2. CASE s = DropIfExists(o)
    BY <2>2 DEF DropIfExists, Statement
  <2> QED BY <2>1, <2>2
<1>2. <<s>> \in Seq(Statement) /\ Range(<<s>>) = {s}
  BY <1>1 DEF Range
<1>3. Created(<<s>>) = {} /\ Dropped(<<s>>) = {o}
  BY <1>1, <1>2 DEF Created, Dropped
<1> QED BY <1>2, <1>3

LEMMA DropCreate ==
  ASSUME NEW o \in Obj, NEW p \in Obj
  PROVE  /\ <<Drop(o), Create(p)>> \in Seq(Statement)
         /\ Created(<<Drop(o), Create(p)>>) = {p}
         /\ Dropped(<<Drop(o), Create(p)>>) = {o}
<1> DEFINE s == Drop(o)
           t == Create(p)
<1>1. /\ s \in Statement /\ s.op # "create" /\ s.on = o
      /\ t \in Statement /\ t.op = "create" /\ t.on = p
  BY DEF Drop, Create, Statement
<1> HIDE DEF s, t
<1>2. <<s, t>> \in Seq(Statement) /\ Range(<<s, t>>) = {s, t}
  BY <1>1 DEF Range
<1>3. Created(<<s, t>>) = {p} /\ Dropped(<<s, t>>) = {o}
  BY <1>1, <1>2 DEF Created, Dropped
<1> QED BY <1>2, <1>3 DEF s, t

\* What each revision creates and drops, upwards and downwards.
LEMMA UpSays ==
  /\ Newest = 6
  /\ \A v \in 1..6 : Up[v] \in Seq(Statement)
  /\ Created(Up[1]) = OfUsers /\ Dropped(Up[1]) = {}
  /\ Created(Up[2]) = {ActivePagination} /\ Dropped(Up[2]) = {DeletedAt}
  /\ Created(Up[3]) = OfLogs /\ Dropped(Up[3]) = {}
  /\ Created(Up[4]) = {TargetCreated} /\ Dropped(Up[4]) = {}
  /\ Created(Up[5]) = OfDocuments /\ Dropped(Up[5]) = {}
  /\ Created(Up[6]) = {Hnsw} /\ Dropped(Up[6]) = {}
<1>1. /\ Up[1] = UsersUp /\ Up[2] = PaginationUp /\ Up[3] = LogsUp
      /\ Up[4] = LogOrderUp /\ Up[5] = DocumentsUp /\ Up[6] = HnswUp /\ Newest = 6
  BY DEF Up, Newest
<1>2. UsersUp \in Seq(Statement) /\ Created(UsersUp) = OfUsers /\ Dropped(UsersUp) = {}
  BY UsersObjects, CreatesSays DEF UsersUp
<1>3. LogsUp \in Seq(Statement) /\ Created(LogsUp) = OfLogs /\ Dropped(LogsUp) = {}
  BY LogsObjects, CreatesSays DEF LogsUp
<1>4. /\ DocumentsUp \in Seq(Statement)
      /\ Created(DocumentsUp) = OfDocuments /\ Dropped(DocumentsUp) = {}
  BY DocumentsObjects, CreatesSays DEF DocumentsUp
<1>5. /\ PaginationUp \in Seq(Statement)
      /\ Created(PaginationUp) = {ActivePagination} /\ Dropped(PaginationUp) = {DeletedAt}
  BY NamedObjects, DropCreate DEF PaginationUp
<1>6. /\ LogOrderUp \in Seq(Statement)
      /\ Created(LogOrderUp) = {TargetCreated} /\ Dropped(LogOrderUp) = {}
  BY NamedObjects, OneCreate DEF LogOrderUp
<1>7. HnswUp \in Seq(Statement) /\ Created(HnswUp) = {Hnsw} /\ Dropped(HnswUp) = {}
  BY NamedObjects, OneCreate DEF HnswUp
<1>8. \A v \in 1..6 : v = 1 \/ v = 2 \/ v = 3 \/ v = 4 \/ v = 5 \/ v = 6
  OBVIOUS
<1>9. ASSUME NEW v \in 1..6 PROVE Up[v] \in Seq(Statement)
  BY <1>1, <1>2, <1>3, <1>4, <1>5, <1>6, <1>7, <1>8, Zenon
<1> QED BY <1>1, <1>2, <1>3, <1>4, <1>5, <1>6, <1>7, <1>9, Zenon

LEMMA DownSays ==
  /\ \A v \in 1..6 : Down[v] \in Seq(Statement)
  /\ Created(Down[1]) = {} /\ Dropped(Down[1]) = OfUsers
  /\ Created(Down[2]) = {DeletedAt} /\ Dropped(Down[2]) = {ActivePagination}
  /\ Created(Down[3]) = {} /\ Dropped(Down[3]) = OfLogs
  /\ Created(Down[4]) = {} /\ Dropped(Down[4]) = {TargetCreated}
  /\ Created(Down[5]) = {} /\ Dropped(Down[5]) = OfDocuments
  /\ Created(Down[6]) = {} /\ Dropped(Down[6]) = {Hnsw}
<1>1. /\ Down[1] = UsersDown /\ Down[2] = PaginationDown /\ Down[3] = LogsDown
      /\ Down[4] = LogOrderDown /\ Down[5] = DocumentsDown /\ Down[6] = HnswDown
  BY DEF Down
<1>2. UsersDown \in Seq(Statement) /\ Created(UsersDown) = {} /\ Dropped(UsersDown) = OfUsers
  BY UsersObjects, DropsSays DEF UsersDown
<1>3. LogsDown \in Seq(Statement) /\ Created(LogsDown) = {} /\ Dropped(LogsDown) = OfLogs
  BY LogsObjects, DropsSays DEF LogsDown
<1>4. /\ DocumentsDown \in Seq(Statement)
      /\ Created(DocumentsDown) = {} /\ Dropped(DocumentsDown) = OfDocuments
  BY DocumentsObjects, DropsSays DEF DocumentsDown
<1>5. /\ PaginationDown \in Seq(Statement)
      /\ Created(PaginationDown) = {DeletedAt} /\ Dropped(PaginationDown) = {ActivePagination}
  BY NamedObjects, DropCreate DEF PaginationDown
<1>6. /\ LogOrderDown \in Seq(Statement)
      /\ Created(LogOrderDown) = {} /\ Dropped(LogOrderDown) = {TargetCreated}
  BY NamedObjects, OneDrop DEF LogOrderDown
<1>7. HnswDown \in Seq(Statement) /\ Created(HnswDown) = {} /\ Dropped(HnswDown) = {Hnsw}
  BY NamedObjects, OneDrop DEF HnswDown
<1>8. \A v \in 1..6 : v = 1 \/ v = 2 \/ v = 3 \/ v = 4 \/ v = 5 \/ v = 6
  OBVIOUS
<1>9. ASSUME NEW v \in 1..6 PROVE Down[v] \in Seq(Statement)
  BY <1>1, <1>2, <1>3, <1>4, <1>5, <1>6, <1>7, <1>8, Zenon
<1> QED BY <1>1, <1>2, <1>3, <1>4, <1>5, <1>6, <1>7, <1>9, Zenon

\* What they make of an empty database, all in all.
LEMMA ExpectedSays ==
  /\ Expected(0) = {}
  /\ Expected(1) = OfUsers
  /\ Expected(2) = {Table("users"), Email, ActivePagination}
  /\ Expected(3) = Expected(2) \cup OfLogs
  /\ Expected(4) = Expected(3) \cup {TargetCreated}
  /\ Expected(5) = Expected(4) \cup OfDocuments
  /\ Expected(6) = Expected(5) \cup {Hnsw}
<1> DEFINE C(v) == UNION {Created(Up[r]) : r \in 1..v}
           D(v) == UNION {Dropped(Up[r]) : r \in 1..v}
<1>1. ASSUME NEW v \in Nat, NEW w, w = v + 1
      PROVE  C(w) = C(v) \cup Created(Up[w]) /\ D(w) = D(v) \cup Dropped(Up[w])
  <2>1. 1..w = 1..v \cup {w}
    BY <1>1
  <2> QED BY <2>1
<1>2. C(0) = {} /\ D(0) = {}
  OBVIOUS
<1>3. \A v : Expected(v) = C(v) \ D(v)
  BY DEF Expected
<1> HIDE DEF C, D
<1>4. C(1) = OfUsers /\ D(1) = {}
  <2>1. C(1) = C(0) \cup Created(Up[1]) /\ D(1) = D(0) \cup Dropped(Up[1])
    BY <1>1
  <2> QED BY <1>2, <2>1, UpSays
<1>5. C(2) = OfUsers \cup {ActivePagination} /\ D(2) = {DeletedAt}
  <2>1. C(2) = C(1) \cup Created(Up[2]) /\ D(2) = D(1) \cup Dropped(Up[2])
    BY <1>1
  <2> QED BY <1>4, <2>1, UpSays
<1>6. C(3) = C(2) \cup OfLogs /\ D(3) = {DeletedAt}
  <2>1. C(3) = C(2) \cup Created(Up[3]) /\ D(3) = D(2) \cup Dropped(Up[3])
    BY <1>1
  <2> QED BY <1>5, <2>1, UpSays
<1>7. C(4) = C(3) \cup {TargetCreated} /\ D(4) = {DeletedAt}
  <2>1. C(4) = C(3) \cup Created(Up[4]) /\ D(4) = D(3) \cup Dropped(Up[4])
    BY <1>1
  <2> QED BY <1>6, <2>1, UpSays
<1>8. C(5) = C(4) \cup OfDocuments /\ D(5) = {DeletedAt}
  <2>1. C(5) = C(4) \cup Created(Up[5]) /\ D(5) = D(4) \cup Dropped(Up[5])
    BY <1>1
  <2> QED BY <1>7, <2>1, UpSays
<1>9. C(6) = C(5) \cup {Hnsw} /\ D(6) = {DeletedAt}
  <2>1. C(6) = C(5) \cup Created(Up[6]) /\ D(6) = D(5) \cup Dropped(Up[6])
    BY <1>1
  <2> QED BY <1>8, <2>1, UpSays
<1>10. /\ Table("users") # DeletedAt /\ Email # DeletedAt /\ ActivePagination # DeletedAt
       /\ TargetCreated # DeletedAt /\ Hnsw # DeletedAt
       /\ DeletedAt \notin OfLogs /\ DeletedAt \notin OfDocuments
  BY DEF Table, Index, DeletedAt, Email, ActivePagination, TargetCreated, Hnsw, TargetUser,
         OfLogs, OfDocuments
<1>11. OfUsers = {Table("users"), DeletedAt, Email}
  BY DEF OfUsers
<1> HIDE DEF OfUsers, OfLogs, OfDocuments
<1>12. Expected(0) = {} /\ Expected(1) = OfUsers
  BY <1>2, <1>3, <1>4
<1>13. Expected(2) = {Table("users"), Email, ActivePagination}
  BY <1>3, <1>5, <1>10, <1>11
<1>14. Expected(3) = Expected(2) \cup OfLogs
  BY <1>3, <1>5, <1>6, <1>10
<1>15. Expected(4) = Expected(3) \cup {TargetCreated}
  BY <1>3, <1>6, <1>7, <1>10
<1>16. Expected(5) = Expected(4) \cup OfDocuments
  BY <1>3, <1>7, <1>8, <1>10
<1>17. Expected(6) = Expected(5) \cup {Hnsw}
  BY <1>3, <1>8, <1>9, <1>10
<1> QED BY <1>12, <1>13, <1>14, <1>15, <1>16, <1>17

\* Objects of the same table are told apart by their index.
LEMMA TableOfObjects ==
  /\ \A o \in OfUsers \cup {ActivePagination} : o.table = "users"
  /\ \A o \in OfLogs \cup {TargetCreated} : o.table = "audit_logs"
  /\ \A o \in OfDocuments \ {TargetUser} : o.table \in {"documents", "document_chunks"}
  /\ Hnsw.table = "document_chunks"
<1>1. \A t, i : Table(t).table = t /\ Index(t, i).table = t
  BY DEF Table, Index
<1>2. \A o \in OfUsers \cup {ActivePagination} : o.table = "users"
  BY <1>1 DEF OfUsers, DeletedAt, Email, ActivePagination
<1>3. \A o \in OfLogs \cup {TargetCreated} : o.table = "audit_logs"
  BY <1>1 DEF OfLogs, TargetUser, TargetCreated
<1>4. \A o \in OfDocuments \ {TargetUser} : o.table \in {"documents", "document_chunks"}
  BY <1>1 DEF OfDocuments
<1>5. Hnsw.table = "document_chunks"
  BY <1>1 DEF Hnsw
<1> QED BY <1>2, <1>3, <1>4, <1>5

LEMMA NoTable ==
  ASSUME NEW o \in {Email, DeletedAt, ActivePagination, TargetUser, TargetCreated, Hnsw}
  PROVE  \A t : o # Table(t)
  BY DEF Table, Index, DeletedAt, Email, ActivePagination, TargetUser, TargetCreated, Hnsw

IndexesOf(os) == {o \in os : o.index # "none"}

\* The indexes that two revisions create, as the models declare them.
LEMMA IndexesSay ==
  /\ ToSet(OnLogs) = IndexesOf(OfLogs)
  /\ ToSet(OnDocuments) \cup ToSet(OnChunks) \cup {TargetUser} = IndexesOf(OfDocuments)
<1>1. \A t : Table(t).index = "none"
  BY DEF Table
<1>2. \A t, i : Index(t, i).index = i
  BY DEF Index
<1>3. ToSet(OnLogs) = IndexesOf(OfLogs)
  <2> DEFINE a == Index("audit_logs", "action")
             b == Index("audit_logs", "actor_user_id")
             c == Index("audit_logs", "created_at")
  <2>1. /\ OnLogs = <<a, b, c, TargetUser>>
        /\ OfLogs = {Table("audit_logs"), a, b, c, TargetUser}
    BY DEF OnLogs, OfLogs
  <2>2. \A o \in {a, b, c, TargetUser} : o.index # "none"
    BY <1>2 DEF TargetUser
  <2> HIDE DEF a, b, c
  <2>3. ToSet(OnLogs) = {a, b, c, TargetUser}
    BY <2>1 DEF ToSet
  <2> QED BY <1>1, <2>1, <2>2, <2>3 DEF IndexesOf
<1>4. ToSet(OnDocuments) \cup ToSet(OnChunks) \cup {TargetUser} = IndexesOf(OfDocuments)
  <2> DEFINE a == Index("documents", "content_hash")
             b == Index("documents", "status")
             c == Index("documents", "uploaded_by")
             d == Index("document_chunks", "document_chunk_idx")
             e == Index("document_chunks", "document_id")
  <2>1. /\ OnDocuments = <<a, b, c>> /\ OnChunks = <<d, e>>
        /\ OfDocuments = {Table("documents"), a, b, c, Table("document_chunks"), d, e,
                          TargetUser}
    BY DEF OnDocuments, OnChunks, OfDocuments
  <2>2. \A o \in {a, b, c, d, e, TargetUser} : o.index # "none"
    BY <1>2 DEF TargetUser
  <2> HIDE DEF a, b, c, d, e
  <2>3. ToSet(OnDocuments) = {a, b, c} /\ ToSet(OnChunks) = {d, e}
    BY <2>1 DEF ToSet
  <2> QED BY <1>1, <2>1, <2>2, <2>3 DEF IndexesOf
<1> QED BY <1>3, <1>4

\* A revision that only creates.
LEMMA OnlyCreates ==
  ASSUME NEW ss, Dropped(ss) = {}
  PROVE  Clean(ss) /\ \A os : Result(os, ss) = os \cup Created(ss)
  BY DEF Clean, Result, Removes

\* Each revision takes the objects of one version to those of the next, and
\* takes nothing away that it creates.
LEMMA UpDoes ==
  ASSUME NEW v \in 0..5
  PROVE  /\ Up[v + 1] \in Seq(Statement) /\ Clean(Up[v + 1])
         /\ Result(Expected(v), Up[v + 1]) = Expected(v + 1)
<1>1. \/ (v = 0 /\ v + 1 = 1) \/ (v = 1 /\ v + 1 = 2) \/ (v = 2 /\ v + 1 = 3)
      \/ (v = 3 /\ v + 1 = 4) \/ (v = 4 /\ v + 1 = 5) \/ (v = 5 /\ v + 1 = 6)
  OBVIOUS
<1>2. Up[v + 1] \in Seq(Statement)
  BY UpSays
<1>3. Clean(Up[2]) /\ Result(Expected(1), Up[2]) = Expected(2)
  <2>1. Created(Up[2]) = {ActivePagination} /\ Dropped(Up[2]) = {DeletedAt}
    BY UpSays
  <2>2. \A o : Removes(Up[2], o) <=> o = DeletedAt
    BY <2>1, NoTable DEF Removes
  <2>3. ActivePagination # DeletedAt /\ Table("users") # DeletedAt /\ Email # DeletedAt
    BY DEF ActivePagination, DeletedAt, Email, Table, Index
  <2>4. Expected(1) = {Table("users"), DeletedAt, Email}
    BY ExpectedSays DEF OfUsers
  <2>5. Expected(2) = {Table("users"), Email, ActivePagination}
    BY ExpectedSays
  <2> QED BY <2>1, <2>2, <2>3, <2>4, <2>5 DEF Clean, Result
<1>4. Clean(Up[1]) /\ Result(Expected(0), Up[1]) = Expected(1)
  <2>1. Created(Up[1]) = OfUsers /\ Dropped(Up[1]) = {}
    BY UpSays
  <2>2. Clean(Up[1]) /\ Result(Expected(0), Up[1]) = Expected(0) \cup OfUsers
    BY <2>1, OnlyCreates
  <2>3. Expected(1) = Expected(0) \cup OfUsers
    BY ExpectedSays
  <2> QED BY <2>2, <2>3, Zenon
<1>5. Clean(Up[3]) /\ Result(Expected(2), Up[3]) = Expected(3)
  <2>1. Created(Up[3]) = OfLogs /\ Dropped(Up[3]) = {}
    BY UpSays
  <2>2. Clean(Up[3]) /\ Result(Expected(2), Up[3]) = Expected(2) \cup OfLogs
    BY <2>1, OnlyCreates
  <2>3. Expected(3) = Expected(2) \cup OfLogs
    BY ExpectedSays
  <2> QED BY <2>2, <2>3, Zenon
<1>6. Clean(Up[4]) /\ Result(Expected(3), Up[4]) = Expected(4)
  <2>1. Created(Up[4]) = {TargetCreated} /\ Dropped(Up[4]) = {}
    BY UpSays
  <2>2. Clean(Up[4]) /\ Result(Expected(3), Up[4]) = Expected(3) \cup {TargetCreated}
    BY <2>1, OnlyCreates
  <2>3. Expected(4) = Expected(3) \cup {TargetCreated}
    BY ExpectedSays
  <2> QED BY <2>2, <2>3, Zenon
<1>7. Clean(Up[5]) /\ Result(Expected(4), Up[5]) = Expected(5)
  <2>1. Created(Up[5]) = OfDocuments /\ Dropped(Up[5]) = {}
    BY UpSays
  <2>2. Clean(Up[5]) /\ Result(Expected(4), Up[5]) = Expected(4) \cup OfDocuments
    BY <2>1, OnlyCreates
  <2>3. Expected(5) = Expected(4) \cup OfDocuments
    BY ExpectedSays
  <2> QED BY <2>2, <2>3, Zenon
<1>8. Clean(Up[6]) /\ Result(Expected(5), Up[6]) = Expected(6)
  <2>1. Created(Up[6]) = {Hnsw} /\ Dropped(Up[6]) = {}
    BY UpSays
  <2>2. Clean(Up[6]) /\ Result(Expected(5), Up[6]) = Expected(5) \cup {Hnsw}
    BY <2>1, OnlyCreates
  <2>3. Expected(6) = Expected(5) \cup {Hnsw}
    BY ExpectedSays
  <2> QED BY <2>2, <2>3, Zenon
<1> QED BY <1>1, <1>2, <1>3, <1>4, <1>5, <1>6, <1>7, <1>8, Zenon

\* And downwards to those of the one before, but for TargetUser.
LEMMA DownDoes ==
  ASSUME NEW v \in 1..6
  PROVE  /\ Down[v] \in Seq(Statement) /\ Clean(Down[v])
         /\ Result(Expected(v), Down[v]) \ {TargetUser} = Expected(v - 1) \ {TargetUser}
<1>1. \/ (v = 1 /\ v - 1 = 0) \/ (v = 2 /\ v - 1 = 1) \/ (v = 3 /\ v - 1 = 2)
      \/ (v = 4 /\ v - 1 = 3) \/ (v = 5 /\ v - 1 = 4) \/ (v = 6 /\ v - 1 = 5)
  OBVIOUS
<1>2. Down[v] \in Seq(Statement)
  BY DownSays
<1>3. ASSUME NEW ss, Created(ss) = {}
      PROVE  Clean(ss) /\ \A os, o : o \in Result(os, ss) <=> o \in os /\ ~Removes(ss, o)
  BY <1>3 DEF Clean, Result
<1>4. \A o \in Expected(2) : o.table = "users"
  BY ExpectedSays, TableOfObjects DEF OfUsers
<1>5. \A o \in Expected(4) : o.table \in {"users", "audit_logs"}
  <2>1. Expected(4) = Expected(2) \cup OfLogs \cup {TargetCreated}
    BY ExpectedSays
  <2> QED BY <1>4, <2>1, TableOfObjects
<1>6. \A t, u : Table(t) = Table(u) => t = u
  BY DEF Table
<1>7. Clean(Down[1]) /\ Result(Expected(1), Down[1]) = Expected(0)
  <2>1. Created(Down[1]) = {} /\ Dropped(Down[1]) = OfUsers
    BY DownSays
  <2>2. \A o \in OfUsers : Removes(Down[1], o)
    BY <2>1 DEF Removes
  <2> QED BY <1>3, <2>1, <2>2, ExpectedSays
<1>8. Clean(Down[2]) /\ Result(Expected(2), Down[2]) = Expected(1)
  <2>1. Created(Down[2]) = {DeletedAt} /\ Dropped(Down[2]) = {ActivePagination}
    BY DownSays
  <2>2. \A o : Removes(Down[2], o) <=> o = ActivePagination
    BY <2>1, NoTable DEF Removes
  <2>3. ActivePagination # DeletedAt /\ Table("users") # ActivePagination
        /\ Email # ActivePagination
    BY DEF ActivePagination, DeletedAt, Email, Table, Index
  <2>4. Expected(1) = {Table("users"), DeletedAt, Email}
    BY ExpectedSays DEF OfUsers
  <2>5. Expected(2) = {Table("users"), Email, ActivePagination}
    BY ExpectedSays
  <2> QED BY <2>1, <2>2, <2>3, <2>4, <2>5 DEF Clean, Result
<1>9. Clean(Down[3]) /\ Result(Expected(3), Down[3]) = Expected(2)
  <2>1. Created(Down[3]) = {} /\ Dropped(Down[3]) = OfLogs
    BY DownSays
  <2>2. \A o \in OfLogs : Removes(Down[3], o)
    BY <2>1 DEF Removes
  <2>3. \A o \in Expected(2) : ~Removes(Down[3], o)
    <3>1. \A o \in OfLogs : o.table = "audit_logs"
      BY TableOfObjects
    <3>2. Table("users").table = "users"
      BY DEF Table
    <3> QED BY <1>4, <2>1, <3>1, <3>2 DEF Removes
  <2>4. Expected(3) = Expected(2) \cup OfLogs
    BY ExpectedSays
  <2> QED BY <1>3, <2>1, <2>2, <2>3, <2>4
<1>10. Clean(Down[4]) /\ Result(Expected(4), Down[4]) = Expected(3)
  <2>1. Created(Down[4]) = {} /\ Dropped(Down[4]) = {TargetCreated}
    BY DownSays
  <2>2. \A o : Removes(Down[4], o) <=> o = TargetCreated
    BY <2>1, NoTable DEF Removes
  <2>3. TargetCreated \notin Expected(3)
    <3>1. TargetCreated \notin OfLogs
      BY DEF OfLogs, TargetCreated, TargetUser, Table, Index
    <3>2. TargetCreated \notin Expected(2)
      BY <1>4, TableOfObjects
    <3> QED BY <3>1, <3>2, ExpectedSays
  <2>4. Expected(4) = Expected(3) \cup {TargetCreated}
    BY ExpectedSays
  <2> QED BY <1>3, <2>1, <2>2, <2>3, <2>4
<1>11. /\ Clean(Down[5])
       /\ Result(Expected(5), Down[5]) \ {TargetUser} = Expected(4) \ {TargetUser}
  <2>1. Created(Down[5]) = {} /\ Dropped(Down[5]) = OfDocuments
    BY DownSays
  <2>2. \A o \in OfDocuments : Removes(Down[5], o)
    BY <2>1 DEF Removes
  <2>3. \A o \in Expected(4) \ {TargetUser} : ~Removes(Down[5], o)
    <3>1. \A o \in OfDocuments \ {TargetUser} : o.table \in {"documents", "document_chunks"}
      BY TableOfObjects
    <3>2. \A t \in {"users", "audit_logs"} : Table(t).table = t /\ Table(t) # TargetUser
      BY NoTable DEF Table
    <3> QED BY <1>5, <2>1, <3>1, <3>2 DEF Removes
  <2>4. Expected(5) = Expected(4) \cup OfDocuments
    BY ExpectedSays
  <2> QED BY <1>3, <2>1, <2>2, <2>3, <2>4
<1>12. Clean(Down[6]) /\ Result(Expected(6), Down[6]) = Expected(5)
  <2>1. Created(Down[6]) = {} /\ Dropped(Down[6]) = {Hnsw}
    BY DownSays
  <2>2. \A o : Removes(Down[6], o) <=> o = Hnsw
    BY <2>1, NoTable DEF Removes
  <2>3. Hnsw \notin Expected(5)
    <3>1. Hnsw \notin OfDocuments
      BY DEF OfDocuments, Hnsw, TargetUser, Table, Index
    <3>2. Hnsw \notin Expected(4)
      BY <1>5, TableOfObjects
    <3> QED BY <3>1, <3>2, ExpectedSays
  <2>4. Expected(6) = Expected(5) \cup {Hnsw}
    BY ExpectedSays
  <2> QED BY <1>3, <2>1, <2>2, <2>3, <2>4
<1> QED
  BY <1>1, <1>2, <1>7, <1>8, <1>9, <1>10, <1>11, <1>12, Zenon

\* TargetUser is created with the logs and again with the documents, and taken
\* away with either.
LEMMA TargetUserIn ==
  /\ \A v \in 1..6 : TargetUser \in Created(Up[v]) <=> v \in {3, 5}
  /\ \A v \in 1..6 : ~Removes(Up[v], TargetUser)
  /\ \A v \in {2, 4, 6} : ~Removes(Down[v], TargetUser)
<1>1. TargetUser \in OfLogs /\ TargetUser \in OfDocuments
  BY DEF OfLogs, OfDocuments
<1>2. /\ TargetUser # Hnsw /\ TargetUser # TargetCreated
      /\ TargetUser # ActivePagination /\ TargetUser # DeletedAt /\ TargetUser \notin OfUsers
  BY DEF TargetUser, Hnsw, TargetCreated, ActivePagination, DeletedAt, Email, OfUsers, Table,
         Index
<1>3. \A v \in 1..6 : v = 1 \/ v = 2 \/ v = 3 \/ v = 4 \/ v = 5 \/ v = 6
  OBVIOUS
<1>4. ASSUME NEW v \in 1..6
      PROVE  TargetUser \in Created(Up[v]) <=> v \in {3, 5}
  BY <1>1, <1>2, <1>3, UpSays
<1>5. ASSUME NEW v \in 1..6 PROVE ~Removes(Up[v], TargetUser)
  <2>1. Dropped(Up[v]) \subseteq {DeletedAt}
    BY <1>3, UpSays
  <2> QED BY <1>2, <2>1, NoTable DEF Removes
<1>6. ASSUME NEW v \in {2, 4, 6} PROVE ~Removes(Down[v], TargetUser)
  <2>1. Dropped(Down[v]) \subseteq {ActivePagination, TargetCreated, Hnsw}
    BY DownSays
  <2> QED BY <1>2, <2>1, NoTable DEF Removes
<1> QED BY <1>4, <1>5, <1>6

-----------------------------------------------------------------------------
(* The inductive invariant.                                                *)

\* The objects are those of version v, but for TargetUser, which is there for
\* sure from the fifth revision on, and on a new database from the third.
AsVersion(os, v) ==
  /\ os \ {TargetUser} = Expected(v) \ {TargetUser}
  /\ v >= 5 => TargetUser \in os
  /\ origin = "fresh" => v <= 4 /\ (v >= 3 => TargetUser \in os)

\* The statements lead from the objects to version v; on a new database those
\* to the fifth create TargetUser, which is there.
Heading(os, ss, v) ==
  /\ ss \in Seq(Statement) /\ Clean(ss)
  /\ Result(os, ss) \ {TargetUser} = Expected(v) \ {TargetUser}
  /\ v >= 5 => TargetUser \in Result(os, ss)
  /\ origin = "fresh" =>
       /\ v <= 5
       /\ v \in {3, 4} => TargetUser \in Result(os, ss)
       /\ v = 5 => TargetUser \in os /\ TargetUser \in Created(ss)

\* The version that the revision in progress leads to.
Aim == IF at < goal THEN at + 1 ELSE IF goal < at THEN at - 1 ELSE at

SchemaInv == version \in 0..6 /\ AsVersion(objects, version)

MigrationInv ==
  pc = "migrating" => /\ at \in 0..6 /\ goal \in 0..6
                      /\ at = goal => todo = << >>
                      /\ Heading(work, todo, Aim)

\* A seed has inserted every batch of users that is not still to do.
SeedInv ==
  /\ logRows \in Nat /\ userRows \subseteq 1..UserBatches
  /\ LogsComeAfterUsers
  /\ pc = "users" => /\ todo \in Seq(1..UserBatches)
                     /\ \A b \in 1..UserBatches : b \in userRows \/ b \in Range(todo)
  /\ pc = "logs" => userRows = 1..UserBatches

IInv == SchemaInv /\ MigrationInv /\ SeedInv

-----------------------------------------------------------------------------
(* Migrations keep it.                                                     *)

LEMMA HeadingEnds ==
  ASSUME NEW os, NEW v \in 0..6, Heading(os, << >>, v)
  PROVE  AsVersion(os, v)
<1>1. Result(os, << >>) = os
  BY NothingLeft
<1>2. Created(<< >>) = {}
  BY DEF Created, Range
<1> QED BY <1>1, <1>2 DEF Heading, AsVersion

\* A revision begins.
LEMMA HeadingBegins ==
  ASSUME NEW os, NEW v \in 0..6, NEW g \in 0..6, v # g, AsVersion(os, v)
  PROVE  Heading(os, Revision(v, g), IF v < g THEN v + 1 ELSE v - 1)
<1>1. \A ss : Result(os, ss) \ {TargetUser} = Result(Expected(v), ss) \ {TargetUser}
  BY DEF AsVersion, Result
<1>2. \A ss : TargetUser \in Result(os, ss) <=>
                \/ TargetUser \in os /\ ~Removes(ss, TargetUser)
                \/ TargetUser \in Created(ss)
  BY DEF Result
<1>3. CASE v < g
  <2>1. v \in 0..5 /\ v + 1 \in 1..6
    BY <1>3
  <2>2. Revision(v, g) = Up[v + 1]
    BY <1>3 DEF Revision
  <2>3. /\ Up[v + 1] \in Seq(Statement) /\ Clean(Up[v + 1])
        /\ Result(Expected(v), Up[v + 1]) = Expected(v + 1)
    BY <2>1, UpDoes
  <2>4. /\ TargetUser \in Created(Up[v + 1]) <=> v + 1 \in {3, 5}
        /\ ~Removes(Up[v + 1], TargetUser)
    BY <2>1, TargetUserIn
  <2>5. v + 1 >= 5 => TargetUser \in Result(os, Up[v + 1])
    <3>1. v + 1 >= 5 => v + 1 = 5 \/ v >= 5
      BY <2>1
    <3> QED BY <1>2, <2>4, <3>1 DEF AsVersion
  <2>6. ASSUME origin = "fresh"
        PROVE  /\ v + 1 <= 5
               /\ v + 1 \in {3, 4} => TargetUser \in Result(os, Up[v + 1])
               /\ v + 1 = 5 => TargetUser \in os /\ TargetUser \in Created(Up[v + 1])
    <3>1. v <= 4 /\ (v >= 3 => TargetUser \in os)
      BY <2>6 DEF AsVersion
    <3>2. v + 1 = 4 => v >= 3
      BY <2>1
    <3>3. v + 1 = 5 => v >= 3
      BY <2>1
    <3>4. v + 1 <= 5
      BY <2>1, <3>1
    <3> QED BY <1>2, <2>4, <3>1, <3>2, <3>3, <3>4
  <2>7. Result(os, Up[v + 1]) \ {TargetUser} = Expected(v + 1) \ {TargetUser}
    BY <1>1, <2>3
  <2>8. Heading(os, Up[v + 1], v + 1)
    BY <2>3, <2>5, <2>6, <2>7 DEF Heading
  <2> QED BY <1>3, <2>2, <2>8
<1>4. CASE ~(v < g)
  <2>1. v \in 1..6 /\ v - 1 \in 0..5
    BY <1>4
  <2>2. Revision(v, g) = Down[v]
    BY <1>4 DEF Revision
  <2>3. /\ Down[v] \in Seq(Statement) /\ Clean(Down[v])
        /\ Result(Expected(v), Down[v]) \ {TargetUser} = Expected(v - 1) \ {TargetUser}
    BY <2>1, DownDoes
  <2>4. v - 1 >= 5 => TargetUser \in Result(os, Down[v])
    <3>1. v - 1 >= 5 => v = 6 /\ v >= 5
      BY <2>1
    <3>2. v = 6 => ~Removes(Down[v], TargetUser)
      BY TargetUserIn
    <3> QED BY <1>2, <3>1, <3>2 DEF AsVersion
  <2>5. ASSUME origin = "fresh"
        PROVE  v - 1 <= 3 /\ (v - 1 = 3 => TargetUser \in Result(os, Down[v]))
    <3>1. v <= 4 /\ (v >= 3 => TargetUser \in os)
      BY <2>5 DEF AsVersion
    <3>2. v - 1 = 3 => v = 4
      BY <2>1
    <3>3. v = 4 => ~Removes(Down[v], TargetUser) /\ v >= 3
      BY TargetUserIn
    <3>4. v - 1 <= 3
      BY <2>1, <3>1
    <3> QED BY <1>2, <3>1, <3>2, <3>3, <3>4
  <2>6. Result(os, Down[v]) \ {TargetUser} = Expected(v - 1) \ {TargetUser}
    BY <1>1, <2>3
  <2>7. origin = "fresh" => v - 1 # 4 /\ v - 1 # 5 /\ v - 1 <= 5
    BY <2>1, <2>5
  <2>8. Heading(os, Down[v], v - 1)
    BY <2>3, <2>4, <2>5, <2>6, <2>7 DEF Heading
  <2> QED BY <1>4, <2>2, <2>8
<1> QED BY <1>3, <1>4

\* A statement is carried out.
LEMMA HeadingGoesOn ==
  ASSUME NEW os, NEW ss, ss # << >>, NEW v, Heading(os, ss, v),
         Succeeds(Head(ss), os)
  PROVE  Heading(After(Head(ss), os), Tail(ss), v)
<1> DEFINE h == Head(ss)
           r == Tail(ss)
<1>1. /\ ss \in Seq(Statement) /\ Clean(ss)
      /\ Clean(r) /\ Result(After(h, os), r) = Result(os, ss)
      /\ h \in Statement /\ r \in Seq(Statement) /\ Range(ss) = {h} \cup Range(r)
  BY AfterKeepsResult, HeadAndTail DEF Heading
<1> HIDE DEF h, r
<1>2. ASSUME TargetUser \in os, TargetUser \in Created(ss)
      PROVE  TargetUser \in After(h, os) /\ TargetUser \in Created(r)
  <2>1. ~Removes(ss, TargetUser)
    BY <1>1, <1>2 DEF Clean
  <2>2. CASE h.op = "create"
    <3>1. h.on # TargetUser
      BY <1>2, <2>2 DEF Succeeds, h
    <3> QED BY <1>1, <1>2, <2>2, <3>1 DEF Created, After
  <2>3. CASE h.op # "create"
    <3>1. h.on \in Dropped(ss)
      BY <1>1, <2>3 DEF Dropped
    <3>2. h.on # TargetUser /\ h.on # Table(TargetUser.table)
      BY <2>1, <3>1 DEF Removes
    <3>3. h.on \in Obj
      BY <1>1 DEF Statement
    <3>4. ~(h.on.index = "none" /\ h.on.table = TargetUser.table)
      <4>1. h.on = [table |-> h.on.table, index |-> h.on.index]
        BY <3>3 DEF Obj
      <4> QED BY <3>2, <4>1 DEF Table
    <3>5. TargetUser \in After(h, os)
      BY <1>2, <2>3, <3>2, <3>4 DEF After
    <3> QED BY <1>1, <1>2, <2>3, <3>5 DEF Created
  <2> QED BY <2>2, <2>3
<1> QED BY <1>1, <1>2 DEF Heading, h, r

\* Logs need users, at every version.
LEMMA LogsNeedUsers ==
  ASSUME NEW os, NEW v \in 0..6, AsVersion(os, v), "audit_logs" \in Tables(os)
  PROVE  "users" \in Tables(os)
<1>1. PICK o \in os : o.index = "none" /\ o.table = "audit_logs"
  BY DEF Tables
<1>2. o \in Expected(v)
  BY <1>1 DEF AsVersion, TargetUser, Index
<1>3. \/ v = 0 \/ v = 1 \/ v = 2 \/ v = 3 \/ v = 4 \/ v = 5 \/ v = 6
  OBVIOUS
<1>4. Table("users") \in Expected(v)
  <2>1. v # 0
    BY <1>2, ExpectedSays
  <2>2. Table("users") \in OfUsers
    BY DEF OfUsers
  <2> QED BY <1>3, <2>1, <2>2, ExpectedSays
<1>5. Table("users") \in os /\ Table("users").index = "none" /\ Table("users").table = "users"
  BY <1>4 DEF AsVersion, Table, TargetUser, Index
<1> QED BY <1>5 DEF Tables

-----------------------------------------------------------------------------
(* Every step keeps it.                                                    *)

LEMMA InitInvariant == Init => IInv
<1> SUFFICES ASSUME Init PROVE IInv
  OBVIOUS
<1>1. SchemaInv
  <2>1. CASE origin = "fresh"
    BY <2>1, ExpectedSays DEF Init, SchemaInv, AsVersion
  <2>2. CASE origin = "drifted"
    BY <2>2 DEF Init, SchemaInv, AsVersion
  <2> QED BY <2>1, <2>2 DEF Init
<1> QED BY <1>1 DEF Init, IInv, MigrationInv, SeedInv, LogsComeAfterUsers

\* Statements, stamps and failures leave the database alone.
LEMMA SchemaKept ==
  ASSUME SchemaInv, UNCHANGED schema
  PROVE  SchemaInv'
  BY DEF SchemaInv, AsVersion, schema

\* Commands change no rows until they commit.
LEMMA RowsKept ==
  ASSUME SeedInv, UNCHANGED <<userRows, logRows>>, pc' \notin {"users", "logs"}
  PROVE  SeedInv'
  BY DEF SeedInv, LogsComeAfterUsers

LEMMA MigrateKeeps ==
  ASSUME IInv, Migrate
  PROVE  IInv'
<1>1. /\ UNCHANGED schema /\ UNCHANGED <<userRows, logRows>> /\ pc' = "migrating"
      /\ version \in 0..6 /\ goal' \in 0..6 /\ version # goal' /\ AsVersion(objects, version)
      /\ work' = objects /\ at' = version /\ todo' = Revision(version, goal')
  BY UpSays DEF Migrate, IInv, SchemaInv
<1>2. SchemaInv' /\ SeedInv'
  BY <1>1, SchemaKept, RowsKept DEF IInv
<1> DEFINE g == goal'
<1>3. Heading(objects, Revision(version, g), IF version < g THEN version + 1 ELSE version - 1)
  <2>1. g \in 0..6 /\ version # g
    BY <1>1
  <2> HIDE DEF g
  <2> QED BY <1>1, <2>1, HeadingBegins
<1>4. Aim' = IF version < g THEN version + 1 ELSE version - 1
  BY <1>1 DEF Aim
<1>5. Heading(work, todo, Aim)'
  BY <1>1, <1>3, <1>4 DEF Heading, schema
<1> QED BY <1>1, <1>2, <1>5 DEF IInv, MigrationInv

LEMMA ExecuteKeeps ==
  ASSUME IInv, Execute
  PROVE  IInv'
<1>1. /\ UNCHANGED schema /\ UNCHANGED <<userRows, logRows, pc, at, goal>>
      /\ pc = "migrating" /\ todo # << >> /\ Succeeds(Head(todo), work)
      /\ work' = After(Head(todo), work) /\ todo' = Tail(todo)
  BY DEF Execute
<1>2. SchemaInv' /\ SeedInv'
  BY <1>1, SchemaKept, RowsKept DEF IInv
<1>3. Heading(After(Head(todo), work), Tail(todo), Aim)
  BY <1>1, HeadingGoesOn DEF IInv, MigrationInv
<1>4. Heading(work, todo, Aim)'
  BY <1>1, <1>3 DEF Heading, Aim, schema
<1> QED BY <1>1, <1>2, <1>4 DEF IInv, MigrationInv

LEMMA StampKeeps ==
  ASSUME IInv, Stamp
  PROVE  IInv'
<1>1. /\ UNCHANGED schema /\ UNCHANGED <<userRows, logRows, pc, work, goal>>
      /\ pc = "migrating" /\ todo = << >> /\ at # goal
      /\ at' = IF at < goal THEN at + 1 ELSE at - 1
      /\ todo' = IF at' = goal THEN << >> ELSE Revision(at', goal)
  BY DEF Stamp
<1>2. SchemaInv' /\ SeedInv'
  BY <1>1, SchemaKept, RowsKept DEF IInv
<1>3. at \in 0..6 /\ goal \in 0..6 /\ Heading(work, << >>, Aim)
  BY <1>1 DEF IInv, MigrationInv
<1>4. Aim \in 0..6 /\ at' = Aim
  BY <1>1, <1>3 DEF Aim
<1>5. AsVersion(work, Aim)
  BY <1>3, <1>4, HeadingEnds
<1>6. Heading(work', todo', Aim') /\ (at' = goal' => todo' = << >>)
  <2>1. CASE at' = goal
    <3>1. work' = work /\ todo' = todo /\ Aim' = Aim
      BY <1>1, <1>3, <1>4, <2>1 DEF Aim
    <3> QED BY <1>1, <1>3, <2>1, <3>1
  <2>2. CASE at' # goal
    <3>1. Aim' = IF Aim < goal THEN Aim + 1 ELSE Aim - 1
      BY <1>1, <1>3, <1>4, <2>2 DEF Aim
    <3> DEFINE v == Aim
    <3>2. v \in 0..6 /\ v # goal /\ AsVersion(work, v)
      BY <1>4, <1>5, <2>2
    <3>3. todo' = Revision(v, goal) /\ work' = work
      BY <1>1, <1>4, <2>2
    <3> HIDE DEF v
    <3>4. Heading(work, Revision(v, goal), IF v < goal THEN v + 1 ELSE v - 1)
      BY <1>3, <3>2, HeadingBegins
    <3> QED BY <1>1, <2>2, <3>1, <3>3, <3>4 DEF v
  <2> QED BY <2>1, <2>2
<1>7. Heading(work, todo, Aim)'
  BY <1>1, <1>6 DEF Heading, schema
<1>8. at' \in 0..6 /\ goal' \in 0..6
  BY <1>1, <1>3, <1>4
<1> QED BY <1>1, <1>2, <1>6, <1>7, <1>8 DEF IInv, MigrationInv

LEMMA CommitKeeps ==
  ASSUME IInv, Commit
  PROVE  IInv'
<1>1. /\ pc = "migrating" /\ todo = << >> /\ at = goal /\ pc' = "idle"
      /\ objects' = work /\ version' = at /\ origin' = origin
      /\ userRows' = IF "users" \in Tables(work) THEN userRows ELSE {}
      /\ logRows' = IF "audit_logs" \in Tables(work) THEN logRows ELSE 0
  BY DEF Commit, Finish
<1>2. at \in 0..6 /\ Aim = at /\ Heading(work, << >>, at)
  BY <1>1 DEF IInv, MigrationInv, Aim
<1>3. AsVersion(work, at)
  BY <1>2, HeadingEnds
<1>4. SchemaInv'
  BY <1>1, <1>2, <1>3 DEF SchemaInv, AsVersion
<1>5. "audit_logs" \in Tables(work) => "users" \in Tables(work)
  BY <1>2, <1>3, LogsNeedUsers
<1>6. SeedInv'
  BY <1>1, <1>5 DEF IInv, SeedInv, LogsComeAfterUsers
<1> QED BY <1>1, <1>4, <1>6 DEF IInv, MigrationInv

\* The batches of users, before the first one.
LEMMA SeedKeeps ==
  ASSUME IInv, Seed
  PROVE  IInv'
<1>1. /\ UNCHANGED schema /\ UNCHANGED <<userRows, logRows>>
      /\ pc' = "users" /\ todo' = [b \in 1..UserBatches |-> b]
  BY DEF Seed
<1>2. UserBatches \in Nat
  BY BatchesAssumption
<1>3. todo' \in Seq(1..UserBatches) /\ Range(todo') = 1..UserBatches
  BY <1>1, <1>2 DEF Range
<1>4. SeedInv'
  BY <1>1, <1>3 DEF IInv, SeedInv, LogsComeAfterUsers
<1> QED BY <1>1, <1>4, SchemaKept DEF IInv, MigrationInv

LEMMA SeedUsersKeeps ==
  ASSUME IInv, SeedUsers
  PROVE  IInv'
<1>1. /\ UNCHANGED schema /\ logRows' = logRows
      /\ pc = "users" /\ pc' = "users" /\ todo # << >>
      /\ userRows' = userRows \cup {Head(todo)} /\ todo' = Tail(todo)
  BY DEF SeedUsers
<1>2. /\ todo \in Seq(1..UserBatches) /\ userRows \subseteq 1..UserBatches
      /\ \A b \in 1..UserBatches : b \in userRows \/ b \in Range(todo)
      /\ logRows > 0 => userRows = 1..UserBatches
  BY <1>1 DEF IInv, SeedInv, LogsComeAfterUsers
<1>3. /\ Head(todo) \in 1..UserBatches /\ Tail(todo) \in Seq(1..UserBatches)
      /\ Range(todo) \subseteq {Head(todo)} \cup Range(Tail(todo))
  <2>1. /\ Len(todo) \in Nat \ {0} /\ DOMAIN todo = 1..Len(todo) /\ Head(todo) = todo[1]
        /\ Tail(todo) \in Seq(1..UserBatches) /\ DOMAIN Tail(todo) = 1..(Len(todo) - 1)
        /\ \A i \in 1..(Len(todo) - 1) : Tail(todo)[i] = todo[i + 1]
    BY <1>1, <1>2
  <2>2. Head(todo) \in 1..UserBatches
    <3> DEFINE S == 1..UserBatches
    <3>1. todo \in Seq(S) /\ todo # << >>
      BY <1>1, <1>2
    <3> HIDE DEF S
    <3>2. Head(todo) \in S
      BY <3>1
    <3> QED BY <3>2 DEF S
  <2>3. ASSUME NEW i \in 1..Len(todo)
        PROVE  todo[i] \in {Head(todo)} \cup Range(Tail(todo))
    <3>1. CASE i = 1
      BY <2>1, <3>1
    <3>2. CASE i # 1
      <4>1. i - 1 \in 1..(Len(todo) - 1) /\ (i - 1) + 1 = i
        BY <2>1, <3>2
      <4> QED BY <2>1, <4>1 DEF Range
    <3> QED BY <3>1, <3>2
  <2> QED BY <2>1, <2>2, <2>3 DEF Range
<1>4. SeedInv'
  BY <1>1, <1>2, <1>3 DEF IInv, SeedInv, LogsComeAfterUsers
<1> QED BY <1>1, <1>4, SchemaKept DEF IInv, MigrationInv

LEMMA TurnToLogsKeeps ==
  ASSUME IInv, TurnToLogs
  PROVE  IInv'
<1>1. /\ UNCHANGED schema /\ UNCHANGED <<userRows, logRows>>
      /\ pc = "users" /\ todo = << >> /\ pc' \in {"logs", "idle"}
  BY DEF TurnToLogs, Finish
<1>2. Range(<< >>) = {}
  BY DEF Range
<1>3. userRows = 1..UserBatches
  BY <1>1, <1>2 DEF IInv, SeedInv
<1>4. SeedInv'
  BY <1>1, <1>3 DEF IInv, SeedInv, LogsComeAfterUsers
<1> QED BY <1>1, <1>4, SchemaKept DEF IInv, MigrationInv

LEMMA SeedLogsKeeps ==
  ASSUME IInv, SeedLogs
  PROVE  IInv'
<1>1. /\ UNCHANGED schema /\ userRows' = userRows
      /\ pc = "logs" /\ pc' \in {"logs", "idle"} /\ logRows' \in {logRows, logRows + 1}
  BY DEF SeedLogs, Finish
<1>2. SeedInv'
  BY <1>1 DEF IInv, SeedInv, LogsComeAfterUsers
<1> QED BY <1>1, <1>2, SchemaKept DEF IInv, MigrationInv

LEMMA NextInvariant == IInv /\ [Next]_vars => IInv'
<1> SUFFICES ASSUME IInv, [Next]_vars PROVE IInv'
  OBVIOUS
<1>1. CASE ExecuteFails \/ SeedUsersFails \/ Interrupt
  <2>1. UNCHANGED schema /\ UNCHANGED <<userRows, logRows>> /\ pc' = "idle"
    BY <1>1 DEF ExecuteFails, SeedUsersFails, Interrupt, Finish
  <2> QED BY <2>1, SchemaKept, RowsKept DEF IInv, MigrationInv
<1>2. CASE UNCHANGED vars
  <2>1. UNCHANGED schema /\ UNCHANGED <<userRows, logRows, pc, work, at, goal, todo>>
    BY <1>2 DEF vars
  <2>2. MigrationInv'
    BY <2>1 DEF IInv, MigrationInv, Heading, Aim, schema
  <2>3. SeedInv'
    BY <2>1 DEF IInv, SeedInv, LogsComeAfterUsers
  <2> QED BY <2>1, <2>2, <2>3, SchemaKept DEF IInv
<1> QED
  BY <1>1, <1>2, MigrateKeeps, ExecuteKeeps, StampKeeps, CommitKeeps, SeedKeeps,
     SeedUsersKeeps, TurnToLogsKeeps, SeedLogsKeeps DEF Next

-----------------------------------------------------------------------------
(* The theorems.                                                           *)

\* The invariant holds in every state, for any number of batches.
THEOREM Invariance == Spec => []IInv
  BY InitInvariant, NextInvariant, PTL DEF Spec

\* The schema is what alembic_version says, but for the index that two
\* revisions create, however migrations fail or are cut short.
THEOREM SchemaTold == Spec => []SchemaAsVersionSays
<1>1. IInv => SchemaAsVersionSays
  BY DEF IInv, SchemaInv, AsVersion, SchemaAsVersionSays
<1> QED BY <1>1, Invariance, PTL

\* At the head there are the indexes that the models declare, and Hnsw.
THEOREM HeadAsDeclared == Spec => []HeadMatchesModels
<1>1. ASSUME IInv, version = Newest
      PROVE  {o \in objects : o.index # "none"} = Declared \cup {Hnsw}
  <2>1. version = 6
    BY <1>1, UpSays
  <2>2. objects = Expected(6)
    <3>1. TargetUser \in Expected(6)
      BY ExpectedSays DEF OfDocuments
    <3> QED BY <1>1, <2>1, <3>1 DEF IInv, SchemaInv, AsVersion
  <2>3. Expected(6) = {Table("users"), Email, ActivePagination} \cup OfLogs
                        \cup {TargetCreated} \cup OfDocuments \cup {Hnsw}
    BY ExpectedSays
  <2>4. ToSet(OnLogs) = IndexesOf(OfLogs)
    BY IndexesSay
  <2>5. ToSet(OnDocuments) \cup ToSet(OnChunks) \cup {TargetUser} = IndexesOf(OfDocuments)
    BY IndexesSay
  <2>6. /\ Table("users").index = "none"
        /\ \A o \in {Email, ActivePagination, TargetCreated, Hnsw} : o.index # "none"
    BY DEF Table, Index, Email, ActivePagination, TargetCreated, Hnsw
  <2>7. TargetUser \in ToSet(OnLogs)
    BY IndexesSay DEF IndexesOf, OfLogs, TargetUser, Index
  <2> HIDE DEF OfLogs, OfDocuments
  <2>8. {o \in Expected(6) : o.index # "none"}
          = {Email, ActivePagination} \cup IndexesOf(OfLogs) \cup {TargetCreated}
              \cup IndexesOf(OfDocuments) \cup {Hnsw}
    BY <2>3, <2>6 DEF IndexesOf
  <2>9. Declared \cup {Hnsw}
          = {Email, ActivePagination} \cup IndexesOf(OfLogs) \cup {TargetCreated}
              \cup IndexesOf(OfDocuments) \cup {Hnsw}
    BY <2>4, <2>5, <2>7 DEF Declared
  <2> QED BY <2>2, <2>8, <2>9
<1> QED BY <1>1, Invariance, PTL DEF HeadMatchesModels

\* Logs of the seed come only after all of its users.
THEOREM LogsAfterUsers == Spec => []LogsComeAfterUsers
  BY Invariance, PTL DEF IInv, SeedInv
=============================================================================
