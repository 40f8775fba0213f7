------------------------------ MODULE Chunking ------------------------------
(***************************************************************************)
(* chunk_text (app/services/chunking.py): a text is split into pieces, at  *)
(* paragraphs, in long paragraphs at sentences and in long sentences at    *)
(* words, and the pieces are merged greedily into overlapping chunks.  The *)
(* splits are operators on positions, the merge loop is a state machine.   *)
(***************************************************************************)
EXTENDS Integers, Sequences, SequencesExt, FiniteSetsExt

CONSTANTS Texts,       \* texts, as sequences of the four Chars
          chunk_size,
          chunk_overlap

\* chunk_text raises a ValueError otherwise.
ASSUME SizeAssumption ==
  /\ {chunk_size, chunk_overlap} \subseteq Nat
  /\ chunk_overlap < chunk_size

\* A letter, the end of a sentence, a space, a newline.
Chars == {"x", ".", " ", "\n"}
Spaces == {" ", "\n"}

ASSUME TextsAssumption == Texts \subseteq Seq(Chars)

VARIABLES text,           \* the text
          pieces,         \* the pieces not merged yet
          buffer,         \* the pieces of the chunk under construction
          buffer_length,  \* their lengths, with one for a joiner each
          chunks,         \* the chunks made, as sequences of pieces
          pc              \* "split", "merge" or "done"

vars == <<text, pieces, buffer, buffer_length, chunks, pc>>

-----------------------------------------------------------------------------
(* Pieces.  A piece stands for the characters after start_char up to       *)
(* end_char; positions count from 1 as in TLA+, offsets from 0.            *)

Piece(p) == p \in [start_char : Nat, end_char : Nat] /\ p.start_char < p.end_char

Positions(p) == (p.start_char + 1)..p.end_char

length(p) == p.end_char - p.start_char

\* What is left of piece p between the positions of the separators.
Between(p, separators) ==
  {q \in [start_char : p.start_char..p.end_char, end_char : p.start_char..p.end_char] :
     /\ Piece(q)
     /\ Positions(q) \cap separators = {}
     /\ q.start_char = p.start_char \/ q.start_char \in separators
     /\ q.end_char = p.end_char \/ q.end_char + 1 \in separators}

\* The first position of the run of characters of C that i is in, within p.
RunStart(t, p, C, i) ==
  Min({k \in (p.start_char + 1)..i : \A j \in k..i : t[j] \in C})

\* str.split("\n\n"): newlines go in pairs, the first ones first.
ParagraphBreaks(t, p) ==
  {i \in Positions(p) :
     /\ t[i] = "\n"
     /\ \/ (i - RunStart(t, p, {"\n"}, i)) % 2 = 1
        \/ i + 1 \in Positions(p) /\ t[i + 1] = "\n"}

\* SENTENCE_PATTERN: a run of white space right after the end of a sentence.
SentenceBreaks(t, p) ==
  {i \in Positions(p) :
     /\ t[i] \in Spaces
     /\ LET k == RunStart(t, p, Spaces, i)
        IN  k - 1 \in Positions(p) /\ t[k - 1] = "."}

\* WORD_PATTERN: white space.
WordBreaks(t, p) == {i \in Positions(p) : t[i] \in Spaces}

\* _split_pattern_with_offsets: a piece of nothing but separators stays whole.
SplitPattern(p, separators) ==
  IF Between(p, separators) = {} THEN {p} ELSE Between(p, separators)

Short(p) == length(p) <= chunk_size

\* _split_recursively: a long piece at sentences, a long sentence at words.
SplitRecursively(t, p) ==
  IF Short(p) THEN {p}
  ELSE UNION {IF Short(s) THEN {s} ELSE SplitPattern(s, WordBreaks(t, s)) :
                s \in SplitPattern(p, SentenceBreaks(t, p))}

\* Steps 1 and 2 of chunk_text: the paragraphs, each split as needed.
PieceSet(t) ==
  LET whole == [start_char |-> 0, end_char |-> Len(t)]
  IN  UNION {SplitRecursively(t, p) : p \in Between(whole, ParagraphBreaks(t, whole))}

\* In the order of the text.
Pieces(t) ==
  LET S == PieceSet(t)
      D == 1..Cardinality(S)
  IN  CHOOSE s \in [D -> S] : \A i, j \in D : i < j => s[i].start_char < s[j].start_char

-----------------------------------------------------------------------------
(* The same pieces as the code computes them: contents are cut out of the  *)
(* content of a larger piece, and offsets are added up on the way.         *)

Slice(content, start, end) ==
  [content |-> content, start_char |-> start, end_char |-> end]

\* text.split("\n\n"): what is between the separators, from the left.
Parts(t) ==
  LET parts[i \in 1..(Len(t) + 1)] ==
        LET found == {k \in i..(Len(t) - 1) : t[k] = "\n" /\ t[k + 1] = "\n"}
        IN  IF found = {} THEN <<SubSeq(t, i, Len(t))>>
            ELSE <<SubSeq(t, i, Min(found) - 1)>> \o parts[Min(found) + 2]
  IN  parts[1]

\* _split_with_offsets: the cursor is moved past each part and its separator.
split_with_offsets(t) ==
  LET parts == Parts(t)
      cursor[k \in DOMAIN parts] ==
        IF k = 1 THEN 0 ELSE cursor[k - 1] + Len(parts[k - 1]) + 2
  IN  {Slice(parts[k], cursor[k], cursor[k] + Len(parts[k])) :
         k \in {j \in DOMAIN parts : parts[j] # << >>}}

\* finditer: the runs of white space of a content, as offsets in it, and those
\* that follow the end of a sentence.
WordMatches(c) ==
  {m \in [start : 0..Len(c), end : 0..Len(c)] :
     /\ m.start < m.end
     /\ \A i \in (m.start + 1)..m.end : c[i] \in Spaces
     /\ m.start = 0 \/ c[m.start] \notin Spaces
     /\ m.end = Len(c) \/ c[m.end + 1] \notin Spaces}

SentenceMatches(c) == {m \in WordMatches(c) : m.start > 0 /\ c[m.start] = "."}

\* Mutant of InDocument: the offset in the piece is taken for one in the text.
InPiece(p, i) == i

\* The offset in the text of offset i of a piece.
InDocument(p, i) == p.start_char + i

\* _split_pattern_with_offsets: a part goes from the last match to the next
\* one, or to the end.
split_pattern_with_offsets(p, matches) ==
  LET last_end(i) == Max({0} \cup {m.end : m \in {n \in matches : n.end <= i}})
      ends == {m.start : m \in matches} \cup {Len(p.content)}
      parts == {Slice(SubSeq(p.content, last_end(i) + 1, i),
                      InDocument(p, last_end(i)), InDocument(p, i)) :
                  i \in {j \in ends : last_end(j) < j}}
  IN  IF parts = {} THEN {p} ELSE parts

Fitting(p) == Len(p.content) <= chunk_size

\* _split_recursively, called for what does not fit.
split_recursively(p) ==
  LET sentences == split_pattern_with_offsets(p, SentenceMatches(p.content))
  IN  IF Cardinality(sentences) > 1 /\ \A s \in sentences : Fitting(s)
        THEN sentences
        ELSE UNION {IF Fitting(s) THEN {s}
                    ELSE split_pattern_with_offsets(s, WordMatches(s.content)) :
                      s \in sentences}

split_text(t) == UNION {IF Fitting(p) THEN {p} ELSE split_recursively(p) :
                          p \in split_with_offsets(t)}

-----------------------------------------------------------------------------
(* _merge_with_overlap.                                                    *)

\* The length of each piece and one for its joiner, in all.
Cost(b) ==
  LET sum[i \in 0..Len(b)] == IF i = 0 THEN 0 ELSE sum[i - 1] + length(b[i]) + 1
  IN  sum[Len(b)]

\* Mutant of build_overlap: the pieces are taken from the front.
OverlapFromFront(b) ==
  LET fits == {k \in 0..Len(b) : Cost(SubSeq(b, 1, k)) <= chunk_overlap}
  IN  SubSeq(b, 1, Max(fits))

\* Mutant of build_overlap: all of the buffer is carried over.
OverlapAll(b) == b

\* The trailing pieces of the buffer that fit into the overlap.
build_overlap(b) ==
  LET fits == {k \in 1..(Len(b) + 1) : Cost(SubSeq(b, k, Len(b))) <= chunk_overlap}
  IN  SubSeq(b, Min(fits), Len(b))

Init == /\ text \in Texts
        /\ pieces = << >>
        /\ buffer = << >>
        /\ buffer_length = 0
        /\ chunks = << >>
        /\ pc = "split"

\* Before the loop.
Split == /\ pc = "split"
         /\ pieces' = Pieces(text)
         /\ pc' = "merge"
         /\ UNCHANGED <<text, buffer, buffer_length, chunks>>

\* Mutant of Fits: an off-by-one.
FitsShort(p) == buffer_length + length(p) + 1 < chunk_size

Fits(p) == buffer_length + length(p) + 1 <= chunk_size

\* The piece goes into the buffer.
Add == /\ pc = "merge" /\ pieces # << >>
       /\ Fits(Head(pieces))
       /\ buffer' = Append(buffer, Head(pieces))
       /\ buffer_length' = buffer_length + length(Head(pieces)) + 1
       /\ pieces' = Tail(pieces)
       /\ UNCHANGED <<text, chunks, pc>>

\* Mutant of Flush: an empty buffer is flushed like any other.
FlushEmpty ==
  /\ pc = "merge" /\ pieces # << >>
  /\ ~Fits(Head(pieces))
  /\ chunks' = Append(chunks, buffer)
  /\ buffer' = Append(build_overlap(buffer), Head(pieces))
  /\ buffer_length' = Cost(buffer')
  /\ pieces' = Tail(pieces)
  /\ UNCHANGED <<text, pc>>

\* The buffer becomes a chunk, if there is one, and the piece goes into the
\* next one, after the overlap, whether it fits there or not.
Flush ==
  /\ pc = "merge" /\ pieces # << >>
  /\ ~Fits(Head(pieces))
  /\ chunks' = IF buffer = << >> THEN chunks ELSE Append(chunks, buffer)
  /\ buffer' = Append(build_overlap(buffer), Head(pieces))
  /\ buffer_length' = Cost(buffer')
  /\ pieces' = Tail(pieces)
  /\ UNCHANGED <<text, pc>>

\* Mutant of Finish: the last buffer is forgotten.
FinishShort ==
  /\ pc = "merge" /\ pieces = << >>
  /\ pc' = "done"
  /\ UNCHANGED <<text, pieces, buffer, buffer_length, chunks>>

\* After the loop: the last buffer.
Finish ==
  /\ pc = "merge" /\ pieces = << >>
  /\ chunks' = IF buffer = << >> THEN chunks ELSE Append(chunks, buffer)
  /\ pc' = "done"
  /\ UNCHANGED <<text, pieces, buffer, buffer_length>>

Next == Split \/ Add \/ Flush \/ Finish

Spec == Init /\ [][Next]_vars

-----------------------------------------------------------------------------
(* Properties.                                                             *)

Pieced(b) == b # << >> /\ \A p \in Range(b) : Piece(p)

\* The variables have their types; no chunk is empty (_buffer_to_chunk would
\* raise an IndexError).
TypeOK == /\ text \in Seq(Chars)
          /\ \A p \in Range(pieces) \cup Range(buffer) : Piece(p)
          /\ buffer_length = Cost(buffer)
          /\ \A c \in Range(chunks) : Pieced(c)
          /\ pc \in {"split", "merge", "done"}

\* The positions with a character that is not white space.
Ink(S) == {i \in S \cap (1..Len(text)) : text[i] \notin Spaces}

InkOf(c) == Ink(UNION {Positions(p) : p \in Range(c)})

Span(c) == (Head(c).start_char + 1)..Last(c).end_char

\* The offsets that are added up through the three splits point to the content
\* they came with, and the pieces are those that Pieces has: each stretch
\* between separators once, of the kind of separator that its size calls for.
OffsetsAddUp ==
  pc = "split" =>
    /\ \A p \in split_text(text) :
         p.content = SubSeq(text, p.start_char + 1, p.end_char)
    /\ PieceSet(text) = {[start_char |-> p.start_char, end_char |-> p.end_char] :
                           p \in split_text(text)}

\* Nothing is lost: every character that is not white space is in a chunk.
NothingLost ==
  pc = "done" => Ink(1..Len(text)) = UNION {InkOf(c) : c \in Range(chunks)}

\* start_char and end_char tell the truth: but for white space, a chunk has
\* the characters of the text between its offsets, each of them once.
OffsetsTrue ==
  \A c \in Range(chunks) :
    /\ InkOf(c) = Ink(Span(c))
    /\ \A i \in 1..(Len(c) - 1) : c[i].end_char <= c[i + 1].start_char

\* A chunk is at most the overlap longer than chunk_size, the slack of
\* tests/test_chunking.py:21, unless its last word alone is longer.
SizeBound ==
  \A c \in Range(chunks) :
    \/ Cost(c) - 1 <= chunk_size + chunk_overlap
    \/ /\ length(Last(c)) > chunk_size
       /\ Cost(Front(c)) <= chunk_overlap

\* The merge is greedy, and goes on: a chunk ends after the one before it,
\* does not start before it, and begins only because its first new piece did
\* not fit there.
Greedy ==
  \A i \in 1..(Len(chunks) - 1) :
    LET c == chunks[i]
        d == chunks[i + 1]
    IN  /\ Head(c).start_char <= Head(d).start_char
        /\ \E k \in 1..Len(d) :
             /\ \A j \in 1..Len(d) : d[j].start_char >= Last(c).end_char <=> j >= k
             /\ Cost(c) + length(d[k]) + 1 > chunk_size
=============================================================================
