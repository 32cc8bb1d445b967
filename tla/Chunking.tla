----------------------------- MODULE Chunking -----------------------------
(***************************************************************************)
(* How a document becomes chunks (pdf/semantic_chunker.py) and how chunks    *)
(* are judged (pdf/chunk_validator.py): the loops of SemanticChunker, one    *)
(* action per turn, then ChunkValidator.filter_valid_chunks over the result. *)
(* The worker stores what the chunker returns; the validator is offered to   *)
(* callers and used by none.                                                 *)
(*                                                                           *)
(* A document is a sequence of paragraphs of sentences of words, which is    *)
(* what _clean_text leaves.  Paragraphs are an empty line apart.  The gap in *)
(* front of a word is a sequence of blanks and newlines: runs of blanks and  *)
(* tabs become one blank, but newlines stay.  A word is known by its place   *)
(* in the document; a piece of a word that was cut keeps the place and the   *)
(* letters from "from" on.  Lengths are counted in characters, gaps          *)
(* included.                                                                 *)
(***************************************************************************)
EXTENDS Integers, FiniteSets, SequencesExt

CONSTANTS
    Documents,    \* bound: the documents that occur
    LengthOf,     \* LengthOf[id]: letters of a word
    Junk,         \* words made of characters _has_meaningful_content rejects
    ChunkSize,    \* ChunkingConfig.chunk_size
    MinChunk,     \* ChunkingConfig.min_chunk_size
    MaxChunks,    \* ChunkingConfig.max_chunks_per_doc
    MinChars,     \* ChunkValidator: the smallest text it accepts
    MaxChars,     \* ChunkValidator: the largest text it accepts
    Similarity    \* duplicate_similarity_threshold, in percent

\* A word of a document, with the gap in front of it.
Item == [id : DOMAIN LengthOf, gap : Seq({"blank", "newline"}) \ {<<>>}]

\* __post_init__ asks for ChunkSize >= MinChunk; the defaults are 1024 and 50.
ASSUME ChunkingAssumption ==
    /\ LengthOf \in [DOMAIN LengthOf -> Nat \ {0}]
    /\ Documents \subseteq Seq(Seq(Seq(Item) \ {<<>>}) \ {<<>>})
    /\ MinChunk \in Nat
    /\ ChunkSize \in Nat \ {0} /\ ChunkSize >= MinChunk
    /\ MaxChunks \in Nat \ {0}
    /\ Similarity \in 0..100

VARIABLES
    doc,       \* the document
    todo,      \* paragraphs, as sequences of sentences, _split_semantic has not seen
    acc,       \* its current chunk, start position, and the chunks so far
    queue,     \* chunks _enforce_chunk_size has not seen
    result,    \* the chunks it keeps
    dropped,   \* letters of the chunks it drops
    stage,     \* "split", "sentences" (of the first paragraph to do), "enforce",
               \* "cut" (the first chunk of the queue), "validate" or "done"
    seen,      \* ChunkValidator.seen_chunks
    accepted   \* valid chunks so far

cvars == <<doc, todo, acc, queue, result, dropped, stage, seen, accepted>>

-----------------------------------------------------------------------------
(* Texts *)

\* The gap in front of word i: none at the beginning of a text (strip).
GapBefore(ws, i) == IF i = 1 THEN 0 ELSE Len(ws[i].gap)

\* Where every word ends: EndOf(ws)[i] characters are the first i words.
EndOf(ws) ==
    LET end[i \in 0..Len(ws)] == IF i = 0 THEN 0 ELSE end[i - 1] + GapBefore(ws, i) + ws[i].len
    IN  end

\* The characters in front of word i.
StartOf(ws, i) == EndOf(ws)[i - 1] + GapBefore(ws, i)

\* A sentence.
Words(ws) == [words |-> ws, len |-> EndOf(ws)[Len(ws)]]

Empty == [words |-> <<>>, len |-> 0]

Joined(s, gap, t) ==
    IF s = Empty THEN t ELSE [words |-> s.words \o t.words, len |-> s.len + gap + t.len]

\* The letters of a word, of a text, and of the chunks cs: each is known by the
\* place of its word in the document and its own place in the word.
LettersOf(w) == {<<w.at, w.from + i>> : i \in 1..w.len}

Letters(t) == UNION {LettersOf(w) : w \in ToSet(t.words)}

ChunkLetters(cs) == UNION {Letters(cs[i].text) : i \in DOMAIN cs}

\* The sentences of paragraph p of document d, as texts.
Sentences(d, p) ==
    [s \in DOMAIN d[p] |-> Words([w \in DOMAIN d[p][s] |->
        [id |-> d[p][s][w].id, gap |-> d[p][s][w].gap, at |-> <<p, s, w>>, from |-> 0,
         len |-> LengthOf[d[p][s][w].id], stop |-> w = Len(d[p][s])]])]

\* The first i of the sentences, with the gaps between them.
JoinUpto(ss) ==
    LET upto[i \in 0..Len(ss)] ==
            IF i = 0 THEN Empty ELSE Joined(upto[i - 1], Len(ss[i].words[1].gap), ss[i])
    IN  upto

Paragraph(ss) == JoinUpto(ss)[Len(ss)]

\* The letters of the document.
Contents(d) == UNION {UNION {Letters(Sentences(d, p)[s]) : s \in DOMAIN d[p]} : p \in DOMAIN d}

CInit ==
    /\ doc \in Documents
    /\ todo = [p \in DOMAIN doc |-> Sentences(doc, p)]
    /\ acc = [cur |-> Empty, start |-> 0, out |-> <<>>]
    /\ queue = <<>>
    /\ result = <<>>
    /\ dropped = {}
    /\ stage = "split"
    /\ seen = {}
    /\ accepted = <<>>

-----------------------------------------------------------------------------
(* _split_semantic *)

\* Close the current chunk, if there is one.
Emit(a) ==
    IF a.cur = Empty THEN a
    ELSE LET end == a.start + a.cur.len IN
         [cur |-> Empty, start |-> end,
          out |-> Append(a.out, [text |-> a.cur, start |-> a.start, end |-> end])]

WithParagraph == Joined(acc.cur, 2, Paragraph(Head(todo)))

FitParagraph ==
    /\ stage = "split" /\ todo # <<>>
    /\ WithParagraph.len <= ChunkSize
    /\ acc' = [acc EXCEPT !.cur = WithParagraph]
    /\ todo' = Tail(todo)
    /\ UNCHANGED <<doc, queue, result, dropped, stage, seen, accepted>>

BreakParagraph ==
    /\ stage = "split" /\ todo # <<>>
    /\ WithParagraph.len > ChunkSize
    /\ acc' = Emit(acc)
    /\ stage' = "sentences"
    /\ UNCHANGED <<doc, todo, queue, result, dropped, seen, accepted>>

\* The next sentence of the paragraph joins the current chunk, one blank behind
\* it whatever the gap was, or closes it and starts another.
AddSentence ==
    /\ stage = "sentences" /\ Head(todo) # <<>>
    /\ LET s == Head(Head(todo)) IN
        acc' = IF Joined(acc.cur, 1, s).len <= ChunkSize
               THEN [acc EXCEPT !.cur = Joined(acc.cur, 1, s)]
               ELSE [Emit(acc) EXCEPT !.cur = s]
    /\ todo' = [todo EXCEPT ![1] = Tail(@)]
    /\ UNCHANGED <<doc, queue, result, dropped, stage, seen, accepted>>

EndOfParagraph ==
    /\ stage = "sentences" /\ Head(todo) = <<>>
    /\ todo' = Tail(todo)
    /\ stage' = "split"
    /\ UNCHANGED <<doc, acc, queue, result, dropped, seen, accepted>>

EndOfText ==
    /\ stage = "split" /\ todo = <<>>
    /\ acc' = [cur |-> Empty, start |-> 0, out |-> <<>>]
    /\ queue' = Emit(acc).out
    /\ stage' = "enforce"
    /\ UNCHANGED <<doc, todo, result, dropped, seen, accepted>>

-----------------------------------------------------------------------------
(* _enforce_chunk_size *)

TooShort(c) == c.text.len < MinChunk

\* Bug: one character more.
BugFits(b, c) == b.text.len + c.text.len <= ChunkSize

\* The two characters between them are not counted.
Fits(b, c) == b.text.len + c.text.len < ChunkSize

Mergeable(c) == result # <<>> /\ Fits(Last(result), c)

Merge ==
    /\ stage = "enforce" /\ queue # <<>>
    /\ LET c == Head(queue) IN
        /\ TooShort(c)
        /\ Mergeable(c)
        /\ result' = [result EXCEPT ![Len(result)].text = Joined(@, 2, c.text),
                                    ![Len(result)].end = c.end]
    /\ queue' = Tail(queue)
    /\ UNCHANGED <<doc, todo, acc, dropped, stage, seen, accepted>>

Drop ==
    /\ stage = "enforce" /\ queue # <<>>
    /\ LET c == Head(queue) IN
        /\ TooShort(c)
        /\ ~Mergeable(c)
        /\ dropped' = dropped \cup Letters(c.text)
    /\ queue' = Tail(queue)
    /\ UNCHANGED <<doc, todo, acc, result, stage, seen, accepted>>

Keep ==
    /\ stage = "enforce" /\ queue # <<>>
    /\ ~TooShort(Head(queue))
    /\ Head(queue).text.len <= ChunkSize
    /\ result' = Append(result, Head(queue))
    /\ queue' = Tail(queue)
    /\ UNCHANGED <<doc, todo, acc, dropped, stage, seen, accepted>>

\* The first word of ws that ends after n characters.
WordAt(ws, n) == Min({i \in DOMAIN ws : EndOf(ws)[i] > n})

\* text[:n].strip(): the word that ends behind n is left out, or cut.
Before(ws, n) ==
    LET k == WordAt(ws, n)
        some == n - StartOf(ws, k)
    IN  IF some <= 0 THEN SubSeq(ws, 1, k - 1)
        ELSE [SubSeq(ws, 1, k) EXCEPT ![k] = [ws[k] EXCEPT !.len = some, !.stop = FALSE]]

\* text[n:].strip(): the first word may be cut.
After(ws, n) ==
    LET k == WordAt(ws, n)
        gone == n - StartOf(ws, k)
    IN  [SubSeq(ws, k, Len(ws)) EXCEPT ![1] =
            IF gone <= 0 THEN ws[k]
            ELSE [ws[k] EXCEPT !.from = @ + gone, !.len = @ - gone]]

\* The places of the blanks that rfind(" ", 0, chunk_size) looks at; newlines are
\* none.
Blanks(ws) ==
    {n \in 0..(ChunkSize - 1) : \E i \in 2..Len(ws) : \E j \in DOMAIN ws[i].gap :
        ws[i].gap[j] = "blank" /\ n = EndOf(ws)[i - 1] + j - 1}

\* The last blank in the last 30% of the chunk, or a cut within a word.
SplitPoint(ws) ==
    LET late == {n \in Blanks(ws) : 10 * n > 7 * ChunkSize} IN
    IF late = {} THEN ChunkSize ELSE CHOOSE n \in late : \A m \in late : m <= n

\* Bug: the letters of a word behind the cut are lost.
BugRest(ws, n) == SubSeq(ws, WordAt(ws, n) + 1, Len(ws))

Rest(ws, n) == After(ws, n)

\* _split_large_chunk begins.  Only a sentence can be too large.
SplitLarge ==
    /\ stage = "enforce" /\ queue # <<>>
    /\ Head(queue).text.len > ChunkSize
    /\ stage' = "cut"
    /\ UNCHANGED <<doc, todo, acc, queue, result, dropped, seen, accepted>>

\* A piece is cut off, and the loop goes on with what is left.
Cut ==
    /\ stage = "cut" /\ Head(queue).text.len > ChunkSize
    /\ LET c == Head(queue)
           n == SplitPoint(c.text.words)
           t == Words(Before(c.text.words, n))
       IN  /\ result' = Append(result, [text |-> t, start |-> c.start, end |-> c.start + t.len])
           /\ queue' = [queue EXCEPT ![1] = [text |-> Words(Rest(c.text.words, n)),
                                             start |-> c.start + t.len + 1, end |-> c.end]]
    /\ UNCHANGED <<doc, todo, acc, dropped, stage, seen, accepted>>

\* What is left fits; it is not empty.
LastPiece ==
    /\ stage = "cut" /\ Head(queue).text.len <= ChunkSize
    /\ result' = Append(result, Head(queue))
    /\ queue' = Tail(queue)
    /\ stage' = "enforce"
    /\ UNCHANGED <<doc, todo, acc, dropped, seen, accepted>>

\* The end of chunk: a document has at most max_chunks_per_doc chunks.
Finish ==
    /\ stage = "enforce" /\ queue = <<>>
    /\ queue' = SubSeq(result, 1, IF Len(result) <= MaxChunks THEN Len(result) ELSE MaxChunks)
    /\ stage' = "validate"
    /\ UNCHANGED <<doc, todo, acc, result, dropped, seen, accepted>>

-----------------------------------------------------------------------------
(* ChunkValidator *)

\* Letters of the words ws.
Sum(ws) == FoldLeft(LAMBDA n, w : n + w.len, 0, ws)

SizeOK(t) == t.len \in MinChars..MaxChars

\* _has_meaningful_content: at least half of the characters.
Meaningful(t) == 2 * Sum(SelectSeq(t.words, LAMBDA w : w.id \in Junk)) <= t.len

\* _is_likely_truncated: no terminal mark at the end.
Truncated(t) == ~Last(t.words).stop

\* The words of a text as str.split sees them.
Vocabulary(t) == {<<w.id, w.from, w.len>> : w \in ToSet(t.words)}

\* Bug: near duplicates are not compared.
BugSimilar(v, u) == v = u

\* Equal, or more similar than the threshold (_jaccard_similarity).
Similar(v, u) == 100 * Cardinality(v \cap u) > Similarity * Cardinality(v \cup u)

NearDuplicates(s, t) ==
    100 * Cardinality(Vocabulary(s) \cap Vocabulary(t))
        > Similarity * Cardinality(Vocabulary(s) \cup Vocabulary(t))

Duplicate(t) == \E v \in seen : Similar(Vocabulary(t), v)

\* validate: a text that is no duplicate is remembered, whatever else is wrong
\* with it.
Validate ==
    /\ stage = "validate" /\ queue # <<>>
    /\ LET t == Head(queue).text IN
        /\ seen' = IF Duplicate(t) THEN seen ELSE seen \cup {Vocabulary(t)}
        /\ accepted' = IF SizeOK(t) /\ Meaningful(t) /\ ~Truncated(t) /\ ~Duplicate(t)
                       THEN Append(accepted, t) ELSE accepted
    /\ queue' = Tail(queue)
    /\ UNCHANGED <<doc, todo, acc, result, dropped, stage>>

\* reset_duplicates, before the next document.
Reset ==
    /\ stage = "validate" /\ queue = <<>>
    /\ seen' = {}
    /\ stage' = "done"
    /\ UNCHANGED <<doc, todo, acc, queue, result, dropped, accepted>>

CNext ==
    \/ FitParagraph \/ BreakParagraph \/ AddSentence \/ EndOfParagraph \/ EndOfText
    \/ Merge \/ Drop \/ Keep \/ SplitLarge \/ Cut \/ LastPiece \/ Finish
    \/ Validate \/ Reset

CSpec == CInit /\ [][CNext]_cvars

-----------------------------------------------------------------------------
(* Properties *)

Chunks == {result[i] : i \in DOMAIN result}

\* No chunk is larger than the limit by more than the character that the merge
\* of a short chunk forgets, wherever sentences and words had to be cut.
SizeBound == \A c \in Chunks : c.text.len <= ChunkSize + 1

\* One letter comes before another in the document, and all of some before all
\* of others.
Earlier(l, m) ==
    LET v == l[1]
        w == m[1]
    IN  \/ v[1] < w[1]
        \/ v[1] = w[1] /\ v[2] < w[2]
        \/ v[1] = w[1] /\ v[2] = w[2] /\ v[3] < w[3]
        \/ v = w /\ l[2] < m[2]

Precede(ls, ms) == \A l \in ls, m \in ms : Earlier(l, m)

\* The words ws, and the words of the chunks cs, are in the document's order.
InOrder(ws) == \A i, j \in DOMAIN ws : i < j => Precede(LettersOf(ws[i]), LettersOf(ws[j]))

Ordered(cs) ==
    /\ \A i \in DOMAIN cs : InOrder(cs[i].text.words)
    /\ \A i, j \in DOMAIN cs : i < j => Precede(Letters(cs[i].text), Letters(cs[j].text))

\* The chunks, of which chunk() returns the first MaxChunks, hold the letters of
\* the document in their order, each once, except those of chunks that were too
\* short and fitted nowhere.
KeptUnlessShort ==
    stage = "validate" => Ordered(result) /\ ChunkLetters(result) = Contents(doc) \ dropped

\* No two accepted chunks are near duplicates of each other.
AcceptedDistinct ==
    \A i, j \in DOMAIN accepted : i # j => ~NearDuplicates(accepted[i], accepted[j])
=============================================================================
