---------------------------- MODULE MCChunking ----------------------------
(* Small documents for Chunking. *)
EXTENDS Chunking, TLC
CONSTANTS a, b, huge, noise
MCLengthOf == a :> 2 @@ b :> 4 @@ huge :> 19 @@ noise :> 3
Of(id, gap) == [id |-> id, gap |-> gap]
\* One blank, a line break, and a gap as wide as a word.
Blank == <<"blank">>
Line == <<"newline">>
Wide == <<"newline", "blank", "newline", "blank", "newline">>
Items == {Of(a, Blank), Of(b, Wide), Of(huge, Line), Of(noise, Blank)}
Short == {Of(w, gap) : w \in {a, b}, gap \in {Blank, Wide}}
Sentence1 == {<<w>> : w \in Items}
Sentence2 == Sentence1 \cup {<<v, w>> : v, w \in Items}
Sentence3 == {<<u, v, w>> : u \in {Of(a, Blank)}, v, w \in Short}
Paragraph1 == {<<s>> : s \in Sentence2 \cup Sentence3}
Paragraph2 == Paragraph1 \cup {<<s, t>> : s \in Sentence1, t \in Sentence2}
MCDocuments ==
    {<<p>> : p \in Paragraph2} \cup {<<p, q>> : p, q \in Paragraph2}
        \cup {<<p, q, r>> : p \in Paragraph1, q \in {<<s>> : s \in Sentence1}, r \in Paragraph1}
=============================================================================
