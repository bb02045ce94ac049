------------------------------ MODULE Splitter ------------------------------
(***************************************************************************)
(* How a document becomes the chunks KnowledgeIndex stores: its text is    *)
(* cut level by level, into the sections under headings 1 to 6 (a heading  *)
(* inside a fenced block does not count), paragraphs, lines, sentences and *)
(* words, and what is still too long by length; parts that fit together    *)
(* share a chunk.  A text is a sequence of characters, each of them named  *)
(* by a string.                                                            *)
(***************************************************************************)
EXTENDS Integers, Sequences, FiniteSets, SequencesExt

CONSTANTS
    Document,    \* texts to be cut
    ChunkSize    \* characters per piece; one that is not positive means 1000

NL == "\n"
CR == "\r"
TAB == "\t"
Blank == {" ", NL, CR, TAB}

(* The positions of K in order, and the characters of s there.             *)
Ascending(K) ==
    [n \in 1 .. Cardinality(K) |-> CHOOSE k \in K : Cardinality({j \in K : j <= k}) = n]

At(s, K) == [n \in DOMAIN Ascending(K) |-> s[Ascending(K)[n]]]

TrimSpace(s) ==
    LET K == {k \in DOMAIN s : s[k] \notin Blank}
    IN  IF K = {} THEN << >> ELSE SubSeq(s, Min(K), Max(K))

(* s cut into pieces that begin at the positions given, and at its first.  *)
CutBefore(s, starts) ==
    LET order == Ascending({1} \cup starts)
    IN  [k \in DOMAIN order |->
            SubSeq(s, order[k], IF k = Len(order) THEN Len(s) ELSE order[k + 1] - 1)]

(* strings.SplitAfter and the loop over runes, without a last empty part.  *)
CutAfter(s, ends) == CutBefore(s, {k + 1 : k \in ends \ {Len(s)}})

Lines(s) == CutAfter(s, {k \in DOMAIN s : s[k] = NL})

-----------------------------------------------------------------------------
(* splitSections.                                                          *)

(* How many characters c the line begins with.                             *)
Run(line, c) == Min({k \in 1 .. Len(line) + 1 : k > Len(line) \/ line[k] # c}) - 1

Unindented(line) == SubSeq(line, Run(line, " ") + 1, Len(line))

Opens(t) == {[char |-> c, len |-> Run(t, c)] : c \in {d \in {"tick", "~"} : Run(t, d) >= 3}}

Closes(t, fence) ==
    /\ Run(t, fence.char) >= fence.len
    /\ Run(t, fence.char) = Len(TrimSpace(t))

IsHeading(t, level) ==
    \/ Run(t, "#") = level /\ Len(t) > level /\ t[level + 1] \in {" ", TAB}
    \/ TrimSpace(t) = [k \in 1 .. level |-> "#"]

NoFence == [char |-> "", len |-> 0]

(* One line: inside a fence, the end of it; outside, a fence or a heading. *)
ReadLine(acc, line, level) ==
    LET t == Unindented(line)
        a == [acc EXCEPT !.offset = @ + Len(line)]
    IN  IF Len(line) - Len(t) > 3 THEN a
        ELSE IF acc.fence # NoFence
             THEN IF Closes(t, acc.fence) THEN [a EXCEPT !.fence = NoFence] ELSE a
        ELSE IF Opens(t) # {} THEN [a EXCEPT !.fence = CHOOSE f \in Opens(t) : TRUE]
        ELSE IF IsHeading(t, level) THEN [a EXCEPT !.starts = @ \cup {acc.offset + 1}]
        ELSE a

splitSections(s, level) ==
    LET end == FoldLeft(LAMBDA acc, line : ReadLine(acc, line, level),
                        [starts |-> {}, offset |-> 0, fence |-> NoFence], Lines(s))
    IN  CutBefore(s, end.starts)

-----------------------------------------------------------------------------
(* Splitter.split.                                                         *)

(* The newlines that end at k, a run of them being cut two by two.         *)
Newlines(s, k) == k - Max({j \in 0 .. k : j = 0 \/ s[j] # NL})

ParagraphEnd(s, k) == s[k] = NL /\ Newlines(s, k) % 2 = 0
SentenceEnd(s, k) ==
    \/ s[k] = "ideographic stop"
    \/ s[k] \in {".", "!", "?"} /\ (k = Len(s) \/ s[k + 1] \in Blank)

Parts(s, level) ==
    CASE level <= 6 -> splitSections(s, level)
      [] level = 7  -> CutAfter(s, {k \in DOMAIN s : ParagraphEnd(s, k)})
      [] level = 8  -> Lines(s)
      [] level = 9  -> CutAfter(s, {k \in DOMAIN s : SentenceEnd(s, k)})
      [] OTHER      -> CutAfter(s, {k \in DOMAIN s : s[k] \in Blank})

Proper(pieces) == SelectSeq(pieces, LAMBDA piece : piece # << >>)

hardSplit(s, size) ==
    LET n == (Len(s) + size - 1) \div size
    IN  Proper([k \in 1 .. n |->
            TrimSpace(SubSeq(s, (k - 1) * size + 1, Min({k * size, Len(s)})))])

(* Chunks already cut, and the parts collected for the next one.           *)
Flush(acc) ==
    IF acc.buf = << >> THEN acc
    ELSE [chunks |-> Append(acc.chunks, TrimSpace(acc.buf)), buf |-> << >>]

RECURSIVE split(_, _, _)

(* Mutant: a part that is cut further overtakes the parts collected.       *)
TakePartEarly(acc, part, size, level) ==
    IF TrimSpace(part) = << >> THEN acc
    ELSE IF Len(part) > size
         THEN [acc EXCEPT !.chunks = @ \o split(TrimSpace(part), size, level + 1)]
    ELSE LET a == IF Len(acc.buf) + Len(part) > size THEN Flush(acc) ELSE acc
         IN  [a EXCEPT !.buf = @ \o part]

TakePart(acc, part, size, level) ==
    IF TrimSpace(part) = << >> THEN acc
    ELSE IF Len(part) > size
         THEN [Flush(acc) EXCEPT !.chunks = @ \o split(TrimSpace(part), size, level + 1)]
    ELSE LET a == IF Len(acc.buf) + Len(part) > size THEN Flush(acc) ELSE acc
         IN  [a EXCEPT !.buf = @ \o part]

split(s, size, level) ==
    IF Len(s) <= size THEN <<s>>
    ELSE IF level > 10 THEN hardSplit(s, size)
    ELSE Flush(FoldLeft(LAMBDA acc, part : TakePart(acc, part, size, level),
                        [chunks |-> << >>, buf |-> << >>], Parts(s, level))).chunks

(* New *)
Effective(size) == IF size <= 0 THEN 1000 ELSE size

Cleaned(text) ==
    LET CRLF(k) == text[k] = CR /\ k < Len(text) /\ text[k + 1] = NL
    IN  TrimSpace(At(text, {k \in DOMAIN text : ~CRLF(k)}))

Split(text, size) ==
    IF Cleaned(text) = << >> THEN << >> ELSE split(Cleaned(text), Effective(size), 1)

-----------------------------------------------------------------------------
(* What a reader finds in a text: its characters without the blanks, and   *)
(* its words, an ideographic stop ending one too.                          *)
Ink(s) == SelectSeq(s, LAMBDA c : c \notin Blank)

Words(s) ==
    LET cut == CutAfter(s, {k \in DOMAIN s : s[k] \in Blank \cup {"ideographic stop"}})
    IN  Proper([k \in DOMAIN cut |-> TrimSpace(cut[k])])

AllWords(pieces) == FlattenSeq([k \in DOMAIN pieces |-> Words(pieces[k])])

Within(part, piece) ==
    \E k \in DOMAIN piece : part = SubSeq(piece, k, Min({k + Len(part) - 1, Len(piece)}))

(* The pieces are the text: none is blank or too long, nothing but blanks  *)
(* is lost and the order kept, no word that fits is cut or joined, and a   *)
(* first-level section that fits stays in one piece.                       *)
SoundSplit(s, size) ==
    LET pieces == Split(s, size)
        sections == splitSections(Cleaned(s), 1)
        Fits(part) == Len(part) <= Effective(size)
    IN
    /\ \A k \in DOMAIN pieces : Fits(pieces[k]) /\ TrimSpace(pieces[k]) # << >>
    /\ Ink(FlattenSeq(pieces)) = Ink(s)
    /\ (\A k \in DOMAIN Words(s) : Fits(Words(s)[k])) => AllWords(pieces) = Words(s)
    /\ \A part \in {sections[k] : k \in DOMAIN sections} :
          Fits(part) /\ part # << >> =>
              \E k \in DOMAIN pieces : Within(TrimSpace(part), pieces[k])

SplitsSound == \A s \in Document, size \in ChunkSize : SoundSplit(s, size)
=============================================================================
