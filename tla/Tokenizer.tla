------------------------------ MODULE Tokenizer ------------------------------
(***************************************************************************)
(* ocr_tokenizer_t (src/app/ai/tokenizer.c): a text is cut into pieces of  *)
(* a vocabulary, longest piece first, into an array of limited room, and   *)
(* the pieces are joined to a text again.  Characters are whole code       *)
(* points; a piece is its characters and whether it carries the marker of  *)
(* its kind: "##" before a piece that continues a word (wordpiece), or the *)
(* word-start sign before a piece that begins one (bpe).                   *)
(***************************************************************************)
EXTENDS Integers, Sequences, SequencesExt

CONSTANTS
    Letters,      \* characters that form words
    Alone,        \* CJK characters and ASCII punctuation: words of their own
    Gap,          \* any Unicode space
    Pieces,       \* the vocabulary without its special tokens
    Texts,        \* the texts, as characters
    Bytes,        \* bytes of a character; of a gap, those decode writes
    MaxTokens     \* bound: max_ids and tok->max_len, whichever is smaller

Chars == Letters \cup Alone \cup {Gap}
Bos == [special |-> "bos"]
Eos == [special |-> "eos"]
Unk == [special |-> "unk"]
UnkText == "[UNK]"
EndWord == <<"<", "/", "w", ">">>   \* ends a piece that ends a word

ASSUME TokAssumption ==
  /\ Letters \cap Alone = {} /\ Gap \notin Letters \cup Alone
  /\ Pieces \subseteq [mark : BOOLEAN, text : Seq(Chars)]
  /\ \A p \in Pieces : p.text # <<>>    \* an empty piece matches nothing
  /\ Texts \subseteq Seq(Chars)
  /\ \A i \in 1..4 : EndWord[i] \in Chars
  /\ Bytes \in [Chars \cup {UnkText} -> Nat \ {0}]
  /\ MaxTokens \in Nat

VARIABLES kind, hasBos, hasEos, tokRoom, text,  \* the call and the vocabulary
          pos, tokIds, wordStart, span, tokPc,
          cover     \* history: the part of the text each piece or UNK is for
request == <<kind, hasBos, hasEos, tokRoom, text>>
tokVars == <<request, pos, tokIds, wordStart, span, tokPc, cover>>

(* A vocabulary needs UNK; BOS and EOS may be missing.                     *)
TokInit ==
  /\ kind \in {"wordpiece", "bpe"}
  /\ hasBos \in BOOLEAN /\ hasEos \in BOOLEAN
  /\ tokRoom \in 1..MaxTokens
  /\ text \in Texts
  /\ pos = 1 /\ wordStart = TRUE
  /\ tokIds = IF hasBos THEN <<Bos>> ELSE <<>>
  /\ span = [from |-> 0, to |-> 0, ids |-> 0]
  /\ cover = <<>> /\ tokPc = "words"

One(b) == IF b THEN 1 ELSE 0

\* Mutant: no entry is kept for EOS.
BugPayload == tokRoom
\* payload_capacity: BOS is in the array already; one entry is kept for EOS.
Payload == IF tokRoom - One(hasEos) < One(hasBos) THEN One(hasBos)
           ELSE tokRoom - One(hasEos)
Full == Len(tokIds) >= Payload

AtText == tokPc = "words" /\ pos <= Len(text) /\ ~Full

SkipGap ==
  /\ AtText /\ text[pos] = Gap
  /\ pos' = pos + 1 /\ wordStart' = TRUE
  /\ UNCHANGED <<request, tokIds, span, tokPc, cover>>

Matches(p, from, last) ==
  /\ from + Len(p.text) - 1 <= last
  /\ SubSeq(text, from, from + Len(p.text) - 1) = p.text

\* The piece the scan of the vocabulary ends with: the longest, and of two
\* equally long the marked one.
Better(p, q) == \/ Len(p.text) > Len(q.text)
                \/ Len(p.text) = Len(q.text) /\ (q.mark => p.mark)
Longest(S) == CHOOSE p \in S : \A q \in S : Better(p, q)

\* append_id, and what it stands for.
Put(id, n) ==
  /\ tokIds' = Append(tokIds, id)
  /\ cover' = Append(cover, [from |-> pos, to |-> pos + n - 1])
  /\ pos' = pos + n

---------------------------------------------------------------------------
\* Wordpiece: words first, then pieces within the word.
SpanEnd(i) ==
  IF text[i] \in Alone THEN i
  ELSE CHOOSE j \in i..Len(text) :
         /\ \A k \in i..j : text[k] \in Letters
         /\ j < Len(text) => text[j + 1] \notin Letters

OpenSpan ==
  /\ kind = "wordpiece" /\ AtText /\ text[pos] # Gap
  /\ span' = [from |-> pos, to |-> SpanEnd(pos), ids |-> Len(tokIds)]
  /\ tokPc' = "span"
  /\ UNCHANGED <<request, pos, tokIds, wordStart, cover>>

\* A piece with "##" only continues a word, one without only begins one.
InSpan ==
  {p \in Pieces : p.mark = (pos # span.from) /\ Matches(p, pos, span.to)}

TakeInSpan ==
  /\ tokPc = "span" /\ InSpan # {}
  /\ IF Full
     THEN tokPc' = "ended" /\ UNCHANGED <<pos, tokIds, cover>>
     ELSE /\ Put(Longest(InSpan), Len(Longest(InSpan).text))
          /\ tokPc' = IF pos' > span.to THEN "words" ELSE "span"
  /\ UNCHANGED <<request, wordStart, span>>

GivenUp == Append(SubSeq(tokIds, 1, span.ids), Unk)

GiveUpSpan ==
  /\ tokPc = "span" /\ InSpan = {}
  /\ tokIds' = GivenUp
  /\ cover' = Append(SubSeq(cover, 1, span.ids - One(hasBos)),
                     [from |-> span.from, to |-> span.to])
  /\ pos' = span.to + 1 /\ tokPc' = "words"
  /\ UNCHANGED <<request, wordStart, span>>

---------------------------------------------------------------------------
\* BPE: greedy from left to right; a marked piece only where a word begins.
Here == {p \in Pieces : (p.mark => wordStart) /\ Matches(p, pos, Len(text))}

TakeHere ==
  /\ kind = "bpe" /\ AtText /\ text[pos] # Gap
  /\ IF Here = {} THEN Put(Unk, 1)
     ELSE Put(Longest(Here), Len(Longest(Here).text))
  /\ wordStart' = FALSE
  /\ UNCHANGED <<request, span, tokPc>>

EndTokens ==
  /\ \/ tokPc = "ended"
     \/ tokPc = "words" /\ (pos > Len(text) \/ Full)
  /\ tokIds' = IF hasEos /\ Len(tokIds) < tokRoom THEN Append(tokIds, Eos)
               ELSE tokIds
  /\ tokPc' = "done"
  /\ UNCHANGED <<request, pos, wordStart, span, cover>>

TokNext == SkipGap \/ OpenSpan \/ TakeInSpan \/ GiveUpSpan \/ TakeHere
           \/ EndTokens
TokSpec == TokInit /\ [][TokNext]_tokVars

---------------------------------------------------------------------------
\* The array behind BOS, and where the text of an entry of it ends.
Entry(k) == tokIds[One(hasBos) + k]
EndOf(k) == IF k = 0 THEN 0 ELSE cover[k].to
OnlyGaps(i, j) == \A k \in i..j : text[k] = Gap
InWord(i) == i \in 2..Len(text) /\ {text[i - 1], text[i]} \subseteq Letters

\* An entry stands for the next part of the text after e, gaps aside.
\* Wordpiece: a piece lies within a word and is marked where it continues one,
\* UNK stands for a whole word which is no piece.  BPE: a marked piece follows
\* a gap, UNK stands for one character at which no piece fits.
StandsFor(id, c, e) ==
  LET follows == c.from > 1 /\ c.from = e + 1
      within == \A i \in (c.from + 1)..c.to : InWord(i)
      letters == SubSeq(text, c.from, c.to)
  IN  /\ e < c.from /\ c.from <= c.to /\ c.to <= Len(text)
      /\ OnlyGaps(e + 1, c.from - 1) /\ text[c.from] # Gap
      /\ \/ /\ id \in Pieces /\ id.text = letters
            /\ kind = "bpe" => (id.mark => ~follows)
            /\ kind = "wordpiece" => within /\ id.mark = InWord(c.from)
         \/ /\ id = Unk
            /\ kind = "bpe" =>
                 /\ c.from = c.to
                 /\ \A p \in Pieces :
                      Matches(p, c.from, Len(text)) => p.mark /\ follows
            /\ kind = "wordpiece" =>
                 /\ within /\ ~InWord(c.from) /\ ~InWord(c.to + 1)
                 /\ [mark |-> FALSE, text |-> letters] \notin Pieces

\* When tokenizer_encode returns, the array holds BOS, the text or as much of
\* it as there is room for, and EOS whenever an entry could be kept for it.
TokensKept ==
  tokPc = "done" =>
    LET n == Len(cover)
        ended == hasEos /\ tokRoom > One(hasBos)
    IN  /\ Len(tokIds) = One(hasBos) + n + One(ended)
        /\ Len(tokIds) <= tokRoom
        /\ hasBos => tokIds[1] = Bos
        /\ ended => Last(tokIds) = Eos
        /\ \A k \in 1..n : StandsFor(Entry(k), cover[k], EndOf(k - 1))
        /\ One(hasBos) + n < Payload => OnlyGaps(EndOf(n) + 1, Len(text))

---------------------------------------------------------------------------
\* tokenizer_decode into an array of so many bytes: UNK is written out, words
\* are set apart again, EOS ends the text, and an id of no entry and a text
\* that has no room end the call.
BytesIn(t) == FoldLeft(LAMBDA n, c : n + Bytes[c], 0, t)
\* append_text: what does not fit before the final zero is refused whole.
AppendText(d, t, size) ==
  IF d.rc # "OK" THEN d
  ELSE IF BytesIn(d.text) + BytesIn(t) >= size
       THEN [d EXCEPT !.rc = "ENOSPC"]
  ELSE [d EXCEPT !.text = @ \o t]

Shown(id) == IF id = Unk THEN <<UnkText>> ELSE id.text
IsAlone(id) == Len(Shown(id)) = 1 /\ Shown(id)[1] \in Alone
HasMark(id) == id # Unk /\ id.mark
SetApart(id) == IF kind = "bpe" THEN HasMark(id)
                                ELSE ~HasMark(id) /\ ~IsAlone(id)
EndsWord(t) == IsSuffix(EndWord, t)
Stem(t) == IF EndsWord(t) THEN SubSeq(t, 1, Len(t) - Len(EndWord)) ELSE t
GapIf(b) == IF b THEN <<Gap>> ELSE <<>>

\* The next id: before it a gap where its word begins, behind it one where its
\* word ends, unless it is the last of the array.
ReadOn(d, id, last, size) ==
  IF d.rc # "OK" \/ id = Bos THEN d
  ELSE IF id = Eos THEN [d EXCEPT !.rc = "EOS"]
  ELSE IF id \notin Pieces \cup {Unk} THEN [d EXCEPT !.rc = "ERANGE"]
  ELSE LET apart == AppendText(d, GapIf(SetApart(id) /\ d.text # <<>>), size)
           named == AppendText(apart, Stem(Shown(id)), size)
       IN  AppendText(named, GapIf(EndsWord(Shown(id)) /\ ~last), size)
ReadBack(s, size) ==
  FoldLeftDomain(LAMBDA d, i : ReadOn(d, s[i], i = Len(s), size),
                 [text |-> <<>>, rc |-> "OK"], s)

\* The words of a text: its characters without the gaps, cut where no word
\* goes on.
Solid(t) == SelectSeq(t, LAMBDA c : c # Gap)
IsWord(t, i, j) ==
  \/ i = j /\ t[i] \in Alone
  \/ /\ \A k \in i..j : t[k] \in Letters
     /\ i > 1 => t[i - 1] \notin Letters
     /\ j < Len(t) => t[j + 1] \notin Letters
WordsOf(t) ==
  LET spans == {w \in (1..Len(t)) \X (1..Len(t)) :
                  w[1] <= w[2] /\ IsWord(t, w[1], w[2])}
      inOrder == SetToSortSeq(spans, LAMBDA v, w : v[1] < w[1])
  IN  [i \in 1..Len(inOrder) |-> SubSeq(t, inOrder[i][1], inOrder[i][2])]

\* What the entries behind BOS stand for, less the </w> that ends a piece.
Meant ==
  FlattenSeq([k \in 1..Len(cover) |->
                Stem(SubSeq(text, cover[k].from, cover[k].to))])

\* A text without UNK that fits its tokens is read back with the same words
\* (wordpiece), or with the same characters but for the </w> that ends a piece
\* (bpe); any tokens are read back whole if the bytes suffice, and as a
\* beginning of that, with an error, if they do not; and an id of no entry of
\* the vocabulary is refused, unless EOS comes before it.
Stranger == [special |-> "none"]
TextReadBack ==
  tokPc = "done" =>
    LET most == BytesIn(text) + 1
                  + Len(tokIds) * (Bytes[UnkText] + 2 * Bytes[Gap])
        read == ReadBack(tokIds, most)
    IN  /\ read.rc = IF Contains(tokIds, Eos) THEN "EOS" ELSE "OK"
        /\ (/\ ~Contains(tokIds, Unk)
            /\ One(hasBos) + Len(cover) < Payload) =>
             IF kind = "wordpiece" THEN WordsOf(read.text) = WordsOf(text)
                                   ELSE Solid(read.text) = Solid(Meant)
        /\ \A size \in 1..(BytesIn(read.text) + 1) :
             LET cut == ReadBack(tokIds, size)
             IN  IF size > BytesIn(read.text) THEN cut = read
                 ELSE cut.rc = "ENOSPC" /\ IsPrefix(cut.text, read.text)
        /\ ReadBack(Append(tokIds, Stranger), most).rc
             = IF Contains(tokIds, Eos) THEN "EOS" ELSE "ERANGE"
=============================================================================
