------------------------------ MODULE CtcDecode ------------------------------
(***************************************************************************)
(* The end of text recognition (src/app/ai/ocr_rec.c): how the classes of  *)
(* the model are matched to the dictionary file, and how the best class of *)
(* each time step becomes text.  The model was trained on an alphabet with *)
(* one blank; the program has only its size and the file.                  *)
(***************************************************************************)
EXTENDS Integers, Sequences, FiniteSets, SequencesExt

CONSTANTS Glyphs,     \* characters of a dictionary
          Blank,      \* the token of the CTC blank, by any of its names
          Space,      \* the token " "
          MaxFile,    \* bound: lines of the dictionary
          MaxSteps,   \* bound: time steps
          MaxRoom     \* bound: tokens the caller's buffer has room for

ASSUME CtcAssumption ==
  /\ Blank # Space
  /\ MaxFile \in Nat /\ MaxSteps \in Nat /\ MaxRoom \in Nat

VARIABLES file,      \* the dictionary file
          alphabet,  \* what each class of the model means
          labels,    \* best class of each time step; -1: no finite score
          room, vocab, blank, offset, step, previous, ctcText, ctcPc
input == <<file, alphabet, labels, room>>
ctcVars == <<input, vocab, blank, offset, step, previous, ctcText, ctcPc>>

\* Dictionaries without repeated lines, and the alphabets a model may have
\* been trained with: the file itself, or the file behind a blank, with or
\* without a space that the file leaves out.
Files == {f \in SeqOf(Glyphs \cup {Blank, Space}, MaxFile) :
            f # <<>> /\ IsInjective(f)}
Alphabets(f) ==
  IF Contains(f, Blank) THEN {f}
  ELSE {<<Blank>> \o f}
         \cup (IF Contains(f, Space) THEN {} ELSE {<<Blank>> \o f \o <<Space>>})
\* Models whose number of classes fits no such form.
Strangers(f) ==
  {f \o <<"x", "y", "z">>, IF Contains(f, Blank) THEN Append(f, "x") ELSE f}

CtcInit ==
  /\ file \in Files
  /\ alphabet \in Alphabets(file) \cup Strangers(file)
  /\ labels \in SeqOf(-1..(Len(alphabet) - 1), MaxSteps)
  /\ room \in 0..MaxRoom
  /\ vocab = file /\ blank = -1 /\ offset = 0
  /\ step = 1 /\ previous = -1 /\ ctcText = <<>> /\ ctcPc = "contract"

Classes == Len(alphabet)

\* configure_ctc_contract: a dictionary that lacks space and blank gets the
\* space, at its end.
VocabFor ==
  IF /\ Classes = Len(file) + 2
     /\ ~Contains(file, Blank) /\ ~Contains(file, Space)
  THEN Append(file, Space) ELSE file

Configure ==
  /\ ctcPc = "contract"
  /\ vocab' = VocabFor
  /\ CASE Classes = Len(vocab') + 1 /\ ~Contains(file, Blank) ->
            blank' = 0 /\ offset' = -1 /\ ctcPc' = "decode"
       [] Classes = Len(vocab') /\ Contains(file, Blank) ->
            /\ blank' = (CHOOSE i \in 1..Len(file) : file[i] = Blank) - 1
            /\ offset' = 0 /\ ctcPc' = "decode"
       [] OTHER -> ctcPc' = "refused" /\ UNCHANGED <<blank, offset>>
  /\ UNCHANGED <<input, step, previous, ctcText>>

Best == labels[step]

Previous == Best

\* ctc_decode, one time step.
DecodeStep ==
  /\ ctcPc = "decode" /\ step <= Len(labels)
  /\ CASE Best < 0 -> ctcPc' = "EDOM" /\ UNCHANGED <<ctcText, previous, step>>
       [] Best >= 0 /\ Best \in {blank, previous} ->
            /\ previous' = Previous /\ step' = step + 1
            /\ UNCHANGED <<ctcText, ctcPc>>
       [] OTHER ->
            LET id == Best + offset
            IN  IF id \notin 0..(Len(vocab) - 1) \/ Len(ctcText) >= room
                THEN /\ ctcPc' = IF id \notin 0..(Len(vocab) - 1)
                              THEN "ERANGE" ELSE "ENOSPC"
                     /\ UNCHANGED <<ctcText, previous, step>>
                ELSE /\ ctcText' = Append(ctcText, vocab[id + 1])
                     /\ previous' = Previous /\ step' = step + 1
                     /\ UNCHANGED ctcPc
  /\ UNCHANGED <<input, vocab, blank, offset>>

EndOfLine ==
  /\ ctcPc = "decode" /\ step > Len(labels)
  /\ ctcPc' = "text"
  /\ UNCHANGED <<input, vocab, blank, offset, step, previous, ctcText>>

CtcNext == Configure \/ DecodeStep \/ EndOfLine
CtcSpec == CtcInit /\ [][CtcNext]_ctcVars

---------------------------------------------------------------------------
\* The text of a labelling by its definition: a class says something where it
\* does not go on from the step before, unless it is the blank; the text is
\* what is said, in its order and in the alphabet of the model.
Speaks(i) == /\ i > 1 => labels[i] # labels[i - 1]
             /\ alphabet[labels[i] + 1] # Blank
Spoken(n) == {i \in 1..n : Speaks(i)}
Says(t, n) ==
  /\ Len(t) = Cardinality(Spoken(n))
  /\ \A i \in Spoken(n) : t[Cardinality(Spoken(i))] = alphabet[labels[i] + 1]

\* A model with an alphabet of one of the known forms is accepted, one whose
\* number of classes fits none of them refused (one that fits but has another
\* order, such as the blank last, the program cannot tell and is no input
\* here); what ocr_rec_run returns is the text the model meant; it fails for a
\* step without scores or a text longer than there is room for, never for a
\* class outside the dictionary.
TextMeant ==
  /\ ctcPc = "text" => Says(ctcText, Len(labels))
  /\ ctcPc = "refused" => alphabet \notin Alphabets(file)
  /\ ctcPc \notin {"contract", "refused"} => alphabet \in Alphabets(file)
  /\ ctcPc = "EDOM" => Contains(labels, -1)
  /\ ctcPc = "ENOSPC" => Cardinality(Spoken(step)) > room
  /\ ctcPc # "ERANGE"
=============================================================================
