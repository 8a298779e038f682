----------------------------- MODULE TextProofs -----------------------------
(***************************************************************************)
(* From the picture of a page to the translated text, for every value of   *)
(* the constants.  The boxes of ocr_postproc.c are whole regions of the    *)
(* map, the best of them (TextBoxes); its reading order shows each of them *)
(* once, row by row (ReadingOrder); a line's text is what the labels mean  *)
(* in the alphabet of the model (CtcDecode); the tokens of a text stand    *)
(* for the whole of it or fill the array (Tokenizer); and a translation is *)
(* made of the tensors of its own call, whose outputs the runtime gets     *)
(* back (Translation).  That the reading order is the only one of its kind *)
(* and that tokens are read back as the text are left to TLC: these        *)
(* compare whole sequences that a fold or a sort computes.                 *)
(***************************************************************************)
EXTENDS Recognition, FiniteSetTheorems, SequenceTheorems,
        WellFoundedInduction, TLAPS

-----------------------------------------------------------------------------
(* Sets as lists, and least elements. *)

\* Every set of naturals has a least element.
LEMMA Least ==
  ASSUME NEW T, T \subseteq Nat, T # {}
  PROVE  \E x \in T : \A y \in T : x <= y
<1>1. PICK x \in T : \A y \in T : ~(<<y, x>> \in OpToRel(<,Nat))
  BY NatLessThanWellFounded, WFMin
<1>2. \A y \in T : ~(y < x)
  BY <1>1 DEF OpToRel
<1>3. QED
  BY <1>2

\* SetToSeq lists every element of a finite set, each of them once.
LEMMA Listed ==
  ASSUME NEW S, IsFiniteSet(S)
  PROVE  /\ SetToSeq(S) \in Seq(S) /\ Len(SetToSeq(S)) = Cardinality(S)
         /\ IsInjective(SetToSeq(S)) /\ ToSet(SetToSeq(S)) = S
<1> DEFINE n == Cardinality(S)
           f == SetToSeq(S)
<1>1. n \in Nat /\ ExistsBijection(1..n, S)
  BY FS_CardinalityType
<1>2. PICK g \in Bijection(1..n, S) : TRUE
  BY <1>1 DEF ExistsBijection
<1>3. g \in [1..n -> S] /\ IsInjective(g)
  BY <1>2 DEF Bijection, Injection, Surjection, IsInjective
<1>4. f \in [1..n -> S] /\ IsInjective(f)
  BY <1>3 DEF SetToSeq
<1>5. f \in Injection(1..n, S)
  BY <1>4 DEF Injection, IsInjective
<1>6. Cardinality(1..n) = n
  BY <1>1, FS_Interval
<1>7. f \in Surjection(1..n, S)
  BY <1>5, <1>6, FS_Injection
<1>8. f \in Seq(S) /\ Len(f) = n
  BY <1>1, <1>4
<1>9. ToSet(f) = S
  BY <1>4, <1>7 DEF ToSet, Surjection
<1>10. QED
  BY <1>4, <1>8, <1>9

-----------------------------------------------------------------------------
(* Text boxes: the flood, region by region. *)

Finished == map \ (binary \cup ToSet(queue))
Box == [pixels : SUBSET map, score : Nat]

DetTypes ==
  /\ map \in Maps /\ binary \subseteq map
  /\ seed \in Nat
  /\ queue \in Seq(map) /\ head \in Nat \ {0}
  /\ Flooding => head <= Len(queue) + 1
  /\ boxes \in Seq(Box) /\ dropped \in Seq(Box)
  /\ Len(boxes) <= MaxBoxes

\* What the flood has taken off the map: finished regions as a whole, and of
\* the present one what its first pixel reaches, with all the neighbours of
\* the pixels that were visited.
FloodKnown ==
  /\ IsInjective(queue) /\ ToSet(queue) \cap binary = {}
  /\ \A p \in Finished, q \in map : Near(p, q) => q \in Finished
  /\ Flooding => \A i \in 1..Len(queue) : i < head =>
       \A q \in map : Near(queue[i], q) => q \in ToSet(queue)
  /\ Flooding => \A T \in SUBSET map :
       Closed(T) /\ queue[1] \in T => ToSet(queue) \subseteq T
  /\ \A p \in binary : p >= seed

BoxesWhole ==
  /\ \A i \in 1..Len(boxes) :
       IsRegion(boxes[i].pixels) /\ boxes[i].pixels \subseteq Finished
  /\ \A i, j \in 1..Len(boxes) : i # j =>
       boxes[i].pixels \cap boxes[j].pixels = {}

BestKept ==
  /\ \A i \in 1..Len(boxes), j \in 1..Len(dropped) :
       boxes[i].score >= dropped[j].score
  /\ dropped # <<>> => Len(boxes) = MaxBoxes

DetIInv == DetTypes /\ FloodKnown /\ BoxesWhole /\ BestKept

\* Being near is mutual.
LEMMA NearIsMutual ==
  ASSUME NEW p \in Pixels, NEW q \in Pixels, Near(p, q)
  PROVE  Near(q, p)
<1>1. X(p) \in Int /\ X(q) \in Int /\ Y(p) \in Int /\ Y(q) \in Int
  BY DetAssumption DEF Pixels, X, Y
<1>2. QED
  BY <1>1 DEF Near

\* The maps are finite sets of pixels.
LEMMA MapFinite ==
  ASSUME DetTypes
  PROVE  /\ map \subseteq Pixels /\ Pixels \subseteq Nat
         /\ \A S \in SUBSET map : IsFiniteSet(S)
<1>1. Width * Height - 1 \in Int
  BY DetAssumption
<1>2. Pixels \subseteq Nat /\ IsFiniteSet(Pixels)
  BY <1>1, FS_Interval DEF Pixels
<1>3. map \subseteq Pixels
  BY DetAssumption DEF DetTypes
<1>4. \A S \in SUBSET map : IsFiniteSet(S)
  BY <1>2, <1>3, FS_Subset
<1>5. QED
  BY <1>2, <1>3, <1>4

\* A flood that has visited its whole queue has found a region.
LEMMA FloodIsRegion ==
  ASSUME DetTypes, FloodKnown, Flooding, head > Len(queue)
  PROVE  IsRegion(ToSet(queue))
<1> DEFINE Q == ToSet(queue)
<1>1. /\ queue \in Seq(map) /\ Len(queue) \in Nat /\ Len(queue) >= 1
      /\ head \in Nat
  BY DEF DetTypes, Flooding
<1>2. Q \subseteq map /\ queue[1] \in Q
  BY <1>1 DEF ToSet
<1>3. \A p \in Q : \A q \in map : Near(p, q) => q \in Q
  <2>1. SUFFICES ASSUME NEW i \in 1..Len(queue), NEW q \in map,
                        Near(queue[i], q)
                 PROVE  q \in Q
    BY <1>1 DEF ToSet
  <2>2. i < head
    BY <1>1
  <2>3. QED
    BY <2>1, <2>2 DEF FloodKnown
<1>4. Closed(Q)
  BY <1>3 DEF Closed
<1>5. ASSUME NEW T \in SUBSET Q, T \notin {{}, Q}, Closed(T)
      PROVE  FALSE
  <2>1. CASE queue[1] \in T
    <3>1. T \in SUBSET map
      BY <1>2
    <3>2. Q \subseteq T
      BY <2>1, <3>1, <1>5 DEF FloodKnown
    <3>3. QED
      BY <3>2, <1>5
  <2>2. CASE queue[1] \notin T
    <3>1. Closed(Q \ T)
      <4>1. SUFFICES ASSUME NEW p \in Q \ T, NEW q \in map, Near(p, q)
                     PROVE  q \in Q \ T
        BY DEF Closed
      <4>2. q \in Q
        BY <1>3, <4>1
      <4>3. ASSUME q \in T PROVE FALSE
        <5>1. p \in Pixels /\ q \in Pixels
          BY <1>2, MapFinite
        <5>2. Near(q, p)
          BY <4>1, <5>1, NearIsMutual
        <5>3. p \in map
          BY <1>2
        <5>4. p \in T
          BY <1>5, <4>3, <5>2, <5>3 DEF Closed
        <5>5. QED
          BY <5>4
      <4>4. QED
        BY <4>2, <4>3
    <3>2. Q \subseteq Q \ T
      BY <1>2, <2>2, <3>1 DEF FloodKnown
    <3>3. QED
      BY <3>2, <1>5
  <2>3. QED
    BY <2>1, <2>2
<1>6. QED
  BY <1>2, <1>4, <1>5 DEF IsRegion

\* The initial states.
LEMMA DetStarts == ASSUME DetInit PROVE DetIInv
<1>1. ToSet(<<>>) = {} /\ IsInjective(<<>>)
  BY DEF ToSet, IsInjective
<1>2. DetTypes
  BY DetAssumption DEF DetInit, DetTypes, Flooding
<1>3. \A p \in binary : p >= seed
  BY <1>2, MapFinite DEF DetInit
<1>4. Finished = {}
  BY <1>1 DEF DetInit, Finished
<1>5. FloodKnown
  BY <1>1, <1>3, <1>4 DEF DetInit, FloodKnown, Flooding
<1>6. BoxesWhole /\ BestKept
  BY DEF DetInit, BoxesWhole, BestKept
<1>7. QED
  BY <1>2, <1>5, <1>6 DEF DetIInv

\* A new seed.
LEMMA SeedSteps == ASSUME DetIInv, NextSeed PROVE DetIInv'
<1>1. /\ DetTypes /\ FloodKnown /\ BoxesWhole /\ BestKept
  BY DEF DetIInv
<1>2. /\ ~Flooding /\ queue = <<>> /\ ToSet(queue) = {}
      /\ UNCHANGED <<map, boxes, dropped>> /\ seed' = seed + 1
      /\ seed \in Nat
  BY <1>1 DEF NextSeed, Flooding, ToSet, DetTypes
<1>p. \A p \in map : p \in Nat
  BY <1>1, MapFinite
<1>3. CASE seed \in binary
  <2>1. queue' = <<seed>> /\ head' = 1 /\ binary' = binary \ {seed}
    BY <1>3 DEF NextSeed
  <2>2. ToSet(queue') = {seed} /\ IsInjective(queue') /\ queue'[1] = seed
    BY <2>1 DEF ToSet, IsInjective
  <2>3. Finished' = Finished
    BY <1>1, <1>2, <1>3, <2>1, <2>2 DEF Finished, DetTypes
  <2>4. DetTypes'
    <3>1. seed \in map /\ <<seed>> \in Seq(map) /\ Len(<<seed>>) = 1
      BY <1>1, <1>3 DEF DetTypes
    <3>2. QED
      BY <1>1, <1>2, <2>1, <3>1 DEF DetTypes, Flooding, Box
  <2>5. FloodKnown'
    <3>1. \A p \in binary' : p >= seed'
      BY <1>1, <1>2, <1>p, <2>1 DEF FloodKnown, DetTypes
    <3>2. \A p \in Finished', q \in map' : Near(p, q) => q \in Finished'
      BY <1>1, <1>2, <2>3 DEF FloodKnown, Near, X, Y
    <3>3. (Flooding => \A i \in 1..Len(queue) : i < head =>
             \A q \in map : Near(queue[i], q) => q \in ToSet(queue))'
      BY <2>1
    <3>4. (Flooding => \A T \in SUBSET map :
             Closed(T) /\ queue[1] \in T => ToSet(queue) \subseteq T)'
      BY <2>2
    <3>5. (IsInjective(queue) /\ ToSet(queue) \cap binary = {})'
      BY <2>1, <2>2
    <3>6. QED
      BY <3>1, <3>2, <3>3, <3>4, <3>5 DEF FloodKnown
  <2>6. BoxesWhole'
    BY <1>1, <1>2, <2>3 DEF BoxesWhole, IsRegion, Closed, Near, X, Y
  <2>7. BestKept'
    BY <1>1, <1>2 DEF BestKept
  <2>8. QED
    BY <2>4, <2>5, <2>6, <2>7 DEF DetIInv
<1>4. CASE seed \notin binary
  <2>1. UNCHANGED <<queue, head, binary>>
    BY <1>4 DEF NextSeed
  <2>2. Finished' = Finished /\ Flooding' = Flooding
    BY <1>2, <2>1 DEF Finished, Flooding
  <2>3. DetTypes'
    BY <1>1, <1>2, <2>1 DEF DetTypes, Flooding, Box
  <2>4. FloodKnown'
    <3>1. \A p \in binary' : p >= seed'
      <4>1. \A p \in binary : p \in Nat /\ p >= seed /\ p # seed
        BY <1>1, <1>p, <1>4 DEF FloodKnown, DetTypes
      <4>2. QED
        BY <1>2, <2>1, <4>1
    <3>2. QED
      BY <1>1, <1>2, <2>1, <2>2, <3>1
         DEF FloodKnown, Closed, Near, X, Y
  <2>5. BoxesWhole'
    BY <1>1, <1>2, <2>2 DEF BoxesWhole, IsRegion, Closed, Near, X, Y
  <2>6. BestKept'
    BY <1>1, <1>2 DEF BestKept
  <2>7. QED
    BY <2>3, <2>4, <2>5, <2>6 DEF DetIInv
<1>5. QED
  BY <1>3, <1>4

\* One list after the other, of elements apart: an injective list.
LEMMA Appended ==
  ASSUME NEW S, NEW s \in Seq(S), NEW t \in Seq(S),
         IsInjective(s), IsInjective(t), ToSet(s) \cap ToSet(t) = {}
  PROVE  /\ s \o t \in Seq(S) /\ Len(s \o t) = Len(s) + Len(t)
         /\ IsInjective(s \o t) /\ ToSet(s \o t) = ToSet(s) \cup ToSet(t)
         /\ \A i \in 1..Len(s) : (s \o t)[i] = s[i]
<1>1. /\ s \o t \in Seq(S) /\ Len(s \o t) = Len(s) + Len(t)
      /\ Len(s) \in Nat /\ Len(t) \in Nat
      /\ \A i \in 1..Len(s) : (s \o t)[i] = s[i]
      /\ \A i \in 1..(Len(s) + Len(t)) :
           i > Len(s) => i - Len(s) \in 1..Len(t) /\ (s \o t)[i] = t[i - Len(s)]
      /\ \A i \in 1..Len(t) : i + Len(s) \in 1..(Len(s) + Len(t))
                             /\ (s \o t)[i + Len(s)] = t[i]
  OBVIOUS
<1>2. /\ \A i \in 1..Len(s) : s[i] \in ToSet(s)
      /\ \A i \in 1..Len(t) : t[i] \in ToSet(t)
      /\ \A x \in ToSet(s) : \E i \in 1..Len(s) : s[i] = x
      /\ \A x \in ToSet(t) : \E i \in 1..Len(t) : t[i] = x
      /\ \A x \in ToSet(s \o t) : \E i \in 1..(Len(s) + Len(t)) : (s \o t)[i] = x
      /\ \A i \in 1..(Len(s) + Len(t)) : (s \o t)[i] \in ToSet(s \o t)
  <2>1. /\ \A i \in 1..Len(s) : s[i] \in ToSet(s)
        /\ \A x \in ToSet(s) : \E i \in 1..Len(s) : s[i] = x
    BY DEF ToSet
  <2>2. /\ \A i \in 1..Len(t) : t[i] \in ToSet(t)
        /\ \A x \in ToSet(t) : \E i \in 1..Len(t) : t[i] = x
    BY DEF ToSet
  <2>3. DOMAIN (s \o t) = 1..(Len(s) + Len(t))
    BY <1>1
  <2>4. /\ \A x \in ToSet(s \o t) : \E i \in 1..(Len(s) + Len(t)) : (s \o t)[i] = x
        /\ \A i \in 1..(Len(s) + Len(t)) : (s \o t)[i] \in ToSet(s \o t)
    BY <2>3 DEF ToSet
  <2>5. QED
    BY <2>1, <2>2, <2>4
<1>3. ToSet(s \o t) = ToSet(s) \cup ToSet(t)
  <2>1. ASSUME NEW x \in ToSet(s \o t) PROVE x \in ToSet(s) \cup ToSet(t)
    <3>1. PICK i \in 1..(Len(s) + Len(t)) : (s \o t)[i] = x
      BY <1>2
    <3>2. CASE i > Len(s)
      BY <1>1, <1>2, <3>1, <3>2
    <3>3. CASE ~(i > Len(s))
      <4>1. i \in 1..Len(s)
        BY <1>1, <3>3
      <4>2. QED
        BY <1>1, <1>2, <3>1, <4>1
    <3>4. QED
      BY <3>2, <3>3
  <2>2. ASSUME NEW x \in ToSet(s) PROVE x \in ToSet(s \o t)
    <3>1. PICK i \in 1..Len(s) : s[i] = x
      BY <1>2
    <3>2. i \in 1..(Len(s) + Len(t))
      BY <1>1
    <3>3. QED
      BY <1>1, <1>2, <3>1, <3>2
  <2>3. ASSUME NEW x \in ToSet(t) PROVE x \in ToSet(s \o t)
    <3>1. PICK i \in 1..Len(t) : t[i] = x
      BY <1>2
    <3>2. QED
      BY <1>1, <1>2, <3>1
  <2>4. QED
    BY <2>1, <2>2, <2>3
<1>4. IsInjective(s \o t)
  <2>1. SUFFICES ASSUME NEW i \in 1..(Len(s) + Len(t)),
                        NEW j \in 1..(Len(s) + Len(t)),
                        (s \o t)[i] = (s \o t)[j]
                 PROVE  i = j
    BY <1>1 DEF IsInjective
  <2>2. /\ \A k, l \in 1..Len(s) : s[k] = s[l] => k = l
        /\ \A k, l \in 1..Len(t) : t[k] = t[l] => k = l
    BY DEF IsInjective
  <2>3. CASE i \in 1..Len(s) /\ j \in 1..Len(s)
    BY <1>1, <2>1, <2>2, <2>3
  <2>4. CASE i > Len(s) /\ j > Len(s)
    <3>1. /\ i - Len(s) \in 1..Len(t) /\ j - Len(s) \in 1..Len(t)
          /\ t[i - Len(s)] = t[j - Len(s)]
      BY <1>1, <2>1, <2>4
    <3>2. i - Len(s) = j - Len(s)
      BY <2>2, <3>1
    <3>3. QED
      BY <1>1, <3>2
  <2>5. CASE i \in 1..Len(s) /\ j > Len(s)
    <3>1. (s \o t)[i] \in ToSet(s) /\ (s \o t)[j] \in ToSet(t)
      BY <1>1, <1>2, <2>5
    <3>2. QED
      BY <2>1, <3>1
  <2>6. CASE i > Len(s) /\ j \in 1..Len(s)
    <3>1. (s \o t)[j] \in ToSet(s) /\ (s \o t)[i] \in ToSet(t)
      BY <1>1, <1>2, <2>6
    <3>2. QED
      BY <2>1, <3>1
  <2>7. QED
    BY <1>1, <2>3, <2>4, <2>5, <2>6
<1>5. QED
  BY <1>1, <1>3, <1>4

\* The neighbours of a pixel that are still on the map enter the queue.
LEMMA VisitSteps == ASSUME DetIInv, Visit PROVE DetIInv'
<1> DEFINE p == queue[head]
           new == {q \in binary : Near(p, q)}
           Q == ToSet(queue)
<1>1. /\ DetTypes /\ FloodKnown /\ BoxesWhole /\ BestKept
  BY DEF DetIInv
<1>2. /\ Flooding /\ head <= Len(queue)
      /\ queue' = queue \o SetToSeq(new) /\ binary' = binary \ new
      /\ head' = head + 1 /\ UNCHANGED <<map, seed, boxes, dropped>>
  BY DEF Visit, Marked
<1>3. /\ queue \in Seq(map) /\ Len(queue) \in Nat /\ head \in 1..Len(queue)
      /\ p \in map /\ p \in Q /\ Q \subseteq map /\ binary \subseteq map
      /\ Q \cap binary = {} /\ IsInjective(queue) /\ new \subseteq binary
  BY <1>1, <1>2 DEF DetTypes, FloodKnown, ToSet
<1>4. /\ SetToSeq(new) \in Seq(map) /\ IsInjective(SetToSeq(new))
      /\ ToSet(SetToSeq(new)) = new
  <2>1. IsFiniteSet(new)
    BY <1>1, <1>3, MapFinite
  <2>2. SetToSeq(new) \in Seq(new) /\ IsInjective(SetToSeq(new))
        /\ ToSet(SetToSeq(new)) = new
    BY <2>1, Listed
  <2>3. QED
    BY <1>3, <2>2
<1>5. /\ queue' \in Seq(map) /\ Len(queue') = Len(queue) + Len(SetToSeq(new))
      /\ Len(SetToSeq(new)) \in Nat
      /\ IsInjective(queue') /\ ToSet(queue') = Q \cup new
      /\ \A i \in 1..Len(queue) : queue'[i] = queue[i]
  <2> DEFINE t == SetToSeq(new)
  <2>1. t \in Seq(map) /\ IsInjective(t) /\ ToSet(queue) \cap ToSet(t) = {}
        /\ ToSet(t) = new /\ queue' = queue \o t
    BY <1>2, <1>3, <1>4
  <2> HIDE DEF t, new
  <2>2. /\ queue \o t \in Seq(map) /\ Len(queue \o t) = Len(queue) + Len(t)
        /\ IsInjective(queue \o t)
        /\ ToSet(queue \o t) = ToSet(queue) \cup ToSet(t)
        /\ \A i \in 1..Len(queue) : (queue \o t)[i] = queue[i]
    BY <1>3, <2>1, Appended
  <2>3. Len(t) \in Nat
    BY <2>1
  <2>4. QED
    BY <2>1, <2>2, <2>3 DEF t
<1> HIDE DEF new, Q, p
<1>6. Finished' = Finished
  BY <1>2, <1>3, <1>5 DEF Finished, Q
<1>7. DetTypes'
  BY <1>1, <1>2, <1>3, <1>5 DEF DetTypes, Flooding, Box
<1>8. FloodKnown'
  <2>1. (IsInjective(queue) /\ ToSet(queue) \cap binary = {})'
    BY <1>2, <1>3, <1>5
  <2>2. \A p_1 \in Finished', q \in map' : Near(p_1, q) => q \in Finished'
    BY <1>1, <1>2, <1>6 DEF FloodKnown, Near, X, Y
  <2>3. ASSUME NEW i \in 1..Len(queue'), i < head',
               NEW q \in map, Near(queue'[i], q)
        PROVE  q \in ToSet(queue')
    <3>1. i \in 1..Len(queue) /\ queue'[i] = queue[i]
      BY <1>2, <1>3, <1>5, <2>3
    <3>2. CASE i < head
      <4>1. q \in Q
        BY <1>1, <1>2, <2>3, <3>1, <3>2 DEF FloodKnown, Q
      <4>2. QED
        BY <1>5, <4>1
    <3>3. CASE i = head
      <4>1. Near(p, q)
        BY <2>3, <3>1, <3>3 DEF p
      <4>2. CASE q \in binary
        BY <1>5, <4>1, <4>2 DEF new
      <4>3. CASE q \in Q
        BY <1>5, <4>3
      <4>4. CASE q \in Finished
        <5>1. p \in Pixels /\ q \in Pixels
          BY <1>1, <1>3, MapFinite
        <5>2. Near(q, p)
          BY <4>1, <5>1, NearIsMutual
        <5>3. p \in Finished
          BY <1>1, <1>3, <4>4, <5>2 DEF FloodKnown
        <5>4. QED
          BY <1>3, <5>3 DEF Finished, Q
      <4>5. QED
        BY <4>2, <4>3, <4>4 DEF Finished, Q
    <3>4. QED
      BY <1>2, <1>3, <2>3, <3>1, <3>2, <3>3
  <2>4. ASSUME NEW T \in SUBSET map, Closed(T), queue'[1] \in T
        PROVE  ToSet(queue') \subseteq T
    <3>1. queue'[1] = queue[1]
      BY <1>3, <1>5
    <3>2. Q \subseteq T
      BY <1>1, <1>2, <2>4, <3>1 DEF FloodKnown, Q
    <3>3. new \subseteq T
      BY <1>3, <2>4, <3>2 DEF Closed, new
    <3>4. QED
      BY <1>5, <3>2, <3>3
  <2>5. \A q \in binary' : q >= seed'
    BY <1>1, <1>2 DEF FloodKnown
  <2>6. \A T : Closed(T)' = Closed(T)
    BY <1>2 DEF Closed, Near, X, Y
  <2>7. QED
    <3>1. (Flooding => \A i \in 1..Len(queue) : i < head =>
             \A q \in map : Near(queue[i], q) => q \in ToSet(queue))'
      BY <1>2, <2>3 DEF Near, X, Y
    <3>2. (Flooding => \A T \in SUBSET map :
             Closed(T) /\ queue[1] \in T => ToSet(queue) \subseteq T)'
      BY <1>2, <2>4, <2>6
    <3>3. QED
      BY <2>1, <2>2, <2>5, <3>1, <3>2 DEF FloodKnown
<1>9. BoxesWhole'
  BY <1>1, <1>2, <1>6 DEF BoxesWhole, IsRegion, Closed, Near, X, Y
<1>10. BestKept'
  BY <1>1, <1>2 DEF BestKept
<1>11. QED
  BY <1>7, <1>8, <1>9, <1>10 DEF DetIInv

\* The place a full list gives up is one of the lowest.
LEMMA VictimIsLowest ==
  ASSUME boxes \in Seq(Box), boxes # <<>>
  PROVE  /\ Victim \in 1..Len(boxes)
         /\ \A i \in 1..Len(boxes) : boxes[Victim].score <= boxes[i].score
<1> DEFINE D == 1..Len(boxes)
           T == {boxes[i].score : i \in D}
<1>1. Len(boxes) \in Nat /\ 1 \in D
  OBVIOUS
<1>2. \A i \in D : boxes[i].score \in Nat
  <2>1. \A i \in D : boxes[i] \in Box
    OBVIOUS
  <2>2. QED
    BY <2>1 DEF Box
<1>3. T \subseteq Nat /\ T # {}
  BY <1>1, <1>2
<1>4. PICK low \in T : \A y \in T : low <= y
  BY <1>3, Least
<1>5. {i \in D : boxes[i].score = low} \subseteq Nat
  BY <1>1
<1>6. {i \in D : boxes[i].score = low} # {}
  BY <1>4
<1>7. PICK i \in {k \in D : boxes[k].score = low} :
        \A j \in {k \in D : boxes[k].score = low} : i <= j
  BY <1>5, <1>6, Least
<1>8. \A j \in D :
        /\ boxes[i].score <= boxes[j].score
        /\ j < i => boxes[i].score < boxes[j].score
  <2>1. SUFFICES ASSUME NEW j \in D
                 PROVE  /\ boxes[i].score <= boxes[j].score
                        /\ j < i => boxes[i].score < boxes[j].score
    OBVIOUS
  <2>2. boxes[j].score \in T /\ boxes[i].score = low /\ i \in D
    BY <1>7
  <2>3. low <= boxes[j].score /\ low \in Nat /\ boxes[j].score \in Nat
    BY <1>2, <1>3, <1>4, <2>2
  <2>4. boxes[j].score = low => i <= j
    BY <1>7
  <2>5. i \in Nat /\ j \in Nat
    BY <1>1, <2>2
  <2>6. QED
    BY <2>2, <2>3, <2>4, <2>5
<1> DEFINE P(k) == \A j \in D :
                     /\ boxes[k].score <= boxes[j].score
                     /\ j < k => boxes[k].score < boxes[j].score
<1>n. i \in D /\ P(i)
  BY <1>7, <1>8
<1>v. Victim = CHOOSE k \in D : P(k)
  BY DEF Victim, Lowest
<1> HIDE DEF P
<1>w. Victim \in D /\ P(Victim)
  BY <1>n, <1>v
<1>9. /\ Victim \in D
      /\ \A j \in D : boxes[Victim].score <= boxes[j].score
  BY <1>w DEF P
<1>10. QED
  BY <1>9

\* What keeping a box leaves in the list.
LEMMA Kept ==
  ASSUME DetTypes, BestKept, NEW b \in Box, Keep(b)
  PROVE  /\ boxes' \in Seq(Box) /\ dropped' \in Seq(Box)
         /\ Len(boxes') <= MaxBoxes
         /\ BestKept'
         /\ \E k \in 1..(Len(boxes) + 1) :
              \A i \in 1..Len(boxes') :
                IF i = k THEN boxes'[i] = b
                ELSE i \in 1..Len(boxes) /\ boxes'[i] = boxes[i]
<1>1. /\ boxes \in Seq(Box) /\ dropped \in Seq(Box)
      /\ Len(boxes) \in Nat /\ Len(dropped) \in Nat
      /\ Len(boxes) <= MaxBoxes /\ MaxBoxes \in Nat \ {0}
  BY DetAssumption DEF DetTypes
<1>2. /\ \A i \in 1..Len(boxes) : boxes[i] \in Box /\ boxes[i].score \in Nat
      /\ \A i \in 1..Len(dropped) : dropped[i] \in Box
         /\ dropped[i].score \in Nat
      /\ b.score \in Nat
  <2>1. /\ \A i \in 1..Len(boxes) : boxes[i] \in Box
        /\ \A i \in 1..Len(dropped) : dropped[i] \in Box
    BY <1>1
  <2>2. QED
    BY <2>1 DEF Box
<1>3. CASE Len(boxes) < MaxBoxes
  <2>1. boxes' = Append(boxes, b) /\ dropped' = dropped
    BY <1>3 DEF Keep
  <2>2. dropped = <<>>
    BY <1>1, <1>3 DEF BestKept
  <2>3. /\ boxes' \in Seq(Box) /\ Len(boxes') = Len(boxes) + 1
        /\ \A i \in 1..Len(boxes) : boxes'[i] = boxes[i]
        /\ boxes'[Len(boxes) + 1] = b
    BY <1>1, <2>1
  <2>4. Len(boxes') <= MaxBoxes
    BY <1>1, <1>3, <2>3
  <2>5. BestKept'
    BY <2>1, <2>2 DEF BestKept
  <2>6. \A i \in 1..Len(boxes') :
          IF i = Len(boxes) + 1 THEN boxes'[i] = b
          ELSE i \in 1..Len(boxes) /\ boxes'[i] = boxes[i]
    BY <1>1, <2>3
  <2>7. Len(boxes) + 1 \in 1..(Len(boxes) + 1)
    BY <1>1
  <2>8. QED
    BY <1>1, <2>1, <2>3, <2>4, <2>5, <2>6, <2>7
<1>4. CASE ~(Len(boxes) < MaxBoxes)
  <2>0. Len(boxes) = MaxBoxes /\ boxes # <<>>
    BY <1>1, <1>4
  <2>1. /\ Victim \in 1..Len(boxes)
        /\ \A i \in 1..Len(boxes) : boxes[Victim].score <= boxes[i].score
    BY <1>1, <2>0, VictimIsLowest
  <2> DEFINE v == Victim
  <2> HIDE DEF v
  <2>2. /\ v \in 1..Len(boxes)
        /\ \A i \in 1..Len(boxes) : boxes[v].score <= boxes[i].score
    BY <2>1 DEF v
  <2>3. CASE b.score > boxes[v].score
    <3>1. /\ boxes' = [boxes EXCEPT ![v] = b]
          /\ dropped' = Append(dropped, boxes[v])
      BY <1>4, <2>3 DEF Keep, v
    <3>2. /\ boxes' \in Seq(Box) /\ Len(boxes') = Len(boxes)
          /\ boxes'[v] = b
          /\ \A i \in 1..Len(boxes) : i # v => boxes'[i] = boxes[i]
      BY <1>1, <2>2, <3>1
    <3>3. /\ dropped' \in Seq(Box) /\ Len(dropped') = Len(dropped) + 1
          /\ \A i \in 1..Len(dropped) : dropped'[i] = dropped[i]
          /\ dropped'[Len(dropped) + 1] = boxes[v]
      BY <1>1, <1>2, <2>2, <3>1
    <3>4. ASSUME NEW i \in 1..Len(boxes'), NEW j \in 1..Len(dropped')
          PROVE  boxes'[i].score >= dropped'[j].score
      <4>1. i \in 1..Len(boxes) /\ boxes[v].score \in Nat
        BY <1>2, <2>2, <3>2
      <4>2. boxes'[i].score >= boxes[v].score
        <5>1. CASE i = v
          BY <1>2, <2>3, <3>2, <4>1, <5>1
        <5>2. CASE i # v
          BY <1>2, <2>2, <3>2, <4>1, <5>2
        <5>3. QED
          BY <5>1, <5>2
      <4>3. boxes[v].score >= dropped'[j].score /\ dropped'[j].score \in Nat
        <5>1. CASE j = Len(dropped) + 1
          BY <3>3, <4>1, <5>1
        <5>2. CASE j # Len(dropped) + 1
          <6>1. j \in 1..Len(dropped) /\ dropped'[j] = dropped[j]
            BY <1>1, <3>3, <5>2
          <6>2. QED
            BY <1>2, <2>2, <6>1 DEF BestKept
        <5>3. QED
          BY <5>1, <5>2
      <4>4. boxes'[i].score \in Nat
        <5>1. CASE i = v
          BY <1>2, <3>2, <5>1
        <5>2. CASE i # v
          BY <1>2, <3>2, <4>1, <5>2
        <5>3. QED
          BY <5>1, <5>2
      <4>5. QED
        BY <4>1, <4>2, <4>3, <4>4
    <3>5. BestKept'
      BY <2>0, <3>2, <3>4 DEF BestKept
    <3>6. \A i \in 1..Len(boxes') :
            IF i = v THEN boxes'[i] = b
            ELSE i \in 1..Len(boxes) /\ boxes'[i] = boxes[i]
      BY <3>2
    <3>7. v \in 1..(Len(boxes) + 1)
      BY <1>1, <2>2
    <3>8. QED
      BY <2>0, <1>1, <3>2, <3>3, <3>5, <3>6, <3>7
  <2>4. CASE ~(b.score > boxes[v].score)
    <3>1. dropped' = Append(dropped, b) /\ boxes' = boxes
      BY <1>4, <2>4 DEF Keep, v
    <3>2. /\ dropped' \in Seq(Box) /\ Len(dropped') = Len(dropped) + 1
          /\ \A i \in 1..Len(dropped) : dropped'[i] = dropped[i]
          /\ dropped'[Len(dropped) + 1] = b
      BY <1>1, <3>1
    <3>3. ASSUME NEW i \in 1..Len(boxes), NEW j \in 1..Len(dropped')
          PROVE  boxes[i].score >= dropped'[j].score
      <4>1. CASE j = Len(dropped) + 1
        <5>1. boxes[v].score <= boxes[i].score /\ boxes[v].score \in Nat
              /\ boxes[i].score \in Nat
          BY <1>2, <2>2
        <5>2. QED
          BY <1>2, <2>4, <3>2, <4>1, <5>1
      <4>2. CASE j # Len(dropped) + 1
        <5>1. j \in 1..Len(dropped) /\ dropped'[j] = dropped[j]
          BY <1>1, <3>2, <4>2
        <5>2. QED
          BY <5>1 DEF BestKept
      <4>3. QED
        BY <4>1, <4>2
    <3>4. BestKept'
      BY <2>0, <3>1, <3>3 DEF BestKept
    <3>5. Len(boxes) + 1 \in 1..(Len(boxes) + 1)
      BY <1>1
    <3>6. \A i \in 1..Len(boxes') :
            IF i = Len(boxes) + 1 THEN boxes'[i] = b
            ELSE i \in 1..Len(boxes) /\ boxes'[i] = boxes[i]
      BY <1>1, <3>1
    <3>7. QED
      BY <1>1, <3>1, <3>2, <3>4, <3>5, <3>6
  <2>5. QED
    BY <2>3, <2>4
<1>5. QED
  BY <1>3, <1>4

\* A region is finished, and its box kept or not.
LEMMA CloseSteps == ASSUME DetIInv, CloseRegion PROVE DetIInv'
<1> DEFINE Q == ToSet(queue)
<1>1. /\ DetTypes /\ FloodKnown /\ BoxesWhole /\ BestKept
  BY DEF DetIInv
<1>2. /\ Flooding /\ head > Len(queue) /\ queue' = <<>>
      /\ UNCHANGED <<map, binary, seed, head>>
  BY DEF CloseRegion
<1>3. /\ IsRegion(Q) /\ Q \subseteq map /\ Q \cap binary = {}
      /\ binary \subseteq map /\ Closed(Q)
  BY <1>1, <1>2, FloodIsRegion DEF IsRegion, FloodKnown, DetTypes
<1>4. ToSet(queue') = {} /\ IsInjective(queue')
  BY <1>2 DEF ToSet, IsInjective
<1>5. Finished' = Finished \cup Q /\ Finished \cap Q = {}
  BY <1>2, <1>3, <1>4 DEF Finished
<1>6. FloodKnown'
  <2>1. \A p \in Finished', q \in map' : Near(p, q)' => q \in Finished'
    <3>1. \A p \in Q, q \in map : Near(p, q) => q \in Q
      BY <1>3 DEF Closed
    <3>2. \A p \in Finished, q \in map : Near(p, q) => q \in Finished
      BY <1>1 DEF FloodKnown
    <3>3. QED
      BY <1>2, <1>5, <3>1, <3>2 DEF Near, X, Y
  <2>2. \A p \in binary' : p >= seed'
    BY <1>1, <1>2 DEF FloodKnown
  <2>3. ~Flooding'
    BY <1>2 DEF Flooding
  <2>4. QED
    BY <1>2, <1>4, <2>1, <2>2, <2>3 DEF FloodKnown
<1> DEFINE Regions == {T \in SUBSET map : IsRegion(T)}
<1>7. Regions' = Regions
  BY <1>2 DEF IsRegion, Closed, Near, X, Y
<1>r. \A i \in 1..Len(boxes) :
        boxes[i].pixels \in Regions /\ boxes[i].pixels \subseteq Finished
  BY <1>1 DEF BoxesWhole, IsRegion
<1>q. Q \in Regions
  BY <1>3
<1>b. (\A i \in 1..Len(boxes) : boxes[i].pixels \in Regions)'
        => (\A i \in 1..Len(boxes) : IsRegion(boxes[i].pixels))'
  OBVIOUS
<1> HIDE DEF Regions
<1>8. CASE UNCHANGED <<boxes, dropped>>
  <2>1. DetTypes'
    BY <1>1, <1>2, <1>8 DEF DetTypes, Flooding, Box
  <2>2. BoxesWhole'
    <3>1. (\A i \in 1..Len(boxes) : IsRegion(boxes[i].pixels))'
      BY <1>7, <1>8, <1>r, <1>b
    <3>2. QED
      BY <1>1, <1>5, <1>8, <3>1 DEF BoxesWhole
  <2>3. BestKept'
    BY <1>1, <1>8 DEF BestKept
  <2>4. QED
    BY <1>6, <2>1, <2>2, <2>3 DEF DetIInv
<1>9. ASSUME NEW score \in Scores, Keep([pixels |-> Q, score |-> score])
      PROVE  DetIInv'
  <2> DEFINE b == [pixels |-> Q, score |-> score]
  <2>1. b \in Box /\ b.pixels = Q
    BY <1>3, DetAssumption DEF Box
  <2> HIDE DEF b
  <2>2. /\ boxes' \in Seq(Box) /\ dropped' \in Seq(Box)
        /\ Len(boxes') <= MaxBoxes /\ BestKept'
        /\ \E k \in 1..(Len(boxes) + 1) :
             \A i \in 1..Len(boxes') :
               IF i = k THEN boxes'[i] = b
               ELSE i \in 1..Len(boxes) /\ boxes'[i] = boxes[i]
    BY <1>1, <1>9, <2>1, Kept DEF b
  <2>3. PICK k \in 1..(Len(boxes) + 1) :
          \A i \in 1..Len(boxes') :
            IF i = k THEN boxes'[i] = b
            ELSE i \in 1..Len(boxes) /\ boxes'[i] = boxes[i]
    BY <2>2
  <2>4. DetTypes'
    BY <1>1, <1>2, <2>2 DEF DetTypes, Flooding, Box
  <2>5. BoxesWhole'
    <3>1. \A i \in 1..Len(boxes') :
            boxes'[i].pixels \in Regions' /\ boxes'[i].pixels \subseteq Finished'
      BY <1>5, <1>7, <1>r, <1>q, <2>1, <2>3
    <3>2. (\A i \in 1..Len(boxes) : IsRegion(boxes[i].pixels))'
      BY <3>1, <1>b
    <3>3. \A i, j \in 1..Len(boxes') : i # j =>
            boxes'[i].pixels \cap boxes'[j].pixels = {}
      <4>1. SUFFICES ASSUME NEW i \in 1..Len(boxes'), NEW j \in 1..Len(boxes'),
                            i # j
                     PROVE  boxes'[i].pixels \cap boxes'[j].pixels = {}
        OBVIOUS
      <4>2. CASE i = k
        <5>1. boxes'[i].pixels = Q /\ boxes'[j].pixels \subseteq Finished
          BY <1>r, <2>1, <2>3, <4>1, <4>2
        <5>2. QED
          BY <1>5, <5>1
      <4>3. CASE j = k
        <5>1. boxes'[j].pixels = Q /\ boxes'[i].pixels \subseteq Finished
          BY <1>r, <2>1, <2>3, <4>1, <4>3
        <5>2. QED
          BY <1>5, <5>1
      <4>4. CASE i # k /\ j # k
        BY <1>1, <2>3, <4>1, <4>4 DEF BoxesWhole
      <4>5. QED
        BY <4>2, <4>3, <4>4
    <3>4. QED
      BY <3>1, <3>2, <3>3 DEF BoxesWhole
  <2>6. QED
    BY <1>6, <2>2, <2>4, <2>5 DEF DetIInv
<1>10. QED
  BY <1>8, <1>9 DEF CloseRegion

\* ocr_postproc.c: for every map and every size of it, the boxes are whole
\* connected regions, apart from each other and the best there were, and the
\* work queue holds no pixel twice.
THEOREM RegionsAreWhole == DetSpec => []RegionsWhole
<1>1. DetInit => DetIInv
  BY DetStarts
<1>2. DetIInv /\ [DetNext]_detVars => DetIInv'
  <2>1. ASSUME DetIInv, UNCHANGED detVars PROVE DetIInv'
    BY <2>1 DEF detVars, DetIInv, DetTypes, FloodKnown, BoxesWhole, BestKept,
                Finished, Flooding, IsRegion, Closed, Near, X, Y, Box
  <2>2. QED
    BY <2>1, SeedSteps, VisitSteps, CloseSteps DEF DetNext
<1>3. DetIInv => RegionsWhole
  <2>1. SUFFICES ASSUME DetIInv PROVE RegionsWhole
    OBVIOUS
  <2>2. seed \notin Pixels => binary = {}
    <3>1. /\ Width * Height - 1 \in Int /\ seed \in Nat
          /\ binary \subseteq Pixels
          /\ \A p \in binary : p >= seed
      BY <2>1, MapFinite, DetAssumption DEF DetIInv, DetTypes, FloodKnown
    <3>2. QED
      BY <3>1 DEF Pixels
  <2>3. QED
    BY <2>1, <2>2 DEF DetIInv, FloodKnown, BoxesWhole, BestKept, RegionsWhole
<1>4. QED
  BY <1>1, <1>2, <1>3, PTL DEF DetSpec

-----------------------------------------------------------------------------
(* The reading order: each box once, row by row. *)

Heights(j, k) == BoxAt(j).y <= BoxAt(k).y
Sides(j, k) == BoxAt(j).x <= BoxAt(k).x
Parted(j, k) == \E b \in begins : j < b /\ b <= k

OrderTypes ==
  /\ list \in Seq(PageBoxes) /\ page \in Seq(1..Len(list))
  /\ item \in Nat \ {0} /\ rowBegin \in Nat \ {0} /\ rowEnd \in Nat \ {0}
  /\ begins \subseteq Nat
  /\ orderPc \in {"valid", "y", "row", "grow", "x", "done"}

\* The valid boxes that were looked at, each of them once.
EachOnce ==
  /\ IsInjective(page)
  /\ ToSet(page) = {i \in 1..Len(list) :
                      list[i].valid /\ (orderPc = "valid" => i < item)}

\* How far the page is sorted: down to the item, then row by row; of the row
\* being sorted across only what lies below is still in the first order.
SortedSoFar ==
  /\ orderPc \in {"valid", "y"} => begins = {}
  /\ orderPc = "y" =>
       /\ item \in 2..(Len(page) + 1)
       /\ \A j, k \in 1..(item - 1) : j < k => Heights(j, k)
  /\ orderPc \in {"row", "grow", "x"} =>
       /\ rowBegin \in 1..(Len(page) + 1) /\ begins \subseteq 1..rowBegin
       /\ \A j, k \in 1..(rowBegin - 1) :
            j < k => IF Parted(j, k) THEN Heights(j, k) ELSE Sides(j, k)
       /\ \A j \in 1..(rowBegin - 1), k \in rowBegin..Len(page) : Heights(j, k)
  /\ orderPc \in {"row", "grow"} =>
       \A j, k \in rowBegin..Len(page) : j < k => Heights(j, k)
  /\ orderPc \in {"grow", "x"} =>
       /\ rowBegin \in begins
       /\ rowEnd \in (rowBegin + 1)..(Len(page) + 1)
  /\ orderPc = "x" =>
       /\ item \in (rowBegin + 1)..rowEnd
       /\ \A j \in rowBegin..Len(page), k \in rowEnd..Len(page) :
            j < k => Heights(j, k)
       /\ \A j, k \in rowBegin..(item - 1) : j < k => Sides(j, k)
  /\ orderPc = "done" => \A j, k \in 1..Len(page) :
       j < k => IF Parted(j, k) THEN Heights(j, k) ELSE Sides(j, k)

OrderIInv == OrderTypes /\ EachOnce /\ SortedSoFar

\* The centres are numbers.
LEMMA Centred ==
  ASSUME OrderTypes, NEW k \in 1..Len(page)
  PROVE  BoxAt(k).x \in Int /\ BoxAt(k).y \in Int
<1>1. page[k] \in 1..Len(list)
  BY DEF OrderTypes
<1>2. BoxAt(k) \in PageBoxes
  BY <1>1 DEF OrderTypes, BoxAt
<1>3. QED
  BY <1>2, OrderAssumption

\* The place each box comes from: between from and the item a permutation, by
\* which what was sorted there before the item is sorted with it.
Shifts(m, key, from) ==
  /\ \A j, k \in 1..Len(page) : m[j] = m[k] => j = k
  /\ \A k \in 1..Len(page) : \E j \in 1..Len(page) : m[j] = k
  /\ \A k \in 1..Len(page) : k < from \/ k > item => m[k] = k
  /\ \A k \in from..item : m[k] \in from..item
  /\ (\A j, k \in from..(item - 1) :
        j < k => BoxAt(j)[key] <= BoxAt(k)[key])
     => \A j, k \in from..item :
          j < k => BoxAt(m[j])[key] <= BoxAt(m[k])[key]

\* An insertion moves the boxes from one place to another and loses none.
LEMMA Inserting ==
  ASSUME OrderTypes, NEW key \in {"x", "y"}, item \in 1..Len(page),
         NEW STATE from, from \in 1..item
  PROVE  \E m \in [1..Len(page) -> 1..Len(page)] :
           /\ Inserted(key, from) = [k \in 1..Len(page) |-> page[m[k]]]
           /\ Shifts(m, key, from)
<1> DEFINE N == Len(page)
           T == {k \in from..item :
                   \A j \in k..(item - 1) : BoxAt(j)[key] > BoxAt(item)[key]}
           to == Min(T)
           m == [k \in 1..N |-> IF k = to THEN item
                                ELSE IF k \in (to + 1)..item THEN k - 1 ELSE k]
<1>1. N \in Nat /\ item \in 1..N /\ from \in 1..item
  BY DEF OrderTypes
<1>2. \A k \in 1..N : BoxAt(k)[key] \in Int
  BY Centred
<1>3. to \in T /\ \A k \in T : to <= k
  <2>1. item \in T
    BY <1>1
  <2>2. T \subseteq Nat /\ T # {}
    BY <1>1, <2>1
  <2>3. \E x \in T : \A y \in T : x <= y
    BY <2>2, Least
  <2>4. QED
    BY <2>3 DEF Min
<1>4. /\ to \in from..item
      /\ \A j \in to..(item - 1) : BoxAt(j)[key] > BoxAt(item)[key]
  BY <1>3
<1> HIDE DEF to
<1>5. to > from => BoxAt(to - 1)[key] <= BoxAt(item)[key]
  <2>1. SUFFICES ASSUME to > from,
                        ~(BoxAt(to - 1)[key] <= BoxAt(item)[key])
                 PROVE  FALSE
    OBVIOUS
  <2>2. /\ to - 1 \in from..item
        /\ \A j \in (to - 1)..(item - 1) : j = to - 1 \/ j \in to..(item - 1)
    BY <1>1, <1>4, <2>1
  <2>3. BoxAt(to - 1)[key] > BoxAt(item)[key]
    BY <1>1, <1>2, <2>1, <2>2
  <2>4. to - 1 \in T
    BY <1>4, <2>2, <2>3
  <2>5. QED
    BY <1>1, <1>3, <1>4, <2>4
<1> HIDE DEF T
<1>6. m \in [1..N -> 1..N]
  BY <1>1, <1>4
<1>7. Inserted(key, from) = [k \in 1..N |-> page[m[k]]]
  BY <1>1, <1>4 DEF Inserted, to, T
<1>8. \A j, k \in 1..N : m[j] = m[k] => j = k
  BY <1>1, <1>4
<1>9. \A k \in 1..N : \E j \in 1..N : m[j] = k
  <2>1. SUFFICES ASSUME NEW k \in 1..N PROVE \E j \in 1..N : m[j] = k
    OBVIOUS
  <2>2. CASE k = item
    <3>1. to \in 1..N /\ m[to] = item
      BY <1>1, <1>4
    <3>2. QED
      BY <2>2, <3>1
  <2>3. CASE k \in to..(item - 1)
    <3>1. k + 1 \in 1..N /\ m[k + 1] = k
      BY <1>1, <1>4, <2>3
    <3>2. QED
      BY <3>1
  <2>4. CASE k < to \/ k > item
    <3>1. m[k] = k
      BY <1>1, <1>4, <2>4
    <3>2. QED
      BY <3>1
  <2>5. QED
    BY <1>1, <1>4, <2>2, <2>3, <2>4
<1>10. \A k \in 1..N : k < from \/ k > item => m[k] = k
  BY <1>1, <1>4
<1>11. \A k \in from..item : m[k] \in from..item
  BY <1>1, <1>4
<1>12. ASSUME \A j, k \in from..(item - 1) :
                j < k => BoxAt(j)[key] <= BoxAt(k)[key],
              NEW j \in from..item, NEW k \in from..item, j < k
       PROVE  BoxAt(m[j])[key] <= BoxAt(m[k])[key]
  <2> DEFINE K(i) == BoxAt(i)[key]
  <2>1. \A i \in from..item : K(i) \in Int
    BY <1>1, <1>2
  <2>2. \A i, l \in from..(item - 1) : i < l => K(i) <= K(l)
    BY <1>12
  <2>3. \A i \in from..(to - 1) : K(i) <= K(item)
    <3>1. SUFFICES ASSUME NEW i \in from..(to - 1) PROVE K(i) <= K(item)
      OBVIOUS
    <3>2. to > from /\ to - 1 \in from..(item - 1) /\ i \in from..(item - 1)
          /\ (i = to - 1 \/ i < to - 1)
      BY <1>1, <1>4
    <3>3. K(to - 1) <= K(item)
      BY <1>5, <3>2
    <3>4. K(i) <= K(to - 1)
      BY <2>1, <2>2, <3>2
    <3>5. K(i) \in Int /\ K(item) \in Int /\ K(to - 1) \in Int
      BY <1>1, <2>1, <3>2
    <3>6. QED
      BY <3>3, <3>4, <3>5
  <2>4. \A i \in to..(item - 1) : K(item) <= K(i)
    BY <1>1, <1>4, <2>1
  <2> HIDE DEF K
  <2>5. \A i \in from..item : m[i] = IF i = to THEN item
                                ELSE IF i \in (to + 1)..item THEN i - 1 ELSE i
    BY <1>1
  <2> HIDE DEF m
  <2>6. K(m[j]) <= K(m[k])
    <3>1. CASE j = to
      <4>1. m[j] = item /\ m[k] = k - 1 /\ k - 1 \in to..(item - 1)
        BY <1>1, <1>4, <1>12, <2>5, <3>1
      <4>2. QED
        BY <2>4, <4>1
    <3>2. CASE k = to
      <4>1. m[k] = item /\ m[j] = j /\ j \in from..(to - 1)
        BY <1>1, <1>4, <1>12, <2>5, <3>2
      <4>2. QED
        BY <2>3, <4>1
    <3>3. CASE j # to /\ k # to
      <4>1. m[j] \in from..(item - 1) /\ m[k] \in from..(item - 1)
            /\ m[j] < m[k]
        BY <1>1, <1>4, <1>12, <2>5, <3>3
      <4>2. QED
        BY <2>2, <4>1
    <3>4. QED
      BY <3>1, <3>2, <3>3
  <2>7. QED
    BY <2>6 DEF K
<1> HIDE DEF m
<1>13. Shifts(m, key, from)
  BY <1>8, <1>9, <1>10, <1>11, <1>12 DEF Shifts
<1>14. QED
  BY <1>6, <1>7, <1>13

\* The initial states.
LEMMA OrderStarts == ASSUME OrderInit PROVE OrderIInv
<1>1. list \in Seq(PageBoxes) /\ <<>> \in Seq(1..Len(list))
  BY OrderAssumption DEF OrderInit, SeqOf
<1>2. ToSet(<<>>) = {} /\ IsInjective(<<>>)
  BY DEF ToSet, IsInjective
<1>3. OrderTypes
  BY <1>1 DEF OrderInit, OrderTypes
<1>4. EachOnce
  BY <1>1, <1>2 DEF OrderInit, EachOnce
<1>5. SortedSoFar
  BY DEF OrderInit, SortedSoFar
<1>6. QED
  BY <1>3, <1>4, <1>5 DEF OrderIInv

\* The insertion step keeps the types and every box.
LEMMA InsertingKeeps ==
  ASSUME OrderTypes, EachOnce, orderPc \in {"y", "x"},
         NEW key \in {"x", "y"}, item \in 1..Len(page),
         NEW STATE from, from \in 1..item,
         page' = Inserted(key, from), item' = item + 1,
         UNCHANGED <<list, row, orderPc>>
  PROVE  /\ OrderTypes' /\ EachOnce' /\ Len(page') = Len(page)
         /\ \E m \in [1..Len(page) -> 1..Len(page)] :
              /\ \A k \in 1..Len(page) : (BoxAt(k))' = BoxAt(m[k])
              /\ Shifts(m, key, from)
<1> DEFINE N == Len(page)
<1>1. PICK m \in [1..Len(page) -> 1..Len(page)] :
         /\ Inserted(key, from) = [k \in 1..Len(page) |-> page[m[k]]]
         /\ Shifts(m, key, from)
  BY Inserting
<1>2. /\ page' = [k \in 1..N |-> page[m[k]]]
      /\ m \in [1..N -> 1..N]
      /\ \A j, k \in 1..N : m[j] = m[k] => j = k
      /\ \A k \in 1..N : \E j \in 1..N : m[j] = k
  BY <1>1 DEF Shifts
<1>3. page \in Seq(1..Len(list)) /\ N \in Nat
      /\ \A k \in 1..N : page[k] \in 1..Len(list)
  BY DEF OrderTypes
<1> HIDE DEF N
<1>4. page' \in Seq(1..Len(list)) /\ Len(page') = N /\ DOMAIN page' = 1..N
      /\ \A k \in 1..N : page'[k] = page[m[k]] /\ m[k] \in 1..N
  <2>1. \A k \in 1..N : m[k] \in 1..N
    BY <1>2
  <2>2. /\ DOMAIN page' = 1..N
        /\ \A k \in 1..N : page'[k] = page[m[k]]
    BY <1>2, Zenon
  <2>3. page' \in [1..N -> 1..Len(list)]
    BY <1>2, <1>3, <2>1
  <2>4. page' \in Seq(1..Len(list)) /\ Len(page') = N
    BY <1>3, <2>3
  <2>5. QED
    BY <2>1, <2>2, <2>4
<1>5. OrderTypes'
  BY <1>4 DEF OrderTypes, row
<1>6. ToSet(page') = ToSet(page)
  <2>1. /\ \A x \in ToSet(page) : \E k \in 1..N : page[k] = x
        /\ \A x \in ToSet(page') : \E k \in 1..N : page'[k] = x
        /\ \A k \in 1..N : page[k] \in ToSet(page)
        /\ \A k \in 1..N : page'[k] \in ToSet(page')
    <3>1. DOMAIN page = 1..N
      BY <1>3 DEF N
    <3>2. QED
      BY <1>4, <3>1 DEF ToSet
  <2>2. ASSUME NEW x \in ToSet(page) PROVE x \in ToSet(page')
    <3>1. PICK k \in 1..N : page[k] = x
      BY <2>1
    <3>2. PICK j \in 1..N : m[j] = k
      BY <1>2
    <3>3. QED
      BY <1>4, <2>1, <3>1, <3>2
  <2>3. ASSUME NEW x \in ToSet(page') PROVE x \in ToSet(page)
    <3>1. PICK k \in 1..N : page'[k] = x
      BY <2>1
    <3>2. QED
      BY <1>2, <1>4, <2>1, <3>1
  <2>4. QED
    BY <2>2, <2>3
<1>7. IsInjective(page')
  <2>1. \A j, k \in 1..N : page[j] = page[k] => j = k
    BY <1>3 DEF EachOnce, IsInjective, N
  <2>2. ASSUME NEW j \in 1..N, NEW k \in 1..N, page'[j] = page'[k]
        PROVE  j = k
    <3>1. page[m[j]] = page[m[k]] /\ m[j] \in 1..N /\ m[k] \in 1..N
      BY <1>2, <1>4, <2>2
    <3>2. QED
      BY <1>2, <2>1, <3>1
  <2>3. DOMAIN page' = 1..N
    BY <1>4
  <2>4. QED
    BY <2>2, <2>3 DEF IsInjective
<1>8. EachOnce'
  BY <1>6, <1>7 DEF EachOnce
<1>9. \A k \in 1..N : (BoxAt(k))' = BoxAt(m[k])
  BY <1>4 DEF BoxAt
<1>10. QED
  BY <1>1, <1>4, <1>5, <1>8, <1>9 DEF N

\* The boxes do not move.
LEMMA Unmoved ==
  ASSUME UNCHANGED <<list, page>>
  PROVE  /\ \A j, k : (Heights(j, k))' = Heights(j, k)
         /\ \A j, k : (Sides(j, k))' = Sides(j, k)
         /\ begins' = begins => \A j, k : (Parted(j, k))' = Parted(j, k)
BY DEF Heights, Sides, Parted, BoxAt

\* The valid boxes are taken over.
LEMMA KeepSteps == ASSUME OrderIInv, KeepValid PROVE OrderIInv'
<1>1. /\ OrderTypes /\ EachOnce /\ SortedSoFar
      /\ orderPc = "valid" /\ item <= Len(list) /\ item' = item + 1
      /\ UNCHANGED <<list, rowBegin, rowEnd, centreSum, heightSum, begins,
                     orderPc>>
  BY DEF OrderIInv, KeepValid, row
<1>2. /\ page \in Seq(1..Len(list)) /\ item \in 1..Len(list)
      /\ Len(list) \in Nat
  BY <1>1 DEF OrderTypes
<1>3. SortedSoFar'
  BY <1>1 DEF SortedSoFar
<1>4. CASE list[item].valid
  <2>1. page' = Append(page, item)
    BY <1>4 DEF KeepValid
  <2>2. OrderTypes'
    BY <1>1, <1>2, <2>1 DEF OrderTypes
  <2>3. \A k \in 1..Len(page) : page[k] \in 1..Len(list) /\ page[k] < item
    <3>1. \A k \in 1..Len(page) : page[k] \in ToSet(page)
      BY <1>2 DEF ToSet
    <3>2. QED
      BY <1>1, <1>2, <3>1 DEF EachOnce
  <2>4. /\ page' \in Seq(1..Len(list)) /\ Len(page') = Len(page) + 1
        /\ page'[Len(page) + 1] = item
        /\ \A k \in 1..Len(page) : page'[k] = page[k]
    BY <1>2, <2>1
  <2>5. IsInjective(page')
    <3>1. \A j, k \in 1..Len(page) : page[j] = page[k] => j = k
      BY <1>1, <1>2 DEF EachOnce, IsInjective
    <3>2. ASSUME NEW j \in 1..(Len(page) + 1), NEW k \in 1..(Len(page) + 1),
                 page'[j] = page'[k]
          PROVE  j = k
      <4>1. \A i \in 1..(Len(page) + 1) :
              \/ i \in 1..Len(page) /\ page'[i] = page[i] /\ page'[i] # item
              \/ i = Len(page) + 1 /\ page'[i] = item
        <5>1. SUFFICES ASSUME NEW i \in 1..(Len(page) + 1)
                       PROVE  \/ /\ i \in 1..Len(page) /\ page'[i] = page[i]
                                 /\ page'[i] # item
                              \/ i = Len(page) + 1 /\ page'[i] = item
          OBVIOUS
        <5>2. CASE i = Len(page) + 1
          BY <2>4, <5>2
        <5>3. CASE i # Len(page) + 1
          <6>1. i \in 1..Len(page)
            BY <1>2, <5>3
          <6>2. page[i] < item /\ page[i] \in Nat /\ page'[i] = page[i]
            BY <2>3, <2>4, <6>1
          <6>3. QED
            BY <1>2, <6>1, <6>2
        <5>4. QED
          BY <5>2, <5>3
      <4>2. QED
        BY <3>1, <3>2, <4>1
    <3>3. QED
      BY <1>2, <2>4, <3>2 DEF IsInjective
  <2>6. ToSet(page') = ToSet(page) \cup {item}
    <3>1. /\ \A x \in ToSet(page) : \E k \in 1..Len(page) : page[k] = x
          /\ \A x \in ToSet(page') : \E k \in 1..(Len(page) + 1) : page'[k] = x
          /\ \A k \in 1..Len(page) : page[k] \in ToSet(page)
          /\ \A k \in 1..(Len(page) + 1) : page'[k] \in ToSet(page')
      <4>1. DOMAIN page = 1..Len(page) /\ DOMAIN page' = 1..(Len(page) + 1)
        BY <1>2, <2>4
      <4>2. QED
        BY <4>1, <2>4 DEF ToSet
    <3>2. ASSUME NEW x \in ToSet(page') PROVE x \in ToSet(page) \cup {item}
      <4>1. PICK k \in 1..(Len(page) + 1) : page'[k] = x
        BY <3>1
      <4>2. k \in 1..Len(page) \/ k = Len(page) + 1
        BY <1>2
      <4>3. QED
        BY <2>4, <3>1, <4>1, <4>2
    <3>3. ASSUME NEW x \in ToSet(page) PROVE x \in ToSet(page')
      <4>1. PICK k \in 1..Len(page) : page[k] = x
        BY <3>1
      <4>2. k \in 1..(Len(page) + 1)
        BY <1>2
      <4>3. QED
        BY <2>4, <3>1, <4>1, <4>2
    <3>4. Len(page) + 1 \in 1..(Len(page) + 1)
      BY <1>2
    <3>5. QED
      BY <2>4, <3>1, <3>2, <3>3, <3>4
  <2>7. EachOnce'
    <3>1. \A i \in 1..Len(list) : i < item + 1 <=> i < item \/ i = item
      BY <1>2
    <3>2. QED
      BY <1>1, <1>2, <1>4, <2>5, <2>6, <3>1 DEF EachOnce
  <2>8. QED
    BY <1>3, <2>2, <2>7 DEF OrderIInv
<1>5. CASE ~list[item].valid
  <2>1. page' = page
    BY <1>5 DEF KeepValid
  <2>2. OrderTypes'
    BY <1>1, <1>2, <2>1 DEF OrderTypes
  <2>3. \A i \in 1..Len(list) : list[i].valid => (i < item + 1 <=> i < item)
    BY <1>2, <1>5
  <2>4. EachOnce'
    BY <1>1, <2>1, <2>3 DEF EachOnce
  <2>5. QED
    BY <1>3, <2>2, <2>4 DEF OrderIInv
<1>6. QED
  BY <1>4, <1>5

\* The first sort, from the top down.
LEMMA YSteps ==
  ASSUME OrderIInv, ValidKept \/ InsertY \/ YSorted
  PROVE  OrderIInv'
<1>1. OrderTypes /\ EachOnce /\ SortedSoFar /\ Len(page) \in Nat
  BY DEF OrderIInv, OrderTypes
<1>2. CASE ValidKept
  <2>1. /\ orderPc = "valid" /\ item > Len(list) /\ item' = 2
        /\ orderPc' \in {"done", "y"}
        /\ orderPc' = "y" => ~(Len(page) < 2)
        /\ orderPc' = "done" => Len(page) < 2
        /\ UNCHANGED <<list, page, rowBegin, rowEnd, begins>>
    BY <1>2 DEF ValidKept, row
  <2>2. OrderTypes'
    BY <1>1, <2>1 DEF OrderTypes
  <2>3. EachOnce'
    <3>1. \A i \in 1..Len(list) : i < item
      BY <1>1, <2>1 DEF OrderTypes
    <3>2. QED
      BY <1>1, <2>1, <3>1 DEF EachOnce
  <2>4. SortedSoFar'
    <3>1. begins' = {}
      BY <1>1, <2>1 DEF SortedSoFar
    <3>2. \A j, k \in 1..1 : ~(j < k)
      OBVIOUS
    <3>3. Len(page) < 2 => \A j, k \in 1..Len(page) : ~(j < k)
      BY <1>1
    <3>4. QED
      BY <1>1, <2>1, <3>1, <3>2, <3>3 DEF SortedSoFar
  <2>5. QED
    BY <2>2, <2>3, <2>4 DEF OrderIInv
<1>3. CASE InsertY
  <2>1. /\ orderPc = "y" /\ item <= Len(page) /\ page' = Inserted("y", 1)
        /\ item' = item + 1 /\ UNCHANGED <<list, row, orderPc>>
    BY <1>3 DEF InsertY
  <2>2. item \in 2..Len(page) /\ item \in 1..Len(page) /\ 1 \in 1..item
        /\ begins = {} /\ begins' = {}
    BY <1>1, <2>1 DEF SortedSoFar, row
  <2>3. /\ OrderTypes' /\ EachOnce' /\ Len(page') = Len(page)
        /\ \E m \in [1..Len(page) -> 1..Len(page)] :
             /\ \A k \in 1..Len(page) : (BoxAt(k))' = BoxAt(m[k])
             /\ Shifts(m, "y", 1)
    BY <1>1, <2>1, <2>2, InsertingKeeps
  <2>4. \A j, k \in 1..item : j < k => (Heights(j, k))'
    <3>1. \A j, k \in 1..(item - 1) :
             j < k => BoxAt(j)["y"] <= BoxAt(k)["y"]
      BY <1>1, <2>1 DEF SortedSoFar, Heights
    <3>2. \A k \in 1..item : k \in 1..Len(page)
      BY <2>2
    <3>3. QED
      <4>1. PICK m \in [1..Len(page) -> 1..Len(page)] :
               /\ \A k \in 1..Len(page) : (BoxAt(k))' = BoxAt(m[k])
               /\ Shifts(m, "y", 1)
        BY <2>3
      <4>2. \A j, k \in 1..item :
              j < k => BoxAt(m[j])["y"] <= BoxAt(m[k])["y"]
        BY <3>1, <4>1 DEF Shifts
      <4>3. QED
        BY <3>2, <4>1, <4>2 DEF Heights
  <2>5. SortedSoFar'
    <3>1. item' \in 2..(Len(page') + 1) /\ item' - 1 = item
      BY <1>1, <2>1, <2>2, <2>3
    <3>2. QED
      BY <2>1, <2>2, <2>4, <3>1 DEF SortedSoFar
  <2>6. QED
    BY <2>3, <2>5 DEF OrderIInv
<1>4. CASE YSorted
  <2>1. /\ orderPc = "y" /\ item > Len(page) /\ rowBegin' = 1
        /\ orderPc' = "row"
        /\ UNCHANGED <<list, page, item, rowEnd, begins>>
    BY <1>4 DEF YSorted
  <2>2. OrderTypes' /\ EachOnce'
    BY <1>1, <2>1 DEF OrderTypes, EachOnce
  <2>3. item = Len(page) + 1 /\ begins = {} /\ item - 1 = Len(page)
    BY <1>1, <2>1 DEF SortedSoFar
  <2>4. \A j, k \in 1..Len(page) : j < k => (Heights(j, k))'
    BY <1>1, <2>1, <2>3, Unmoved DEF SortedSoFar
  <2>5. SortedSoFar'
    <3>1. rowBegin' - 1 = 0 /\ 1 \in 1..(Len(page) + 1)
      BY <1>1, <2>1
    <3>2. 1..0 = {}
      OBVIOUS
    <3>3. QED
      BY <2>1, <2>3, <2>4, <3>1, <3>2 DEF SortedSoFar
  <2>6. QED
    BY <2>2, <2>5 DEF OrderIInv
<1>5. QED
  BY <1>2, <1>3, <1>4

\* A row is begun and grows: nothing moves.
LEMMA RowSteps ==
  ASSUME OrderIInv, BeginRow \/ GrowRow \/ EndRow \/ EndPage
  PROVE  OrderIInv'
<1>1. OrderTypes /\ EachOnce /\ SortedSoFar /\ Len(page) \in Nat
  BY DEF OrderIInv, OrderTypes
<1>2. CASE BeginRow
  <2>1. /\ orderPc = "row" /\ rowBegin <= Len(page) /\ rowEnd' = rowBegin + 1
        /\ begins' = begins \cup {rowBegin} /\ orderPc' = "grow"
        /\ UNCHANGED <<list, page, item, rowBegin>>
    BY <1>2 DEF BeginRow
  <2>2. /\ rowBegin \in 1..Len(page) /\ begins \subseteq 1..rowBegin
        /\ begins' \subseteq 1..rowBegin
        /\ rowEnd' \in (rowBegin + 1)..(Len(page) + 1)
    BY <1>1, <2>1 DEF SortedSoFar
  <2>3. OrderTypes' /\ EachOnce'
    BY <1>1, <2>1, <2>2 DEF OrderTypes, EachOnce
  <2>4. \A j, k \in 1..(rowBegin - 1) : (Parted(j, k))' <=> Parted(j, k)
    BY <2>1, <2>2 DEF Parted
  <2>5. SortedSoFar'
    BY <1>1, <2>1, <2>2, <2>4, Unmoved DEF SortedSoFar
  <2>6. QED
    BY <2>3, <2>5 DEF OrderIInv
<1>3. CASE GrowRow
  <2>1. /\ orderPc = "grow" /\ rowEnd <= Len(page) /\ rowEnd' = rowEnd + 1
        /\ UNCHANGED <<list, page, item, rowBegin, orderPc, begins>>
    BY <1>3 DEF GrowRow, RowGoesOn
  <2>2. OrderTypes' /\ EachOnce'
    BY <1>1, <2>1 DEF OrderTypes, EachOnce
  <2>3. rowEnd' \in (rowBegin + 1)..(Len(page) + 1)
    BY <1>1, <2>1 DEF SortedSoFar
  <2>4. SortedSoFar'
    BY <1>1, <2>1, <2>3, Unmoved DEF SortedSoFar
  <2>5. QED
    BY <2>2, <2>4 DEF OrderIInv
<1>4. CASE EndRow
  <2>1. /\ orderPc = "grow" /\ item' = rowBegin + 1 /\ orderPc' = "x"
        /\ UNCHANGED <<list, page, rowBegin, rowEnd, begins>>
    BY <1>4 DEF EndRow, row
  <2>2. OrderTypes' /\ EachOnce'
    BY <1>1, <2>1 DEF OrderTypes, EachOnce
  <2>3. /\ item' \in (rowBegin + 1)..rowEnd /\ item' - 1 = rowBegin
        /\ rowEnd..Len(page) \subseteq rowBegin..Len(page)
        /\ \A j, k \in rowBegin..rowBegin : ~(j < k)
    BY <1>1, <2>1 DEF SortedSoFar
  <2>4. SortedSoFar'
    BY <1>1, <2>1, <2>3, Unmoved DEF SortedSoFar
  <2>5. QED
    BY <2>2, <2>4 DEF OrderIInv
<1>5. CASE EndPage
  <2>1. /\ orderPc = "row" /\ rowBegin > Len(page) /\ orderPc' = "done"
        /\ UNCHANGED <<list, page, item, rowBegin, rowEnd, begins>>
    BY <1>5 DEF EndPage, row
  <2>2. OrderTypes' /\ EachOnce'
    BY <1>1, <2>1 DEF OrderTypes, EachOnce
  <2>3. rowBegin - 1 = Len(page)
    BY <1>1, <2>1 DEF SortedSoFar
  <2>4. SortedSoFar'
    BY <1>1, <2>1, <2>3, Unmoved DEF SortedSoFar
  <2>5. QED
    BY <2>2, <2>4 DEF OrderIInv
<1>6. QED
  BY <1>2, <1>3, <1>4, <1>5

\* Within a row, from left to right.
LEMMA XSteps == ASSUME OrderIInv, InsertX \/ XSorted PROVE OrderIInv'
<1>1. /\ OrderTypes /\ EachOnce /\ SortedSoFar /\ Len(page) \in Nat
      /\ orderPc = "x"
  BY DEF OrderIInv, OrderTypes, InsertX, XSorted
<1>2. /\ rowBegin \in 1..Len(page) /\ begins \subseteq 1..rowBegin
      /\ rowBegin \in begins /\ rowEnd \in (rowBegin + 1)..(Len(page) + 1)
      /\ item \in (rowBegin + 1)..rowEnd
  BY <1>1 DEF SortedSoFar
<1>3. CASE InsertX
  <2>1. /\ item < rowEnd /\ page' = Inserted("x", rowBegin)
        /\ item' = item + 1 /\ UNCHANGED <<list, row, orderPc>>
        /\ UNCHANGED <<rowBegin, rowEnd, begins>>
    BY <1>3 DEF InsertX, RowStart, row
  <2>2. item \in 1..Len(page) /\ rowBegin \in 1..item
        /\ rowBegin..item \subseteq 1..Len(page)
    BY <1>2, <2>1
  <2>3. /\ OrderTypes' /\ EachOnce' /\ Len(page') = Len(page)
        /\ \E m \in [1..Len(page) -> 1..Len(page)] :
             /\ \A k \in 1..Len(page) : (BoxAt(k))' = BoxAt(m[k])
             /\ Shifts(m, "x", rowBegin)
    BY <1>1, <2>1, <2>2, InsertingKeeps
  <2>4. PICK m \in [1..Len(page) -> 1..Len(page)] :
          /\ \A k \in 1..Len(page) : (BoxAt(k))' = BoxAt(m[k])
          /\ Shifts(m, "x", rowBegin)
    BY <2>3
  <2>5. /\ \A k \in 1..Len(page) : k < rowBegin \/ k > item => m[k] = k
        /\ \A k \in rowBegin..item : m[k] \in rowBegin..item
    BY <2>4 DEF Shifts
  <2>6. \A j, k \in rowBegin..item : j < k => (Sides(j, k))'
    <3>1. \A j, k \in rowBegin..(item - 1) :
            j < k => BoxAt(j)["x"] <= BoxAt(k)["x"]
      BY <1>1 DEF SortedSoFar, Sides
    <3>2. \A j, k \in rowBegin..item :
            j < k => BoxAt(m[j])["x"] <= BoxAt(m[k])["x"]
      BY <2>4, <3>1 DEF Shifts
    <3>3. QED
      BY <2>2, <2>4, <3>2 DEF Sides
  <2>7. /\ \A j, k \in 1..Len(page) :
             /\ (Heights(j, k))' <=> Heights(m[j], m[k])
             /\ (Sides(j, k))' <=> Sides(m[j], m[k])
             /\ (Parted(j, k))' <=> Parted(j, k)
    BY <2>1, <2>4 DEF Heights, Sides, Parted
  <2>8. \A j, k \in 1..(rowBegin - 1) :
          j < k => (IF Parted(j, k) THEN Heights(j, k) ELSE Sides(j, k))'
    <3>1. \A j \in 1..(rowBegin - 1) : j \in 1..Len(page) /\ m[j] = j
      BY <1>2, <2>5
    <3>2. \A j, k \in 1..(rowBegin - 1) :
            j < k => IF Parted(j, k) THEN Heights(j, k) ELSE Sides(j, k)
      BY <1>1 DEF SortedSoFar
    <3>3. QED
      BY <2>7, <3>1, <3>2
  <2>9. \A j \in 1..(rowBegin - 1), k \in rowBegin..Len(page) : (Heights(j, k))'
    <3>1. \A j \in 1..(rowBegin - 1) : j \in 1..Len(page) /\ m[j] = j
      BY <1>2, <2>5
    <3>2. \A k \in rowBegin..Len(page) :
            k \in 1..Len(page) /\ m[k] \in rowBegin..Len(page)
      <4>1. SUFFICES ASSUME NEW k \in rowBegin..Len(page)
                     PROVE  k \in 1..Len(page) /\ m[k] \in rowBegin..Len(page)
        OBVIOUS
      <4>2. k \in 1..Len(page) /\ (k \in rowBegin..item \/ k > item)
        BY <1>2, <4>1
      <4>3. QED
        BY <2>2, <2>5, <4>2
    <3>3. QED
      BY <1>1, <2>7, <3>1, <3>2 DEF SortedSoFar
  <2>10. \A j \in rowBegin..Len(page), k \in rowEnd..Len(page) :
           j < k => (Heights(j, k))'
    <3>1. SUFFICES ASSUME NEW j \in rowBegin..Len(page),
                          NEW k \in rowEnd..Len(page), j < k
                   PROVE  (Heights(j, k))'
      OBVIOUS
    <3>2. /\ j \in 1..Len(page) /\ k \in 1..Len(page) /\ k > item
          /\ (j \in rowBegin..item \/ j > item)
      BY <1>2, <2>1, <3>1
    <3>3. m[k] = k
      BY <2>5, <3>2
    <3>4. m[j] \in rowBegin..Len(page) /\ m[j] < k
      BY <1>2, <2>2, <2>5, <3>1, <3>2
    <3>5. Heights(m[j], m[k])
      BY <1>1, <3>3, <3>4 DEF SortedSoFar
    <3>6. QED
      BY <2>7, <3>2, <3>5
  <2>11. SortedSoFar'
    <3>1. item' \in (rowBegin + 1)..rowEnd /\ item' - 1 = item
      BY <1>2, <2>1
    <3>2. QED
      BY <1>1, <1>2, <2>1, <2>3, <2>6, <2>8, <2>9, <2>10, <3>1 DEF SortedSoFar
  <2>12. QED
    BY <2>3, <2>11 DEF OrderIInv
<1>4. CASE XSorted
  <2>1. /\ item >= rowEnd /\ rowBegin' = rowEnd /\ orderPc' = "row"
        /\ UNCHANGED <<list, page, item, rowEnd, begins>>
    BY <1>4 DEF XSorted
  <2>2. item = rowEnd
    BY <1>2, <2>1
  <2>3. OrderTypes' /\ EachOnce'
    BY <1>1, <2>1 DEF OrderTypes, EachOnce
  <2>4. \A j, k \in 1..(rowEnd - 1) :
          j < k => IF Parted(j, k) THEN Heights(j, k) ELSE Sides(j, k)
    <3>1. SUFFICES ASSUME NEW j \in 1..(rowEnd - 1), NEW k \in 1..(rowEnd - 1),
                          j < k
                   PROVE  IF Parted(j, k) THEN Heights(j, k) ELSE Sides(j, k)
      OBVIOUS
    <3>2. CASE k < rowBegin
      <4>1. j \in 1..(rowBegin - 1) /\ k \in 1..(rowBegin - 1)
        BY <1>2, <3>1, <3>2
      <4>2. QED
        BY <1>1, <3>1, <4>1 DEF SortedSoFar
    <3>3. CASE j < rowBegin /\ k >= rowBegin
      <4>1. j \in 1..(rowBegin - 1) /\ k \in rowBegin..Len(page)
        BY <1>2, <3>1, <3>3
      <4>2. Heights(j, k)
        BY <1>1, <4>1 DEF SortedSoFar
      <4>3. Parted(j, k)
        BY <1>2, <3>3 DEF Parted
      <4>4. QED
        BY <4>2, <4>3
    <3>4. CASE j >= rowBegin
      <4>1. j \in rowBegin..(item - 1) /\ k \in rowBegin..(item - 1)
        BY <1>2, <2>2, <3>1, <3>4
      <4>2. Sides(j, k)
        BY <1>1, <3>1, <4>1 DEF SortedSoFar
      <4>3. ~Parted(j, k)
        BY <1>2, <3>1, <3>4 DEF Parted
      <4>4. QED
        BY <4>2, <4>3
    <3>5. QED
      BY <1>2, <3>1, <3>2, <3>3, <3>4
  <2>5. \A j \in 1..(rowEnd - 1), k \in rowEnd..Len(page) : Heights(j, k)
    <3>1. SUFFICES ASSUME NEW j \in 1..(rowEnd - 1), NEW k \in rowEnd..Len(page)
                   PROVE  Heights(j, k)
      OBVIOUS
    <3>2. j < k /\ k \in rowBegin..Len(page)
          /\ (j \in 1..(rowBegin - 1) \/ j \in rowBegin..Len(page))
      BY <1>2, <3>1
    <3>3. QED
      BY <1>1, <3>1, <3>2 DEF SortedSoFar
  <2>6. \A j, k \in rowEnd..Len(page) : j < k => Heights(j, k)
    <3>1. rowEnd..Len(page) \subseteq rowBegin..Len(page)
      BY <1>2
    <3>2. QED
      BY <1>1, <3>1 DEF SortedSoFar
  <2>7. rowEnd \in 1..(Len(page) + 1) /\ begins \subseteq 1..rowEnd
    BY <1>2
  <2>8. SortedSoFar'
    BY <2>1, <2>4, <2>5, <2>6, <2>7, Unmoved DEF SortedSoFar
  <2>9. QED
    BY <2>3, <2>8 DEF OrderIInv
<1>5. QED
  BY <1>3, <1>4

\* ocr_postproc.c: for any number of boxes and any centres and heights, no valid
\* box is lost or doubled by the sorts, and the page is read row by row, each
\* row from left to right.
THEOREM PageIsInOrder == OrderSpec => []PageInOrder
<1>1. OrderInit => OrderIInv
  BY OrderStarts
<1>2. OrderIInv /\ [OrderNext]_orderVars => OrderIInv'
  <2>1. SUFFICES ASSUME OrderIInv, OrderNext \/ UNCHANGED orderVars
                 PROVE  OrderIInv'
    OBVIOUS
  <2>2. CASE UNCHANGED orderVars
    <3>1. UNCHANGED <<list, page, item, rowBegin, rowEnd, begins, orderPc>>
      BY <2>2 DEF orderVars, row
    <3>2. OrderTypes' /\ EachOnce'
      BY <2>1, <3>1 DEF OrderIInv, OrderTypes, EachOnce
    <3>3. SortedSoFar'
      BY <2>1, <3>1, Unmoved DEF OrderIInv, SortedSoFar
    <3>4. QED
      BY <3>2, <3>3 DEF OrderIInv
  <2>3. CASE OrderNext
    BY <2>1, <2>3, KeepSteps, YSteps, RowSteps, XSteps DEF OrderNext
  <2>4. QED
    BY <2>1, <2>2, <2>3
<1>3. OrderIInv => PageInOrder
  BY DEF OrderIInv, EachOnce, SortedSoFar, PageInOrder, Heights, Sides, Parted
<1>4. QED
  BY <1>1, <1>2, <1>3, PTL DEF OrderSpec

-----------------------------------------------------------------------------
(* The text of a line. *)

Signs == Glyphs \cup {Blank, Space}

CtcTypes ==
  /\ file \in Seq(Signs) /\ file # <<>> /\ IsInjective(file)
  /\ alphabet \in Alphabets(file) \cup Strangers(file)
  /\ Classes \in Nat
  /\ labels \in Seq(-1..(Classes - 1))
  /\ room \in Nat /\ step \in 1..(Len(labels) + 1)
  /\ ctcPc \in {"contract", "decode", "refused", "text", "EDOM", "ENOSPC"}

\* What configure_ctc_contract has found out: which class is the blank, and
\* that every other class is the token at its place of the dictionary.
ContractMet ==
  /\ alphabet \in Alphabets(file)
  /\ \A c \in 0..(Classes - 1) :
       IF c = blank THEN alphabet[c + 1] = Blank
       ELSE /\ alphabet[c + 1] # Blank
            /\ c + offset \in 0..(Len(vocab) - 1)
            /\ vocab[c + offset + 1] = alphabet[c + 1]

\* The steps so far have scores, and the text is what they say.
ReadSoFar ==
  /\ previous = IF step = 1 THEN -1 ELSE labels[step - 1]
  /\ \A i \in 1..(step - 1) : labels[i] # -1
  /\ Says(ctcText, step - 1) /\ Len(ctcText) <= room

CtcIInv ==
  /\ CtcTypes
  /\ ctcPc = "contract" => step = 1 /\ previous = -1 /\ ctcText = <<>>
  /\ ctcPc = "refused" => alphabet \notin Alphabets(file)
  /\ ctcPc \notin {"contract", "refused"} => ContractMet /\ ReadSoFar
  /\ ctcPc = "text" => step = Len(labels) + 1
  /\ ctcPc = "EDOM" => Contains(labels, -1)
  /\ ctcPc = "ENOSPC" => Cardinality(Spoken(step)) > room

\* How many steps speak: of more steps at least as many.
LEMMA SpokenCount ==
  ASSUME NEW n \in Nat
  PROVE  /\ Spoken(n) \subseteq 1..n /\ IsFiniteSet(Spoken(n))
         /\ Cardinality(Spoken(n)) \in Nat
         /\ \A i \in Spoken(n) : /\ Cardinality(Spoken(i)) \in 1..Cardinality(Spoken(n))
<1>1. \A m \in Nat : /\ Spoken(m) \subseteq 1..m /\ IsFiniteSet(Spoken(m))
                     /\ Cardinality(Spoken(m)) \in Nat
  <2>1. SUFFICES ASSUME NEW m \in Nat
                 PROVE  /\ Spoken(m) \subseteq 1..m /\ IsFiniteSet(Spoken(m))
                        /\ Cardinality(Spoken(m)) \in Nat
    OBVIOUS
  <2>2. Spoken(m) \subseteq 1..m
    BY DEF Spoken
  <2>3. IsFiniteSet(1..m)
    BY FS_Interval
  <2>4. IsFiniteSet(Spoken(m))
    BY <2>2, <2>3, FS_Subset
  <2>5. QED
    BY <2>2, <2>4, FS_CardinalityType
<1>2. ASSUME NEW i \in Spoken(n)
      PROVE  Cardinality(Spoken(i)) \in 1..Cardinality(Spoken(n))
  <2>1. i \in 1..n /\ i \in Nat
    BY <1>1
  <2>2. i \in Spoken(i) /\ Spoken(i) \subseteq Spoken(n)
    BY <2>1 DEF Spoken
  <2>3. Cardinality(Spoken(i)) <= Cardinality(Spoken(n))
    BY <1>1, <2>2, FS_Subset
  <2>4. Cardinality(Spoken(i)) # 0
    BY <1>1, <2>1, <2>2, FS_EmptySet
  <2>5. QED
    BY <1>1, <2>1, <2>3, <2>4
<1>3. QED
  BY <1>1, <1>2

\* One step more: it says something, or not.
LEMMA SpokenNext ==
  ASSUME NEW n \in Nat \ {0}
  PROVE  /\ Speaks(n) => /\ Spoken(n) = Spoken(n - 1) \cup {n}
                         /\ Cardinality(Spoken(n)) = Cardinality(Spoken(n - 1)) + 1
         /\ ~Speaks(n) => Spoken(n) = Spoken(n - 1)
<1>1. n - 1 \in Nat /\ 1..n = (1..(n - 1)) \cup {n} /\ n \notin 1..(n - 1)
  OBVIOUS
<1>2. Speaks(n) => Spoken(n) = Spoken(n - 1) \cup {n}
  BY <1>1 DEF Spoken
<1>3. ~Speaks(n) => Spoken(n) = Spoken(n - 1)
  BY <1>1 DEF Spoken
<1>4. IsFiniteSet(Spoken(n - 1)) /\ n \notin Spoken(n - 1)
  BY <1>1, SpokenCount
<1>5. Speaks(n) => Cardinality(Spoken(n)) = Cardinality(Spoken(n - 1)) + 1
  BY <1>2, <1>4, FS_AddElement
<1>6. QED
  BY <1>2, <1>3, <1>5

\* A stranger's alphabet has another length than the ones that are known.
LEMMA ConfigureMeets ==
  ASSUME CtcTypes, Configure
  PROVE  /\ ctcPc' \in {"decode", "refused"}
         /\ ctcPc' = "decode" => ContractMet'
         /\ ctcPc' = "refused" => alphabet \notin Alphabets(file)
<1>1. /\ file \in Seq(Signs) /\ Len(file) \in Nat /\ IsInjective(file)
      /\ alphabet \in Alphabets(file) \cup Strangers(file)
      /\ Blank # Space
      /\ UNCHANGED <<file, alphabet, labels, room>>
  BY CtcAssumption DEF CtcTypes, Configure, input
<1>2. Contains(file, Blank) <=> \E i \in 1..Len(file) : file[i] = Blank
  BY <1>1 DEF Contains
<1>3. Contains(file, Space) <=> \E i \in 1..Len(file) : file[i] = Space
  BY <1>1 DEF Contains
<1>4. CASE Contains(file, Blank) /\ alphabet = file
  <2>1. Classes = Len(file)
    BY <1>4 DEF Classes
  <2>2. VocabFor = file
    BY <1>1, <2>1 DEF VocabFor
  <2>3. /\ vocab' = file /\ offset' = 0 /\ ctcPc' = "decode"
        /\ blank' = (CHOOSE i \in 1..Len(file) : file[i] = Blank) - 1
    BY <1>1, <1>4, <2>1, <2>2 DEF Configure
  <2>4. /\ blank' + 1 \in 1..Len(file) /\ file[blank' + 1] = Blank
        /\ blank' \in Int
        /\ \E i \in 1..Len(file) : file[i] = Blank /\ blank' = i - 1
    <3> DEFINE k == CHOOSE i \in 1..Len(file) : file[i] = Blank
    <3>1. k \in 1..Len(file) /\ file[k] = Blank
      BY <1>2, <1>4
    <3> HIDE DEF k
    <3>2. blank' = k - 1
      BY <2>3 DEF k
    <3>3. QED
      BY <3>1, <3>2, <1>1
  <2>5. \A c \in 0..(Classes - 1) :
          IF c = blank' THEN alphabet[c + 1] = Blank
          ELSE /\ alphabet[c + 1] # Blank
               /\ c + offset' \in 0..(Len(vocab') - 1)
               /\ vocab'[c + offset' + 1] = alphabet[c + 1]
    <3>1. SUFFICES ASSUME NEW c \in 0..(Classes - 1), c # blank'
                   PROVE  file[c + 1] # Blank
      BY <1>1, <1>4, <2>1, <2>3, <2>4
    <3>2. c \in Int /\ c + 1 \in 1..Len(file)
      BY <1>1, <2>1
    <3>3. PICK k \in 1..Len(file) : file[k] = Blank /\ blank' = k - 1
      BY <2>4
    <3>7. blank' = k - 1
      BY <3>3
    <3>8. c # blank'
      BY <3>1
    <3>9. c # k - 1
      BY <3>7, <3>8
    <3>6. c + 1 # k
      BY <1>1, <3>2, <3>3, <3>9
    <3>4. \A i, j \in 1..Len(file) : file[i] = file[j] => i = j
      BY <1>1 DEF IsInjective
    <3>5. QED
      BY <3>2, <3>3, <3>4, <3>6
  <2>6. alphabet \in Alphabets(file)
    BY <1>4 DEF Alphabets
  <2>7. QED
    BY <1>1, <2>3, <2>5, <2>6 DEF ContractMet, Classes, Alphabets
<1>5. CASE ~Contains(file, Blank) /\ alphabet = <<Blank>> \o file
  <2>1. /\ Classes = Len(file) + 1 /\ alphabet[1] = Blank
        /\ \A i \in 1..Len(file) : alphabet[i + 1] = file[i]
    BY <1>1, <1>5 DEF Classes
  <2>2. VocabFor = file
    BY <1>1, <2>1 DEF VocabFor
  <2>3. vocab' = file /\ offset' = -1 /\ ctcPc' = "decode" /\ blank' = 0
    BY <1>1, <1>5, <2>1, <2>2 DEF Configure
  <2>5. \A c \in 0..(Classes - 1) :
          IF c = blank' THEN alphabet[c + 1] = Blank
          ELSE /\ alphabet[c + 1] # Blank
               /\ c + offset' \in 0..(Len(vocab') - 1)
               /\ vocab'[c + offset' + 1] = alphabet[c + 1]
    <3>1. SUFFICES ASSUME NEW c \in 0..(Classes - 1), c # 0
                   PROVE  /\ alphabet[c + 1] # Blank
                          /\ c + (-1) \in 0..(Len(file) - 1)
                          /\ file[c + (-1) + 1] = alphabet[c + 1]
      BY <2>1, <2>3
    <3>2. c \in 1..Len(file) /\ c + (-1) + 1 = c
      BY <1>1, <2>1, <3>1
    <3>3. QED
      BY <1>1, <1>2, <1>5, <2>1, <3>2
  <2>6. alphabet \in Alphabets(file)
    BY <1>5 DEF Alphabets
  <2>7. QED
    BY <1>1, <2>3, <2>5, <2>6 DEF ContractMet, Classes, Alphabets
<1>6. CASE /\ ~Contains(file, Blank) /\ ~Contains(file, Space)
           /\ alphabet = <<Blank>> \o file \o <<Space>>
  <2> DEFINE g == Append(file, Space)
  <2>0. /\ Len(g) = Len(file) + 1 /\ g[Len(file) + 1] = Space
        /\ \A i \in 1..Len(file) : g[i] = file[i]
    BY <1>1
  <2>1. /\ Classes = Len(file) + 2 /\ alphabet[1] = Blank
        /\ \A i \in 1..Len(file) : alphabet[i + 1] = file[i]
        /\ alphabet[Len(file) + 2] = Space
    BY <1>1, <1>6 DEF Classes
  <2>2. VocabFor = g
    BY <1>1, <1>6, <2>1 DEF VocabFor
  <2> HIDE DEF g
  <2>3. vocab' = g /\ offset' = -1 /\ ctcPc' = "decode" /\ blank' = 0
    BY <1>1, <1>6, <2>0, <2>1, <2>2 DEF Configure
  <2>5. \A c \in 0..(Classes - 1) :
          IF c = blank' THEN alphabet[c + 1] = Blank
          ELSE /\ alphabet[c + 1] # Blank
               /\ c + offset' \in 0..(Len(vocab') - 1)
               /\ vocab'[c + offset' + 1] = alphabet[c + 1]
    <3>1. SUFFICES ASSUME NEW c \in 0..(Classes - 1), c # 0
                   PROVE  /\ alphabet[c + 1] # Blank
                          /\ c + (-1) \in 0..(Len(g) - 1)
                          /\ g[c + (-1) + 1] = alphabet[c + 1]
      BY <2>1, <2>3
    <3>2. c \in 1..(Len(file) + 1) /\ c + (-1) + 1 = c
      BY <1>1, <2>1, <3>1
    <3>3. CASE c \in 1..Len(file)
      BY <1>1, <1>2, <1>6, <2>0, <2>1, <3>2, <3>3
    <3>4. CASE c = Len(file) + 1
      <4>1. alphabet[c + 1] = Space
        BY <1>1, <2>1, <3>4
      <4>2. QED
        BY <1>1, <2>0, <3>2, <3>4, <4>1
    <3>5. QED
      BY <1>1, <3>2, <3>3, <3>4
  <2>6. alphabet \in Alphabets(file)
    BY <1>6 DEF Alphabets
  <2>7. QED
    BY <1>1, <2>3, <2>5, <2>6 DEF ContractMet, Classes, Alphabets
<1>7. CASE alphabet \notin Alphabets(file)
  <2>1. \/ Classes = Len(file) + 3
        \/ Contains(file, Blank) /\ Classes = Len(file) + 1
        \/ ~Contains(file, Blank) /\ Classes = Len(file)
    BY <1>1, <1>7 DEF Strangers, Classes
  <2>2. VocabFor = file
    BY <1>1, <2>1 DEF VocabFor
  <2>3. ctcPc' = "refused"
    BY <1>1, <2>1, <2>2 DEF Configure
  <2>4. QED
    BY <1>7, <2>3
<1>8. QED
  BY <1>1, <1>4, <1>5, <1>6, <1>7 DEF Alphabets

\* The dictionary, the alphabet and the labels stay what they are.
LEMMA CtcStarts == ASSUME CtcInit PROVE CtcIInv
<1>1. file \in Seq(Signs) /\ file # <<>> /\ IsInjective(file)
  <2>1. file \in SeqOf(Signs, MaxFile) /\ file # <<>> /\ IsInjective(file)
    BY DEF CtcInit, Files, Signs
  <2>2. PICK n \in Nat : file \in [1..n -> Signs]
    BY <2>1, CtcAssumption DEF SeqOf
  <2>3. QED
    BY <2>1, <2>2
<1>2. alphabet \in Alphabets(file) \cup Strangers(file)
  BY DEF CtcInit
<1>3. Classes \in Nat
  <2>1. /\ alphabet = file \/ alphabet = <<Blank>> \o file
           \/ alphabet = <<Blank>> \o file \o <<Space>>
           \/ alphabet = file \o <<"x", "y", "z">> \/ alphabet = Append(file, "x")
    BY <1>2 DEF Alphabets, Strangers
  <2>2. \E S : alphabet \in Seq(S)
    <3>1. file \in Seq(Signs \cup {"x", "y", "z"})
      BY <1>1
    <3> DEFINE L == Signs \cup {"x", "y", "z"}
    <3>4. /\ <<Blank>> \in Seq(L) /\ <<Space>> \in Seq(L) /\ "x" \in L
          /\ <<"x", "y", "z">> \in Seq(L)
      BY DEF Signs
    <3> HIDE DEF L
    <3>5. <<Blank>> \o file \in Seq(L)
      BY <3>1, <3>4 DEF L
    <3>6. file \in Seq(L)
      BY <3>1 DEF L
    <3>7. /\ <<Blank>> \o file \o <<Space>> \in Seq(L)
          /\ file \o <<"x", "y", "z">> \in Seq(L)
          /\ Append(file, "x") \in Seq(L)
      BY <3>4, <3>5, <3>6
    <3>2. alphabet \in Seq(L)
      BY <2>1, <3>5, <3>6, <3>7
    <3>3. QED
      BY <3>2
  <2>3. QED
    BY <2>2 DEF Classes
<1>4. labels \in Seq(-1..(Classes - 1))
  <2> DEFINE L == -1..(Classes - 1)
  <2>1. labels \in SeqOf(L, MaxSteps)
    BY DEF CtcInit, Classes
  <2> HIDE DEF L
  <2>2. PICK n \in Nat : labels \in [1..n -> L]
    BY <2>1, CtcAssumption DEF SeqOf
  <2>3. labels \in Seq(L)
    BY <2>2
  <2>4. QED
    BY <2>3 DEF L
<1>5. room \in Nat /\ step = 1 /\ step \in 1..(Len(labels) + 1)
  BY <1>4, CtcAssumption DEF CtcInit
<1>6. QED
  BY <1>1, <1>2, <1>3, <1>4, <1>5 DEF CtcInit, CtcIInv, CtcTypes

\* One time step: its class is said, or is the blank or a repetition.
LEMMA DecodeSteps == ASSUME CtcIInv, DecodeStep PROVE CtcIInv'
<1>1. /\ ctcPc = "decode" /\ step <= Len(labels)
      /\ UNCHANGED <<file, alphabet, labels, room, vocab, blank, offset>>
      /\ UNCHANGED input
  BY DEF DecodeStep, input
<1>2. CtcTypes /\ ContractMet /\ ReadSoFar
  BY <1>1 DEF CtcIInv
<1>3. /\ labels \in Seq(-1..(Classes - 1)) /\ Len(labels) \in Nat
      /\ step \in 1..Len(labels) /\ step \in Nat \ {0} /\ step - 1 \in Nat
      /\ Classes \in Nat /\ room \in Nat
      /\ Best = labels[step] /\ Best \in -1..(Classes - 1)
  BY <1>1, <1>2 DEF CtcTypes, Best
<1>4. ContractMet'
  BY <1>1, <1>2 DEF ContractMet, Alphabets, Classes
<1>5. /\ Alphabets(file)' = Alphabets(file)
      /\ Strangers(file)' = Strangers(file)
      /\ Classes' = Classes
  BY <1>1 DEF Alphabets, Strangers, Classes
<1>6. CASE Best < 0
  <2>1. ctcPc' = "EDOM" /\ UNCHANGED <<ctcText, previous, step>>
    BY <1>1, <1>3, <1>6 DEF DecodeStep
  <2>2. Best = -1
    BY <1>3, <1>6
  <2>3. Contains(labels, -1)
    BY <1>3, <2>2 DEF Contains
  <2>4. ReadSoFar'
    BY <1>1, <1>2, <2>1 DEF ReadSoFar, Says, Spoken, Speaks
  <2>5. CtcTypes'
    BY <1>1, <1>2, <1>5, <2>1 DEF CtcTypes
  <2>6. Contains(labels, -1)'
    BY <1>1, <2>3 DEF Contains
  <2>7. QED
    BY <1>4, <2>1, <2>4, <2>5, <2>6 DEF CtcIInv
<1>7. CASE Best >= 0 /\ Best \in {blank, previous}
  <2>1. /\ previous' = Best /\ step' = step + 1 /\ UNCHANGED <<ctcText, ctcPc>>
    BY <1>1, <1>3, <1>7 DEF DecodeStep, Previous
  <2>2. ~Speaks(step)
    <3>1. CASE Best = blank
      <4>1. Best \in 0..(Classes - 1)
        BY <1>3, <1>7
      <4>2. alphabet[labels[step] + 1] = Blank
        BY <1>2, <1>3, <3>1, <4>1 DEF ContractMet
      <4>3. QED
        BY <4>2 DEF Speaks
    <3>2. CASE Best = previous
      <4>1. step # 1
        BY <1>2, <1>7, <3>2 DEF ReadSoFar
      <4>2. labels[step] = labels[step - 1] /\ step > 1
        BY <1>2, <1>3, <3>2, <4>1 DEF ReadSoFar
      <4>3. QED
        BY <4>2 DEF Speaks
    <3>3. QED
      BY <1>7, <3>1, <3>2
  <2>3. Spoken(step) = Spoken(step - 1)
    BY <1>3, <2>2, SpokenNext
  <2>4. Says(ctcText, step)
    BY <1>2, <2>3 DEF ReadSoFar, Says
  <2>5. /\ step' \in 1..(Len(labels) + 1) /\ step' - 1 = step /\ step' # 1
        /\ \A i \in 1..step : labels[i] # -1
    BY <1>2, <1>3, <1>7, <2>1 DEF ReadSoFar
  <2>6. ReadSoFar'
    BY <1>1, <1>2, <1>3, <2>1, <2>4, <2>5 DEF ReadSoFar, Says, Spoken, Speaks
  <2>7. CtcTypes'
    BY <1>1, <1>2, <1>5, <2>1, <2>5 DEF CtcTypes
  <2>8. QED
    BY <1>1, <1>4, <2>1, <2>6, <2>7 DEF CtcIInv
<1>8. CASE Best >= 0 /\ Best \notin {blank, previous}
  <2> DEFINE id == Best + offset
  <2>0. /\ Best \in 0..(Classes - 1) /\ Best # blank
    BY <1>3, <1>8
  <2>1. /\ id \in 0..(Len(vocab) - 1)
        /\ vocab[id + 1] = alphabet[labels[step] + 1]
        /\ alphabet[labels[step] + 1] # Blank
    BY <1>2, <1>3, <2>0 DEF ContractMet
  <2>2. Speaks(step)
    <3>1. step > 1 => labels[step] # labels[step - 1]
      BY <1>2, <1>3, <1>8 DEF ReadSoFar
    <3>2. QED
      BY <2>1, <3>1 DEF Speaks
  <2>3. /\ Spoken(step) = Spoken(step - 1) \cup {step}
        /\ Cardinality(Spoken(step)) = Cardinality(Spoken(step - 1)) + 1
    BY <1>3, <2>2, SpokenNext
  <2>4. /\ Len(ctcText) = Cardinality(Spoken(step - 1)) /\ Len(ctcText) \in Nat
        /\ Len(ctcText) <= room
        /\ \A i \in Spoken(step - 1) :
             /\ ctcText[Cardinality(Spoken(i))] = alphabet[labels[i] + 1]
             /\ Cardinality(Spoken(i)) \in 1..Len(ctcText)
    BY <1>2, <1>3, SpokenCount DEF ReadSoFar, Says
  <2>5. CASE Len(ctcText) >= room
    <3>1. ctcPc' = "ENOSPC" /\ UNCHANGED <<ctcText, previous, step>>
      <4>1. ~(Best < 0) /\ ~(Best >= 0 /\ Best \in {blank, previous})
        BY <1>3, <1>8
      <4>2. QED
        BY <1>1, <2>1, <2>5, <4>1 DEF DecodeStep
    <3>2. Cardinality(Spoken(step)) > room
      BY <1>3, <2>3, <2>4, <2>5
    <3>3. (Cardinality(Spoken(step)) > room)'
      BY <1>1, <3>1, <3>2 DEF Spoken, Speaks
    <3>4. ReadSoFar'
      BY <1>1, <1>2, <3>1 DEF ReadSoFar, Says, Spoken, Speaks
    <3>5. CtcTypes'
      BY <1>1, <1>2, <1>5, <3>1 DEF CtcTypes
    <3>6. QED
      BY <1>4, <3>1, <3>3, <3>4, <3>5 DEF CtcIInv
  <2>6. CASE ~(Len(ctcText) >= room)
    <3>1. /\ ctcText' = Append(ctcText, vocab[id + 1])
          /\ previous' = Best /\ step' = step + 1 /\ UNCHANGED ctcPc
      <4>1. ~(Best < 0) /\ ~(Best >= 0 /\ Best \in {blank, previous})
        BY <1>3, <1>8
      <4>2. QED
        BY <1>1, <2>1, <2>6, <4>1 DEF DecodeStep, Previous
    <3>2. /\ Len(ctcText') = Len(ctcText) + 1
          /\ \A i \in 1..Len(ctcText) : ctcText'[i] = ctcText[i]
          /\ ctcText'[Len(ctcText) + 1] = alphabet[labels[step] + 1]
      BY <2>1, <2>4, <3>1
    <3>3. Says(ctcText', step)
      BY <2>3, <2>4, <3>2 DEF Says
    <3>4. /\ step' \in 1..(Len(labels) + 1) /\ step' - 1 = step /\ step' # 1
          /\ \A i \in 1..step : labels[i] # -1
      BY <1>2, <1>3, <1>8, <3>1 DEF ReadSoFar
    <3>5. Len(ctcText') <= room
      BY <1>3, <2>4, <2>6, <3>2
    <3>6. ReadSoFar'
      BY <1>1, <1>2, <1>3, <3>1, <3>3, <3>4, <3>5
         DEF ReadSoFar, Says, Spoken, Speaks
    <3>7. CtcTypes'
      BY <1>1, <1>2, <1>5, <3>1, <3>4 DEF CtcTypes
    <3>8. QED
      BY <1>1, <1>4, <3>1, <3>6, <3>7 DEF CtcIInv
  <2>7. QED
    BY <2>5, <2>6
<1>9. QED
  BY <1>3, <1>6, <1>7, <1>8

\* ocr_rec.c: for every dictionary, alphabet, labelling and room, the text is
\* what the labels mean in the alphabet of the model, a model is refused when
\* its number of classes fits no known form of the dictionary, and no class is
\* ever looked up outside of it.
THEOREM TextIsMeant == CtcSpec => []TextMeant
<1>1. CtcInit => CtcIInv
  BY CtcStarts
<1>2. CtcIInv /\ [CtcNext]_ctcVars => CtcIInv'
  <2>1. ASSUME CtcIInv, UNCHANGED ctcVars PROVE CtcIInv'
    BY <2>1 DEF ctcVars, input, CtcIInv, CtcTypes, ContractMet, ReadSoFar, Says,
                Spoken, Speaks, Alphabets, Strangers, Classes, Contains
  <2>2. ASSUME CtcIInv, EndOfLine PROVE CtcIInv'
    <3>1. step = Len(labels) + 1
      BY <2>2 DEF EndOfLine, CtcIInv, CtcTypes
    <3>2. /\ ctcPc = "decode" /\ ctcPc' = "text"
          /\ UNCHANGED <<file, alphabet, labels, room, vocab, blank, offset,
                         step, previous, ctcText>>
      BY <2>2 DEF EndOfLine, input
    <3>3. CtcTypes'
      BY <2>2, <3>2 DEF CtcIInv, CtcTypes, Classes, Alphabets, Strangers
    <3>4. ContractMet'
      BY <2>2, <3>2 DEF CtcIInv, ContractMet, Classes, Alphabets
    <3>5. ReadSoFar'
      BY <2>2, <3>2 DEF CtcIInv, ReadSoFar, Says, Spoken, Speaks
    <3>6. QED
      BY <3>1, <3>2, <3>3, <3>4, <3>5 DEF CtcIInv
  <2>3. ASSUME CtcIInv, Configure PROVE CtcIInv'
    <3>1. /\ ctcPc' \in {"decode", "refused"}
          /\ ctcPc' = "decode" => ContractMet'
          /\ ctcPc' = "refused" => alphabet \notin Alphabets(file)
      BY <2>3, ConfigureMeets DEF CtcIInv
    <3>2. /\ ctcPc = "contract" /\ step = 1 /\ previous = -1 /\ ctcText = <<>>
          /\ UNCHANGED <<file, alphabet, labels, room, step, previous, ctcText>>
      BY <2>3 DEF Configure, CtcIInv, input
    <3>3. CtcTypes'
      BY <2>3, <3>1, <3>2 DEF CtcIInv, CtcTypes, Classes, Alphabets, Strangers
    <3>4. ReadSoFar'
      <4>1. Spoken(0) = {} /\ Cardinality(Spoken(0)) = 0
        BY SpokenCount, FS_EmptySet
      <4>2. Says(<<>>, 0) /\ room \in Nat
        BY <2>3, <4>1 DEF Says, CtcIInv, CtcTypes
      <4>3. QED
        BY <3>2, <4>2 DEF ReadSoFar, Says, Spoken, Speaks
    <3>5. QED
      BY <3>1, <3>2, <3>3, <3>4 DEF CtcIInv, Alphabets
  <2>4. QED
    BY <2>1, <2>2, <2>3, DecodeSteps DEF CtcNext
<1>3. CtcIInv => TextMeant
  <2>1. SUFFICES ASSUME CtcIInv PROVE TextMeant
    OBVIOUS
  <2>2. ctcPc = "text" => Says(ctcText, Len(labels))
    <3>1. ctcPc = "text" => step - 1 = Len(labels)
      BY <2>1 DEF CtcIInv, CtcTypes
    <3>2. QED
      BY <2>1, <3>1 DEF CtcIInv, ReadSoFar
  <2>3. QED
    BY <2>1, <2>2 DEF CtcIInv, CtcTypes, ContractMet, TextMeant
<1>4. QED
  BY <1>1, <1>2, <1>3, PTL DEF CtcSpec

-----------------------------------------------------------------------------
(* The tokeniser: the entries of the array and the text they stand for. *)

Ids == Pieces \cup {Bos, Eos, Unk}
Cuts == [from : Nat, to : Nat]

TokTypes ==
  /\ kind \in {"wordpiece", "bpe"}
  /\ hasBos \in BOOLEAN /\ hasEos \in BOOLEAN
  /\ tokRoom \in Nat \ {0} /\ text \in Seq(Chars)
  /\ pos \in Nat \ {0} /\ wordStart \in BOOLEAN
  /\ tokIds \in Seq(Ids) /\ cover \in Seq(Cuts)
  /\ span \in [from : Nat, to : Nat, ids : Nat]
  /\ tokPc \in {"words", "span", "ended", "done"}

\* The array behind BOS is what was taken so far.
Filled ==
  /\ Len(tokIds) = One(hasBos) + Len(cover) /\ Len(tokIds) <= Payload
  /\ hasBos => tokIds[1] = Bos
  /\ \A k \in 1..Len(cover) : StandsFor(Entry(k), cover[k], EndOf(k - 1))

\* Between what was taken and the position there are only gaps.
Reached(n, i) == EndOf(n) < i /\ OnlyGaps(EndOf(n) + 1, i - 1)

\* A word of the text: no gap, all of it and nothing more.
WholeWord(i, j) ==
  /\ 1 <= i /\ i <= j /\ j <= Len(text)
  /\ \A k \in i..j : text[k] # Gap
  /\ \A k \in (i + 1)..j : InWord(k)
  /\ ~InWord(i) /\ ~InWord(j + 1)

\* Within a word: what was taken before it, and that the word is no piece once
\* a part of it was taken.
BeforeSpan == span.ids - One(hasBos)
SpanKnown ==
  /\ kind = "wordpiece" /\ WholeWord(span.from, span.to)
  /\ pos \in span.from..span.to
  /\ BeforeSpan \in 0..Len(cover) /\ span.ids < Payload
  /\ Reached(BeforeSpan, span.from)
  /\ pos # span.from =>
       [mark |-> FALSE, text |-> SubSeq(text, span.from, span.to)] \notin Pieces

\* Where a word may begin.
Starts ==
  /\ kind = "wordpiece" /\ tokPc = "words" => ~InWord(pos)
  /\ kind = "bpe" =>
       /\ tokPc \in {"words", "done"}
       /\ tokPc = "words" =>
            (wordStart <=> ~(pos > 1 /\ pos = EndOf(Len(cover)) + 1))

TokIInv ==
  /\ TokTypes
  /\ tokPc # "done" => Filled /\ Reached(Len(cover), pos)
  /\ Starts
  /\ tokPc = "span" => SpanKnown
  /\ tokPc = "ended" => Full
  /\ TokensKept

\* The words of the assumption, with the lengths they give.
LEMMA PieceTypes ==
  ASSUME NEW p \in Pieces
  PROVE  /\ p.mark \in BOOLEAN
         /\ p.text \in Seq(Chars) /\ Len(p.text) \in Nat \ {0}
<1>1. p.mark \in BOOLEAN /\ p.text \in Seq(Chars) /\ p.text # <<>>
  BY TokAssumption
<1>2. QED
  BY <1>1, EmptySeq

\* The entry a special token takes.
LEMMA Ones == ASSUME NEW STATE b, b \in BOOLEAN PROVE One(b) \in 0..1
BY DEF One

\* The room for the text lies within the array, behind BOS.
LEMMA PayloadIsNat == ASSUME TokTypes PROVE Payload \in One(hasBos)..tokRoom
<1>1. /\ One(hasBos) \in 0..1 /\ One(hasEos) \in 0..1
      /\ tokRoom \in Nat /\ tokRoom >= 1
  BY Ones DEF TokTypes
<1>2. QED
  BY <1>1 DEF Payload

\* The longest piece exists where the lengths are bounded.
LEMMA LongestIsBest ==
  ASSUME NEW STATE S, S \subseteq Pieces, S # {},
         NEW STATE b, b \in Nat, \A p \in S : Len(p.text) <= b
  PROVE  Longest(S) \in S /\ \A q \in S : Better(Longest(S), q)
<1> DEFINE T == {b - Len(p.text) : p \in S}
<1>1. \A p \in S : Len(p.text) \in Nat /\ p.mark \in BOOLEAN
  BY PieceTypes
<1>2. T \subseteq Nat /\ T # {}
  BY <1>1
<1>3. PICK t \in T : \A u \in T : t <= u
  BY <1>2, Least
<1>4. PICK p \in S : t = b - Len(p.text)
  BY <1>3
<1>5. \A q \in S : Len(q.text) <= Len(p.text)
  <2>1. SUFFICES ASSUME NEW q \in S PROVE Len(q.text) <= Len(p.text)
    OBVIOUS
  <2>2. b - Len(q.text) \in T
    OBVIOUS
  <2>3. b - Len(p.text) <= b - Len(q.text)
    BY <1>3, <1>4, <2>2
  <2>4. Len(q.text) \in Nat /\ Len(p.text) \in Nat
    BY <1>1
  <2>5. QED
    BY <2>3, <2>4
<1>6. \E r \in S : \A q \in S : Better(r, q)
  <2>1. CASE \E r \in S : Len(r.text) = Len(p.text) /\ r.mark
    <3>1. PICK r \in S : Len(r.text) = Len(p.text) /\ r.mark
      BY <2>1
    <3>2. \A q \in S : Better(r, q)
      BY <1>1, <1>5, <3>1 DEF Better
    <3>3. QED
      BY <3>2
  <2>2. CASE ~\E r \in S : Len(r.text) = Len(p.text) /\ r.mark
    <3>1. \A q \in S : Better(p, q)
      BY <1>1, <1>5, <2>2 DEF Better
    <3>2. QED
      BY <3>1
  <2>3. QED
    BY <2>1, <2>2
<1>7. QED
  BY <1>6 DEF Longest

\* A word that is opened is a whole one.
LEMMA SpanIsWord ==
  ASSUME TokTypes, pos <= Len(text), text[pos] # Gap, ~InWord(pos)
  PROVE  /\ SpanEnd(pos) \in pos..Len(text)
         /\ WholeWord(pos, SpanEnd(pos))
<1>0. /\ Len(text) \in Nat /\ pos \in 1..Len(text)
      /\ \A k \in 1..Len(text) : text[k] \in Chars
  BY DEF TokTypes
<1>1. CASE text[pos] \in Alone
  <2>1. SpanEnd(pos) = pos
    BY <1>1 DEF SpanEnd
  <2>2. text[pos] \notin Letters
    BY <1>1, TokAssumption
  <2>3. ~InWord(pos + 1)
    BY <1>0, <2>2 DEF InWord
  <2>4. QED
    BY <1>0, <2>1, <2>3 DEF WholeWord
<1>2. CASE text[pos] \notin Alone
  <2> DEFINE N == Len(text)
             T == {j \in pos..N : j < N => text[j + 1] \notin Letters}
             Ends(j) == /\ \A k \in pos..j : text[k] \in Letters
                        /\ j < N => text[j + 1] \notin Letters
  <2>1. text[pos] \in Letters
    BY <1>0, <1>2 DEF Chars
  <2>2. T \subseteq Nat /\ N \in T
    BY <1>0
  <2>3. PICK t \in T : \A u \in T : t <= u
    BY <2>2, Least
  <2>4. \A k \in pos..t : text[k] \in Letters
    <3>1. SUFFICES ASSUME NEW k \in pos..t, k # pos
                   PROVE  text[k] \in Letters
      BY <2>1
    <3>2. k - 1 \in pos..N /\ k - 1 < t /\ k - 1 < N
      BY <1>0, <3>1
    <3>3. k - 1 \notin T
      BY <1>0, <2>3, <3>2
    <3>4. text[(k - 1) + 1] \in Letters
      BY <3>2, <3>3
    <3>5. QED
      BY <3>1, <3>4, <1>0
  <2>5. t \in pos..N /\ Ends(t)
    BY <2>3, <2>4
  <2>6. SpanEnd(pos) = CHOOSE j \in pos..N : Ends(j)
    BY <1>2 DEF SpanEnd
  <2>7. SpanEnd(pos) \in pos..N /\ Ends(SpanEnd(pos))
    BY <2>5, <2>6
  <2>8. \A k \in (pos + 1)..SpanEnd(pos) : InWord(k)
    <3>1. SUFFICES ASSUME NEW k \in (pos + 1)..SpanEnd(pos)
                   PROVE  InWord(k)
      OBVIOUS
    <3>2. k \in 2..N /\ k \in pos..SpanEnd(pos) /\ k - 1 \in pos..SpanEnd(pos)
      BY <1>0, <2>7
    <3>3. QED
      BY <2>7, <3>2 DEF InWord
  <2>9. ~InWord(SpanEnd(pos) + 1)
    <3>1. SUFFICES ASSUME InWord(SpanEnd(pos) + 1) PROVE FALSE
      OBVIOUS
    <3>2. /\ SpanEnd(pos) + 1 \in 2..N
          /\ text[SpanEnd(pos) + 1] \in Letters
      BY <3>1 DEF InWord
    <3>3. QED
      BY <1>0, <2>7, <3>2
  <2>10. \A k \in pos..SpanEnd(pos) : text[k] # Gap
    BY <2>7, TokAssumption
  <2>11. QED
    BY <1>0, <2>7, <2>8, <2>9, <2>10 DEF WholeWord
<1>3. QED
  BY <1>1, <1>2

\* What an entry stands for depends on the text only.
LEMMA Stands ==
  ASSUME UNCHANGED request, NEW k \in Nat \ {0}, NEW id, NEW c, NEW e,
         StandsFor(id, c, e),
         Entry(k)' = id, cover'[k] = c, EndOf(k - 1)' = e
  PROVE  StandsFor(Entry(k), cover[k], EndOf(k - 1))'
BY DEF request, StandsFor, Matches, OnlyGaps, InWord

\* What is taken stays taken while array and text are left alone.
LEMMA StillFilled ==
  ASSUME Filled, UNCHANGED <<request, tokIds, cover>>, TokTypes
  PROVE  Filled'
<1>1. /\ One(hasBos)' = One(hasBos) /\ Payload' = Payload
      /\ hasBos' = hasBos /\ tokIds' = tokIds /\ cover' = cover
  BY DEF request, One, Payload
<1>2. \A k \in 1..Len(cover) : StandsFor(Entry(k), cover[k], EndOf(k - 1))'
  <2>1. SUFFICES ASSUME NEW k \in 1..Len(cover)
                 PROVE  StandsFor(Entry(k), cover[k], EndOf(k - 1))'
    OBVIOUS
  <2>2. PICK i, r, e : i = Entry(k) /\ r = cover[k] /\ e = EndOf(k - 1)
    OBVIOUS
  <2>3. Entry(k)' = i /\ cover'[k] = r /\ EndOf(k - 1)' = e
    BY <1>1, <2>2 DEF Entry, EndOf
  <2>4. StandsFor(i, r, e) /\ k \in Nat \ {0}
    BY <2>1, <2>2 DEF Filled, TokTypes
  <2>5. QED
    BY <2>3, <2>4, Stands
<1>3. QED
  BY <1>1, <1>2 DEF Filled

\* Where an entry's text ends is a number.
LEMMA Ends ==
  ASSUME TokTypes, NEW STATE n, n \in 0..Len(cover)
  PROVE  EndOf(n) \in Nat
<1>1. Len(cover) \in Nat /\ cover \in Seq(Cuts)
  BY DEF TokTypes
<1>2. n # 0 => cover[n] \in Cuts
  BY <1>1, ElementOfSeq
<1>3. QED
  BY <1>2 DEF EndOf, Cuts

\* After the first m parts of the text another one is taken.
LEMMA Adding ==
  ASSUME TokTypes, Filled, UNCHANGED request,
         NEW m \in 0..Len(cover), NEW id \in Ids,
         NEW c \in Cuts, StandsFor(id, c, EndOf(m)),
         One(hasBos) + m < Payload,
         tokIds' = Append(SubSeq(tokIds, 1, One(hasBos) + m), id),
         cover' = Append(SubSeq(cover, 1, m), c)
  PROVE  /\ tokIds' \in Seq(Ids) /\ cover' \in Seq(Cuts)
         /\ Filled' /\ Len(cover') = m + 1 /\ EndOf(Len(cover))' = c.to
<1> DEFINE b == One(hasBos)
           s == SubSeq(tokIds, 1, b + m)
           d == SubSeq(cover, 1, m)
<1>1. /\ b \in 0..1 /\ Len(tokIds) = b + Len(cover) /\ Len(cover) \in Nat
      /\ hasBos \in BOOLEAN /\ hasBos => b = 1
  BY Ones DEF TokTypes, Filled, One
<1> HIDE DEF b
<1>2. /\ s \in Seq(Ids) /\ Len(s) = b + m
      /\ \A i \in 1..(b + m) : s[i] = tokIds[i]
  <2>1. PICK n \in Int : n = b + m
    BY <1>1
  <2>2. \A i \in 1..n : tokIds[i] \in Ids
    <3>1. tokIds \in Seq(Ids)
      BY DEF TokTypes
    <3>2. 1..n \subseteq 1..Len(tokIds)
      BY <1>1, <2>1
    <3>3. QED
      BY <3>1, <3>2, ElementOfSeq
  <2>3. /\ SubSeq(tokIds, 1, n) \in Seq(Ids)
        /\ Len(SubSeq(tokIds, 1, n)) = IF 1 <= n THEN n - 1 + 1 ELSE 0
        /\ \A i \in 1..(n - 1 + 1) : SubSeq(tokIds, 1, n)[i] = tokIds[1 + i - 1]
    BY <2>2, SubSeqProperties
  <2>4. s = SubSeq(tokIds, 1, n) /\ n >= 0
    BY <1>1, <2>1
  <2>5. QED
    BY <2>1, <2>3, <2>4
<1>3. /\ d \in Seq(Cuts) /\ Len(d) = m
      /\ \A i \in 1..m : d[i] = cover[i]
  <2>1. \A i \in 1..m : cover[i] \in Cuts
    <3>1. cover \in Seq(Cuts)
      BY DEF TokTypes
    <3>2. 1..m \subseteq 1..Len(cover)
      BY <1>1
    <3>3. QED
      BY <3>1, <3>2, ElementOfSeq
  <2>2. m \in Int /\ m >= 0
    BY <1>1
  <2>3. /\ SubSeq(cover, 1, m) \in Seq(Cuts)
        /\ Len(SubSeq(cover, 1, m)) = IF 1 <= m THEN m - 1 + 1 ELSE 0
        /\ \A i \in 1..(m - 1 + 1) : SubSeq(cover, 1, m)[i] = cover[1 + i - 1]
    BY <2>1, <2>2, SubSeqProperties
  <2>4. QED
    BY <2>2, <2>3
<1> HIDE DEF s, d
<1>4. tokIds' = Append(s, id) /\ cover' = Append(d, c)
  BY DEF s, d, b
<1>5. /\ tokIds' \in Seq(Ids) /\ Len(tokIds') = b + m + 1
      /\ \A i \in 1..(b + m) : tokIds'[i] = tokIds[i]
      /\ tokIds'[b + m + 1] = id
  <2>1. b + m \in Nat
    BY <1>1
  <2>2. /\ Append(s, id) \in Seq(Ids)
        /\ Len(Append(s, id)) = Len(s) + 1
        /\ \A i \in 1..Len(s) : Append(s, id)[i] = s[i]
        /\ Append(s, id)[Len(s) + 1] = id
    BY <1>2, AppendProperties
  <2>3. QED
    BY <1>2, <1>4, <2>1, <2>2
<1>6. /\ cover' \in Seq(Cuts) /\ Len(cover') = m + 1
      /\ \A i \in 1..m : cover'[i] = cover[i]
      /\ cover'[m + 1] = c
  BY <1>3, <1>4, AppendProperties
<1>7. One(hasBos)' = b /\ Payload' = Payload /\ hasBos' = hasBos
  BY DEF request, One, Payload, b
<1>8. \A k \in 1..(m + 1) : Entry(k)' = IF k = m + 1 THEN id ELSE Entry(k)
  <2>1. SUFFICES ASSUME NEW k \in 1..(m + 1)
                 PROVE  Entry(k)' = IF k = m + 1 THEN id ELSE Entry(k)
    OBVIOUS
  <2>2. Entry(k)' = tokIds'[b + k] /\ Entry(k) = tokIds[b + k]
    BY <1>7 DEF Entry, b
  <2>3. k # m + 1 => b + k \in 1..(b + m)
    BY <1>1
  <2>4. k = m + 1 => b + k = b + m + 1
    BY <1>1
  <2>5. QED
    BY <1>5, <2>2, <2>3, <2>4
<1>9. \A k \in 0..m : EndOf(k)' = EndOf(k)
  BY <1>6 DEF EndOf
<1>10. \A k \in 1..(m + 1) : StandsFor(Entry(k), cover[k], EndOf(k - 1))'
  <2>1. SUFFICES ASSUME NEW k \in 1..(m + 1)
                 PROVE  StandsFor(Entry(k), cover[k], EndOf(k - 1))'
    OBVIOUS
  <2>2. k \in Nat \ {0} /\ k - 1 \in 0..m
    OBVIOUS
  <2>3. CASE k = m + 1
    <3>1. PICK e : e = EndOf(m)
      OBVIOUS
    <3>2. Entry(k)' = id /\ cover'[k] = c /\ EndOf(k - 1)' = e
      BY <1>6, <1>8, <1>9, <2>2, <2>3, <3>1
    <3>3. StandsFor(id, c, e)
      BY <3>1
    <3>4. QED
      BY <2>2, <3>2, <3>3, Stands
  <2>4. CASE k # m + 1
    <3>1. k \in 1..m /\ k \in 1..Len(cover)
      BY <1>1, <2>4
    <3>2. PICK i, r, e : i = Entry(k) /\ r = cover[k] /\ e = EndOf(k - 1)
      OBVIOUS
    <3>3. Entry(k)' = i /\ cover'[k] = r /\ EndOf(k - 1)' = e
      BY <1>6, <1>8, <1>9, <2>2, <2>4, <3>1, <3>2
    <3>4. StandsFor(i, r, e)
      BY <3>1, <3>2 DEF Filled
    <3>5. QED
      BY <2>2, <3>3, <3>4, Stands
  <2>5. QED
    BY <2>3, <2>4
<1>11. Filled'
  <2>1. Len(tokIds') = One(hasBos)' + Len(cover') /\ Len(tokIds') <= Payload'
    <3>1. Payload \in Int /\ b + m < Payload
      BY PayloadIsNat, <1>1 DEF b
    <3>2. QED
      BY <1>1, <1>5, <1>6, <1>7, <3>1
  <2>2. hasBos' => tokIds'[1] = Bos
    <3>1. SUFFICES ASSUME hasBos PROVE tokIds'[1] = Bos
      BY <1>7
    <3>2. b = 1 /\ tokIds[1] = Bos
      BY <1>1, <3>1 DEF Filled
    <3>3. QED
      BY <1>5, <3>2
  <2>3. QED
    BY <1>6, <1>10, <2>1, <2>2 DEF Filled
<1>12. EndOf(Len(cover))' = c.to
  BY <1>6 DEF EndOf
<1>13. QED
  BY <1>5, <1>6, <1>11, <1>12

\* At first nothing is taken and nothing is left out.
LEMMA TokStarts == TokInit => TokIInv
<1> SUFFICES ASSUME TokInit PROVE TokIInv
  OBVIOUS
<1> USE DEF TokInit
<1>1. TokTypes
  <2>1. text \in Seq(Chars)
    BY TokAssumption
  <2>2. tokIds \in Seq(Ids)
    <3>1. Bos \in Ids
      BY DEF Ids
    <3>2. QED
      BY <3>1
  <2>3. tokRoom \in Nat \ {0}
    BY TokAssumption
  <2>4. QED
    BY <2>1, <2>2, <2>3 DEF TokTypes
<1>2. Filled
  <2>1. Len(tokIds) = One(hasBos) /\ Len(cover) = 0
    BY DEF One
  <2>2. /\ Payload \in One(hasBos)..tokRoom /\ One(hasBos) \in 0..1
        /\ tokRoom \in Nat
    BY <1>1, PayloadIsNat, Ones DEF TokTypes
  <2>3. QED
    BY <2>1, <2>2 DEF Filled
<1>3. Reached(Len(cover), pos)
  BY DEF Reached, EndOf, OnlyGaps
<1>4. Starts
  BY DEF Starts, InWord
<1>5. QED
  BY <1>1, <1>2, <1>3, <1>4 DEF TokIInv, TokensKept

\* One lemma for each step.
LEMMA SkipSteps == TokIInv /\ SkipGap => TokIInv'
<1> SUFFICES ASSUME TokIInv, SkipGap PROVE TokIInv'
  OBVIOUS
<1> USE DEF SkipGap, AtText
<1>1. /\ tokPc = "words" /\ pos <= Len(text) /\ text[pos] = Gap
      /\ UNCHANGED <<request, tokIds, span, tokPc, cover>>
      /\ TokTypes /\ Filled /\ Reached(Len(cover), pos) /\ Starts
  BY DEF TokIInv
<1>2. pos' = pos + 1 /\ pos \in Nat \ {0} /\ wordStart'
  BY <1>1 DEF TokTypes
<1>3. TokTypes'
  BY <1>1, <1>2 DEF TokTypes, request
<1>4. Filled'
  BY <1>1, StillFilled
<1>5. EndOf(Len(cover)) \in Nat
  BY <1>1, Ends
<1>6. EndOf(Len(cover))' = EndOf(Len(cover))
  BY <1>1 DEF EndOf
<1>7. Reached(Len(cover), pos)'
  BY <1>1, <1>2, <1>5, <1>6 DEF Reached, OnlyGaps, request
<1>8. Starts'
  <2>1. ~InWord(pos)'
    BY <1>1, <1>2, TokAssumption DEF InWord, request
  <2>2. ~(pos' = EndOf(Len(cover))' + 1)
    BY <1>1, <1>2, <1>5, <1>6 DEF Reached
  <2>3. QED
    BY <1>1, <1>2, <2>1, <2>2 DEF Starts, request
<1>9. QED
  BY <1>1, <1>3, <1>4, <1>7, <1>8 DEF TokIInv, TokensKept

LEMMA OpenSteps == TokIInv /\ OpenSpan => TokIInv'
<1> SUFFICES ASSUME TokIInv, OpenSpan PROVE TokIInv'
  OBVIOUS
<1>1. /\ kind = "wordpiece" /\ tokPc = "words" /\ pos <= Len(text)
      /\ text[pos] # Gap /\ ~Full
      /\ span' = [from |-> pos, to |-> SpanEnd(pos), ids |-> Len(tokIds)]
      /\ tokPc' = "span"
      /\ UNCHANGED <<request, pos, tokIds, wordStart, cover>>
      /\ TokTypes /\ Filled /\ Reached(Len(cover), pos) /\ ~InWord(pos)
  BY DEF OpenSpan, AtText, TokIInv, Starts
<1>2. SpanEnd(pos) \in pos..Len(text) /\ WholeWord(pos, SpanEnd(pos))
  BY <1>1, SpanIsWord
<1>3. /\ pos \in Nat \ {0} /\ SpanEnd(pos) \in Nat /\ Len(tokIds) \in Nat
      /\ Len(cover) \in Nat /\ One(hasBos) \in 0..1
  BY <1>1, <1>2, Ones DEF TokTypes
<1>4. TokTypes'
  BY <1>1, <1>3 DEF TokTypes, request
<1>5. Filled'
  BY <1>1, StillFilled
<1>6. Reached(Len(cover), pos)'
  BY <1>1 DEF Reached, EndOf, OnlyGaps, request
<1>7. Starts'
  BY <1>1 DEF Starts, request
<1>8. SpanKnown'
  <2>1. /\ span.from' = pos /\ span.to' = SpanEnd(pos)
        /\ span.ids' = Len(tokIds)
    BY <1>1
  <2>2. WholeWord(span.from, span.to)'
    BY <1>1, <1>2, <2>1 DEF WholeWord, InWord, request
  <2>3. BeforeSpan' = Len(cover)
    BY <1>1, <1>3, <2>1 DEF BeforeSpan, Filled, One, request
  <2>4. span.ids' < Payload'
    <3>1. Payload' = Payload /\ Payload \in Int
      BY <1>1, <1>3, PayloadIsNat DEF Payload, One, request
    <3>2. QED
      BY <1>1, <1>3, <2>1, <3>1 DEF Full
  <2>5. Reached(BeforeSpan, span.from)'
    BY <1>1, <2>1, <2>3 DEF Reached, EndOf, OnlyGaps, request
  <2>6. QED
    BY <1>1, <1>2, <1>3, <2>1, <2>2, <2>3, <2>4, <2>5 DEF SpanKnown, request
<1>9. QED
  BY <1>1, <1>4, <1>5, <1>6, <1>7, <1>8 DEF TokIInv, TokensKept

\* What one step appends.
LEMMA Putting ==
  ASSUME TokTypes, Filled, UNCHANGED request, ~Full,
         NEW id \in Ids, NEW n \in Nat \ {0}, Put(id, n),
         StandsFor(id, [from |-> pos, to |-> pos + n - 1], EndOf(Len(cover)))
  PROVE  /\ tokIds' \in Seq(Ids) /\ cover' \in Seq(Cuts) /\ Filled'
         /\ pos' = pos + n /\ pos' \in Nat \ {0}
         /\ EndOf(Len(cover))' = pos + n - 1 /\ Reached(Len(cover), pos)'
<1>1. PICK c : c = [from |-> pos, to |-> pos + n - 1]
  OBVIOUS
<1>2. pos \in Nat \ {0} /\ c \in Cuts /\ c.to = pos + n - 1
  BY <1>1 DEF TokTypes, Cuts
<1>3. PICK m : m = Len(cover)
  OBVIOUS
<1>4. /\ m \in 0..Len(cover) /\ Len(tokIds) = One(hasBos) + m
      /\ One(hasBos) + m < Payload
  <2>1. /\ Payload \in Int /\ Len(tokIds) \in Nat /\ m \in Nat
        /\ One(hasBos) \in 0..1
    BY <1>3, PayloadIsNat, Ones DEF TokTypes
  <2>2. QED
    BY <1>3, <2>1 DEF Filled, Full
<1>5. /\ SubSeq(tokIds, 1, One(hasBos) + m) = tokIds
      /\ SubSeq(cover, 1, m) = cover
  BY <1>3, <1>4, SubSeqFull DEF TokTypes
<1>6. StandsFor(id, c, EndOf(m))
  BY <1>1, <1>3
<1>7. /\ tokIds' = Append(SubSeq(tokIds, 1, One(hasBos) + m), id)
      /\ cover' = Append(SubSeq(cover, 1, m), c)
      /\ pos' = pos + n
  BY <1>1, <1>5 DEF Put
<1>8. /\ tokIds' \in Seq(Ids) /\ cover' \in Seq(Cuts)
      /\ Filled' /\ EndOf(Len(cover))' = c.to
  BY <1>2, <1>4, <1>6, <1>7, Adding
<1>9. Reached(Len(cover), pos)'
  BY <1>2, <1>7, <1>8 DEF Reached, OnlyGaps
<1>10. QED
  BY <1>2, <1>7, <1>8, <1>9

\* A whole word that is a piece is found at the word's beginning.
LEMMA WholePiece ==
  ASSUME TokTypes, SpanKnown, NEW w \in Pieces, pos = span.from,
         w.mark = FALSE, w.text = SubSeq(text, span.from, span.to)
  PROVE  w \in InSpan
<1>1. /\ span.from \in Nat /\ span.to \in Nat
      /\ 1 <= span.from /\ span.from <= span.to
  BY DEF SpanKnown, WholeWord, TokTypes
<1>2. Len(w.text) = span.to - span.from + 1
  BY <1>1
<1>3. pos + Len(w.text) - 1 = span.to
  BY <1>1, <1>2
<1>4. Matches(w, pos, span.to)
  <2>1. PICK j : j = pos + Len(w.text) - 1
    OBVIOUS
  <2>2. j = span.to /\ SubSeq(text, pos, j) = w.text
    BY <1>3, <2>1
  <2>3. j <= span.to
    BY <1>1, <2>2
  <2>4. QED
    BY <2>1, <2>2, <2>3 DEF Matches
<1>5. w.mark = (pos # span.from)
  OBVIOUS
<1>6. QED
  BY <1>4, <1>5 DEF InSpan

LEMMA TakeSteps == TokIInv /\ TakeInSpan => TokIInv'
<1> SUFFICES ASSUME TokIInv, TakeInSpan PROVE TokIInv'
  OBVIOUS
<1>1. /\ tokPc = "span" /\ InSpan # {} /\ UNCHANGED <<request, wordStart, span>>
      /\ TokTypes /\ Filled /\ Reached(Len(cover), pos) /\ Starts /\ SpanKnown
      /\ kind = "wordpiece" /\ kind' = kind
  BY DEF TakeInSpan, TokIInv, SpanKnown, request
<1>2. CASE Full
  <2>1. tokPc' = "ended" /\ UNCHANGED <<request, wordStart, span, pos, tokIds,
                                        cover>>
    BY <1>1, <1>2 DEF TakeInSpan
  <2>2. TokTypes'
    BY <1>1, <2>1 DEF TokTypes, request
  <2>3. Filled'
    BY <1>1, <2>1, StillFilled
  <2>4. Reached(Len(cover), pos)'
    BY <1>1, <2>1 DEF Reached, EndOf, OnlyGaps, request
  <2>5. Full'
    BY <1>2, <2>1 DEF Full, Payload, One, request
  <2>6. Starts'
    BY <1>1, <2>1 DEF Starts
  <2>7. QED
    BY <2>1, <2>2, <2>3, <2>4, <2>5, <2>6 DEF TokIInv, TokensKept
<1>3. CASE ~Full
  <2> DEFINE from == span.from
             to == span.to
  <2>1. PICK p : p = Longest(InSpan)
    OBVIOUS
  <2>2. PICK n : n = Len(p.text)
    OBVIOUS
  <2>3. Put(p, n) /\ tokPc' = IF pos' > to THEN "words" ELSE "span"
    BY <1>1, <1>3, <2>1, <2>2 DEF TakeInSpan
  <2>4. /\ from \in Nat /\ to \in Nat /\ 1 <= from /\ from <= pos /\ pos <= to
        /\ to <= Len(text) /\ Len(text) \in Nat /\ pos \in Nat
        /\ WholeWord(from, to)
    BY <1>1 DEF SpanKnown, WholeWord, TokTypes
  <2> HIDE DEF from, to
  <2>5. /\ InSpan \subseteq Pieces
        /\ \A q \in InSpan : /\ q.mark = (pos # from)
                             /\ pos + Len(q.text) - 1 <= to
                             /\ Len(q.text) \in Nat \ {0}
    BY PieceTypes DEF InSpan, Matches, from, to
  <2>6. p \in InSpan /\ \A q \in InSpan : Better(p, q)
    <3>1. \A q \in InSpan : Len(q.text) <= to
      BY <2>4, <2>5
    <3>2. QED
      BY <1>1, <2>1, <2>4, <2>5, <3>1, LongestIsBest
  <2>7. /\ p \in Pieces /\ p.mark = (pos # from) /\ n \in Nat \ {0}
        /\ pos + n - 1 <= to /\ SubSeq(text, pos, pos + n - 1) = p.text
    BY <2>2, <2>5, <2>6 DEF InSpan, Matches
  <2>8. StandsFor(p, [from |-> pos, to |-> pos + n - 1], EndOf(Len(cover)))
    <3>1. PICK c : c = [from |-> pos, to |-> pos + n - 1]
      OBVIOUS
    <3>2. c.from = pos /\ c.to = pos + n - 1
      BY <3>1
    <3>3. EndOf(Len(cover)) < c.from /\ c.from <= c.to /\ c.to <= Len(text)
      BY <1>1, <2>4, <2>7, <3>2 DEF Reached
    <3>4. OnlyGaps(EndOf(Len(cover)) + 1, c.from - 1) /\ text[c.from] # Gap
      BY <1>1, <2>4, <3>2 DEF Reached, WholeWord
    <3>5. \A i \in (c.from + 1)..c.to : InWord(i)
      BY <2>4, <2>7, <3>2 DEF WholeWord
    <3>6. p.mark = InWord(c.from)
      <4>1. pos # from => InWord(pos)
        BY <2>4 DEF WholeWord
      <4>2. pos = from => ~InWord(pos)
        BY <2>4 DEF WholeWord
      <4>3. InWord(pos) \in BOOLEAN
        BY DEF InWord
      <4>4. QED
        BY <2>7, <3>2, <4>1, <4>2, <4>3
    <3>7. StandsFor(p, c, EndOf(Len(cover)))
      BY <1>1, <2>7, <3>2, <3>3, <3>4, <3>5, <3>6 DEF StandsFor
    <3>8. QED
      BY <3>1, <3>7
  <2>9. p \in Ids
    BY <2>7 DEF Ids
  <2>10. /\ tokIds' \in Seq(Ids) /\ cover' \in Seq(Cuts) /\ Filled'
         /\ pos' = pos + n /\ pos' \in Nat \ {0}
         /\ EndOf(Len(cover))' = pos + n - 1 /\ Reached(Len(cover), pos)'
    BY <1>1, <1>3, <2>3, <2>7, <2>8, <2>9, Putting
  <2>11. TokTypes'
    BY <1>1, <2>3, <2>10 DEF TokTypes, request
  <2>12. tokPc' \in {"words", "span"}
    BY <2>3
  <2>13. tokPc' = "words" => ~InWord(pos)'
    <3>1. SUFFICES ASSUME tokPc' = "words" PROVE ~InWord(pos)'
      OBVIOUS
    <3>2. pos' = to + 1
      BY <2>3, <2>4, <2>7, <2>10, <3>1
    <3>3. ~InWord(to + 1)
      BY <2>4 DEF WholeWord
    <3>4. QED
      BY <1>1, <3>2, <3>3 DEF InWord, request
  <2>14. Starts'
    BY <1>1, <2>13 DEF Starts
  <2>15. tokPc' = "span" => SpanKnown'
    <3>1. SUFFICES ASSUME tokPc' = "span" PROVE SpanKnown'
      OBVIOUS
    <3>2. pos' \in from..to /\ pos' # from
      BY <2>3, <2>4, <2>7, <2>10, <3>1
    <3>3. PICK w : w = [mark |-> FALSE, text |-> SubSeq(text, from, to)]
      OBVIOUS
    <3>4. w \notin Pieces
      <4>1. CASE pos # from
        BY <1>1, <3>3, <4>1 DEF SpanKnown, from, to
      <4>2. CASE pos = from
        <5>1. SUFFICES ASSUME w \in Pieces PROVE FALSE
          OBVIOUS
        <5>2. w.text = SubSeq(text, from, to) /\ w.mark = FALSE
          BY <3>3
        <5>3. Len(w.text) = to - from + 1
          BY <2>4, <5>2 DEF TokTypes
        <5>4. w \in InSpan
          BY <1>1, <4>2, <5>1, <5>2, WholePiece DEF from, to
        <5>5. n >= to - from + 1
          BY <2>2, <2>4, <2>6, <2>7, <5>3, <5>4 DEF Better
        <5>6. QED
          BY <2>4, <2>7, <2>10, <3>2, <4>2, <5>5
      <4>3. QED
        BY <4>1, <4>2
    <3>5. WholeWord(span.from, span.to)'
      BY <1>1, <2>4 DEF WholeWord, InWord, request, from, to
    <3>6. BeforeSpan' = BeforeSpan /\ BeforeSpan \in 0..Len(cover)
      BY <1>1 DEF BeforeSpan, One, request, SpanKnown
    <3>7. Len(cover') = Len(cover) + 1 /\ Len(cover) \in Nat
          /\ \A k \in 1..Len(cover) : cover'[k] = cover[k]
      <4>1. cover' = Append(cover, [from |-> pos, to |-> pos + n - 1])
        BY <2>3 DEF Put
      <4>2. cover \in Seq(Cuts)
        BY <1>1 DEF TokTypes
      <4>3. QED
        BY <4>1, <4>2
    <3>8. EndOf(BeforeSpan)' = EndOf(BeforeSpan)
      BY <3>6, <3>7 DEF EndOf
    <3>9. Reached(BeforeSpan, span.from)'
      BY <1>1, <3>6, <3>8 DEF Reached, OnlyGaps, SpanKnown, request
    <3>10. span.ids' < Payload'
      BY <1>1 DEF SpanKnown, Payload, One, request
    <3>11. ~(pos' # span.from' =>
               [mark |-> FALSE, text |-> SubSeq(text', span.from', span.to')]
                 \in Pieces)
      BY <1>1, <3>2, <3>3, <3>4 DEF request, from, to
    <3>12. QED
      BY <1>1, <3>2, <3>5, <3>6, <3>7, <3>9, <3>10, <3>11
         DEF SpanKnown, from, to
  <2>16. QED
    BY <2>10, <2>11, <2>12, <2>14, <2>15 DEF TokIInv, TokensKept
<1>4. QED
  BY <1>2, <1>3

LEMMA GiveUpSteps == TokIInv /\ GiveUpSpan => TokIInv'
<1> SUFFICES ASSUME TokIInv, GiveUpSpan PROVE TokIInv'
  OBVIOUS
<1>1. /\ tokPc = "span" /\ InSpan = {} /\ tokIds' = GivenUp
      /\ cover' = Append(SubSeq(cover, 1, BeforeSpan),
                         [from |-> span.from, to |-> span.to])
      /\ pos' = span.to + 1 /\ tokPc' = "words"
      /\ UNCHANGED <<request, wordStart, span>>
      /\ TokTypes /\ Filled /\ Starts /\ SpanKnown
      /\ kind = "wordpiece" /\ kind' = kind
  BY DEF GiveUpSpan, TokIInv, SpanKnown, BeforeSpan, request
<1> DEFINE from == span.from
           to == span.to
<1>2. /\ from \in Nat /\ to \in Nat /\ 1 <= from /\ from <= pos /\ pos <= to
      /\ to <= Len(text) /\ Len(text) \in Nat /\ pos \in Nat
      /\ WholeWord(from, to) /\ span.ids \in Nat
  BY <1>1 DEF SpanKnown, WholeWord, TokTypes
<1> HIDE DEF from, to
<1>3. PICK m : m = BeforeSpan
  OBVIOUS
<1>4. PICK c : c = [from |-> from, to |-> to]
  OBVIOUS
<1>5. c \in Cuts /\ c.from = from /\ c.to = to
  BY <1>2, <1>4 DEF Cuts
<1>6. /\ m \in 0..Len(cover) /\ One(hasBos) + m = span.ids
      /\ One(hasBos) + m < Payload /\ Reached(m, from)
  <2>1. BeforeSpan \in 0..Len(cover) /\ span.ids < Payload
    BY <1>1 DEF SpanKnown
  <2>2. One(hasBos) \in 0..1
    BY <1>1, Ones DEF TokTypes
  <2>3. One(hasBos) + BeforeSpan = span.ids
    BY <1>2, <2>2 DEF BeforeSpan
  <2>4. Reached(BeforeSpan, from)
    BY <1>1 DEF SpanKnown, from
  <2>5. QED
    BY <1>3, <2>1, <2>3, <2>4
<1>7. PICK w : w = [mark |-> FALSE, text |-> SubSeq(text, from, to)]
  OBVIOUS
<1>8. w \notin Pieces
  <2>1. CASE pos # from
    BY <1>1, <1>7, <2>1 DEF SpanKnown, from, to
  <2>2. CASE pos = from
    <3>1. SUFFICES ASSUME w \in Pieces PROVE FALSE
      OBVIOUS
    <3>2. w.text = SubSeq(text, from, to) /\ w.mark = FALSE
      BY <1>7
    <3>3. w \in InSpan
      BY <1>1, <2>2, <3>1, <3>2, WholePiece DEF from, to
    <3>4. QED
      BY <1>1, <3>3
  <2>3. QED
    BY <2>1, <2>2
<1>9. StandsFor(Unk, c, EndOf(m))
  <2>1. EndOf(m) < c.from /\ OnlyGaps(EndOf(m) + 1, c.from - 1)
    BY <1>5, <1>6 DEF Reached
  <2>2. c.from <= c.to /\ c.to <= Len(text) /\ text[c.from] # Gap
    BY <1>2, <1>5 DEF WholeWord
  <2>3. /\ \A i \in (c.from + 1)..c.to : InWord(i)
        /\ ~InWord(c.from) /\ ~InWord(c.to + 1)
    BY <1>2, <1>5 DEF WholeWord
  <2>4. [mark |-> FALSE, text |-> SubSeq(text, c.from, c.to)] \notin Pieces
    BY <1>5, <1>7, <1>8
  <2>5. QED
    BY <1>1, <2>1, <2>2, <2>3, <2>4 DEF StandsFor
<1>10. /\ tokIds' \in Seq(Ids) /\ cover' \in Seq(Cuts)
       /\ Filled' /\ EndOf(Len(cover))' = c.to
  <2>1. /\ tokIds' = Append(SubSeq(tokIds, 1, One(hasBos) + m), Unk)
        /\ cover' = Append(SubSeq(cover, 1, m), c) /\ UNCHANGED request
    BY <1>1, <1>3, <1>4, <1>6 DEF GivenUp, from, to
  <2>2. Unk \in Ids
    BY DEF Ids
  <2>3. QED
    BY <1>1, <1>5, <1>6, <1>9, <2>1, <2>2, Adding
<1>11. pos' = to + 1
  BY <1>1 DEF to
<1>12. TokTypes'
  BY <1>1, <1>2, <1>10, <1>11 DEF TokTypes, request
<1>13. Reached(Len(cover), pos)'
  BY <1>2, <1>5, <1>10, <1>11 DEF Reached, OnlyGaps
<1>14. ~InWord(pos)'
  BY <1>1, <1>2, <1>11 DEF WholeWord, InWord, request
<1>15. QED
  BY <1>1, <1>10, <1>12, <1>13, <1>14 DEF TokIInv, TokensKept, Starts

LEMMA HereSteps == TokIInv /\ TakeHere => TokIInv'
<1> SUFFICES ASSUME TokIInv, TakeHere PROVE TokIInv'
  OBVIOUS
<1>1. /\ kind = "bpe" /\ kind' = kind /\ tokPc = "words" /\ pos <= Len(text)
      /\ text[pos] # Gap /\ ~Full /\ wordStart' = FALSE
      /\ UNCHANGED <<request, span, tokPc>>
      /\ TokTypes /\ Filled /\ Reached(Len(cover), pos)
      /\ wordStart <=> ~(pos > 1 /\ pos = EndOf(Len(cover)) + 1)
  BY DEF TakeHere, AtText, TokIInv, Starts, request
<1>2. pos \in Nat \ {0} /\ Len(text) \in Nat /\ Len(cover) \in Nat
  BY <1>1 DEF TokTypes
<1>3. PICK e : e = EndOf(Len(cover))
  OBVIOUS
<1>4. e \in Nat /\ e < pos /\ OnlyGaps(e + 1, pos - 1)
  BY <1>1, <1>2, <1>3, Ends DEF Reached
<1>5. /\ Here \subseteq Pieces
      /\ \A q \in Here : /\ q.mark => wordStart
                         /\ pos + Len(q.text) - 1 <= Len(text)
                         /\ Len(q.text) \in Nat \ {0}
  BY PieceTypes DEF Here, Matches
<1>6. \E id \in Ids, n \in Nat \ {0} :
        /\ Put(id, n)
        /\ StandsFor(id, [from |-> pos, to |-> pos + n - 1], e)
  <2>1. CASE Here = {}
    <3>1. Put(Unk, 1) /\ Unk \in Ids
      BY <2>1 DEF TakeHere, Ids
    <3>2. PICK c : c = [from |-> pos, to |-> pos + 1 - 1]
      OBVIOUS
    <3>3. c.from = pos /\ c.to = pos
      BY <1>2, <3>2
    <3>4. ASSUME NEW p \in Pieces, Matches(p, c.from, Len(text))
          PROVE  p.mark /\ c.from > 1 /\ c.from = e + 1
      <4>1. p \notin Here
        BY <2>1
      <4>2. ~(p.mark => wordStart)
        BY <3>3, <3>4, <4>1 DEF Here
      <4>3. QED
        BY <1>1, <1>3, <3>3, <4>2
    <3>5. StandsFor(Unk, c, e)
      BY <1>1, <1>2, <1>4, <3>3, <3>4 DEF StandsFor
    <3>6. QED
      BY <3>1, <3>2, <3>5
  <2>2. CASE Here # {}
    <3>1. PICK p : p = Longest(Here)
      OBVIOUS
    <3>2. PICK n : n = Len(p.text)
      OBVIOUS
    <3>3. p \in Here
      <4>1. \A q \in Here : Len(q.text) <= Len(text)
        BY <1>2, <1>5
      <4>2. QED
        BY <1>2, <1>5, <2>2, <3>1, <4>1, LongestIsBest
    <3>4. Put(p, n) /\ p \in Ids /\ p \in Pieces
      BY <1>5, <2>2, <3>1, <3>2, <3>3 DEF TakeHere, Ids
    <3>5. /\ p.mark => wordStart
          /\ n \in Nat \ {0} /\ pos + n - 1 <= Len(text)
          /\ SubSeq(text, pos, pos + n - 1) = p.text
      BY <1>5, <3>2, <3>3 DEF Here, Matches
    <3>6. PICK c : c = [from |-> pos, to |-> pos + n - 1]
      OBVIOUS
    <3>7. c.from = pos /\ c.to = pos + n - 1
      BY <3>6
    <3>8. p.mark => ~(c.from > 1 /\ c.from = e + 1)
      BY <1>1, <1>3, <3>5, <3>7
    <3>9. e < c.from /\ c.from <= c.to /\ c.to <= Len(text)
      BY <1>2, <1>4, <3>5, <3>7
    <3>10. StandsFor(p, c, e)
      BY <1>1, <1>4, <3>4, <3>5, <3>7, <3>8, <3>9 DEF StandsFor
    <3>11. QED
      BY <3>4, <3>5, <3>6, <3>10
  <2>3. QED
    BY <2>1, <2>2
<1>7. PICK id \in Ids, n \in Nat \ {0} :
        /\ Put(id, n)
        /\ StandsFor(id, [from |-> pos, to |-> pos + n - 1], e)
  BY <1>6
<1>8. StandsFor(id, [from |-> pos, to |-> pos + n - 1], EndOf(Len(cover)))
  BY <1>3, <1>7
<1>9. /\ tokIds' \in Seq(Ids) /\ cover' \in Seq(Cuts) /\ Filled'
      /\ pos' = pos + n /\ pos' \in Nat \ {0}
      /\ EndOf(Len(cover))' = pos + n - 1 /\ Reached(Len(cover), pos)'
  BY <1>1, <1>7, <1>8, Putting
<1>10. TokTypes'
  BY <1>1, <1>9 DEF TokTypes, request
<1>11. Starts'
  <2>1. pos' > 1 /\ pos' = EndOf(Len(cover))' + 1
    BY <1>2, <1>9
  <2>2. QED
    BY <1>1, <2>1 DEF Starts
<1>12. QED
  BY <1>1, <1>9, <1>10, <1>11 DEF TokIInv, TokensKept

LEMMA EndSteps == TokIInv /\ EndTokens => TokIInv'
<1> SUFFICES ASSUME TokIInv, EndTokens PROVE TokIInv'
  OBVIOUS
<1>1. /\ Full \/ pos > Len(text)
      /\ tokIds' = IF hasEos /\ Len(tokIds) < tokRoom THEN Append(tokIds, Eos)
                   ELSE tokIds
      /\ tokPc' = "done" /\ UNCHANGED <<request, pos, wordStart, span, cover>>
      /\ TokTypes /\ Filled /\ Reached(Len(cover), pos)
  BY DEF EndTokens, TokIInv
<1> DEFINE b == One(hasBos)
           n == Len(cover)
           ended == hasEos /\ tokRoom > b
<1>2. /\ b \in 0..1 /\ n \in Nat /\ tokRoom \in Nat \ {0} /\ Len(tokIds) = b + n
      /\ Len(tokIds) <= Payload /\ Payload \in b..tokRoom
      /\ hasBos \in BOOLEAN /\ hasEos \in BOOLEAN /\ tokIds \in Seq(Ids)
  BY <1>1, Ones, PayloadIsNat DEF TokTypes, Filled
<1>3. hasEos /\ Len(tokIds) < tokRoom <=> ended
  <2>1. hasEos => One(hasEos) = 1
    BY DEF One
  <2>2. hasEos => Payload = IF tokRoom - 1 < b THEN b ELSE tokRoom - 1
    BY <2>1 DEF Payload
  <2> HIDE DEF b
  <2>3. QED
    BY <1>2, <2>2
<1>4. /\ tokIds' \in Seq(Ids)
      /\ Len(tokIds') = b + n + One(ended)
      /\ \A i \in 1..(b + n) : tokIds'[i] = tokIds[i]
      /\ ended => tokIds'[Len(tokIds')] = Eos
  <2>1. CASE ended
    <3>1. tokIds' = Append(tokIds, Eos)
      BY <1>1, <1>3, <2>1
    <3>2. Eos \in Ids /\ One(ended) = 1
      BY <2>1 DEF Ids, One
    <3> HIDE DEF b, ended
    <3>3. QED
      BY <1>2, <3>1, <3>2, AppendProperties
  <2>2. CASE ~ended
    <3>1. tokIds' = tokIds /\ One(ended) = 0
      BY <1>1, <1>3, <2>2 DEF One
    <3> HIDE DEF b, ended
    <3>2. QED
      BY <1>2, <2>2, <3>1
  <2>3. QED
    BY <2>1, <2>2
<1>5. TokTypes'
  BY <1>1, <1>4 DEF TokTypes, request
<1>6. /\ b' = b /\ n' = n /\ One(ended)' = One(ended) /\ ended' = ended
      /\ Payload' = Payload /\ text' = text /\ kind' = kind
      /\ hasBos' = hasBos /\ hasEos' = hasEos /\ tokRoom' = tokRoom
  BY <1>1 DEF request, One, Payload
<1>7. Len(tokIds') <= tokRoom'
  <2>1. ended => b + n <= tokRoom - 1
    <3>1. hasEos => One(hasEos) = 1
      BY DEF One
    <3>2. hasEos => Payload = IF tokRoom - 1 < b THEN b ELSE tokRoom - 1
      BY <3>1 DEF Payload
    <3> HIDE DEF b
    <3>3. QED
      BY <1>2, <3>2
  <2>2. One(ended) = IF ended THEN 1 ELSE 0
    BY DEF One
  <2> HIDE DEF b, ended
  <2>3. QED
    BY <1>2, <1>4, <1>6, <2>1, <2>2
<1>8. hasBos' => tokIds'[1] = Bos
  <2>1. SUFFICES ASSUME hasBos PROVE tokIds'[1] = Bos
    BY <1>6
  <2>2. b = 1 /\ tokIds[1] = Bos
    BY <1>1, <2>1 DEF Filled, One
  <2> HIDE DEF b
  <2>3. QED
    BY <1>2, <1>4, <2>2
<1>9. ended' => Last(tokIds') = Eos
  BY <1>4, <1>6 DEF Last
<1>10. \A k \in 1..n : StandsFor(Entry(k), cover[k], EndOf(k - 1))'
  <2>1. SUFFICES ASSUME NEW k \in 1..n
                 PROVE  StandsFor(Entry(k), cover[k], EndOf(k - 1))'
    OBVIOUS
  <2>2. PICK i, r, e : i = Entry(k) /\ r = cover[k] /\ e = EndOf(k - 1)
    OBVIOUS
  <2>3. StandsFor(i, r, e) /\ k \in Nat \ {0}
    BY <1>1, <1>2, <2>1, <2>2 DEF Filled
  <2>4. Entry(k)' = i
    <3>1. Entry(k)' = tokIds'[b + k] /\ i = tokIds[b + k]
      BY <1>6, <2>2 DEF Entry
    <3> HIDE DEF b
    <3>2. b + k \in 1..(b + n)
      BY <1>2, <2>1
    <3>3. QED
      BY <1>4, <3>1, <3>2
  <2>5. cover'[k] = r /\ EndOf(k - 1)' = e
    BY <1>1, <2>2 DEF EndOf
  <2>6. QED
    BY <1>1, <2>3, <2>4, <2>5, Stands
<1>11. b + n < Payload => OnlyGaps(EndOf(n) + 1, Len(text))
  <2>1. SUFFICES ASSUME b + n < Payload
                 PROVE  OnlyGaps(EndOf(n) + 1, Len(text))
    OBVIOUS
  <2>2. ~Full
    <3>1. Payload \in Int
      BY <1>1, PayloadIsNat DEF TokTypes
    <3> HIDE DEF b
    <3>2. QED
      BY <1>2, <2>1, <3>1 DEF Full
  <2>3. pos > Len(text) /\ pos \in Nat /\ Len(text) \in Nat
    BY <1>1, <2>2 DEF TokTypes
  <2>4. OnlyGaps(EndOf(n) + 1, pos - 1) /\ EndOf(n) \in Nat
    BY <1>1, <1>2, Ends DEF Reached
  <2>5. QED
    BY <2>3, <2>4 DEF OnlyGaps
<1>12. EndOf(n)' = EndOf(n)
  BY <1>1 DEF EndOf
<1>13. TokensKept'
  <2>1. (b + n < Payload => OnlyGaps(EndOf(n) + 1, Len(text)))'
    BY <1>1, <1>6, <1>11, <1>12 DEF OnlyGaps
  <2>2. QED
    BY <1>1, <1>4, <1>6, <1>7, <1>8, <1>9, <1>10, <2>1 DEF TokensKept
<1>14. Starts'
  BY <1>1, <1>6 DEF Starts
<1>15. QED
  BY <1>1, <1>5, <1>13, <1>14 DEF TokIInv

LEMMA TokSteps == TokIInv /\ [TokNext]_tokVars => TokIInv'
<1> SUFFICES ASSUME TokIInv, [TokNext]_tokVars PROVE TokIInv'
  OBVIOUS
<1>1. CASE SkipGap
  BY <1>1, SkipSteps
<1>2. CASE OpenSpan
  BY <1>2, OpenSteps
<1>3. CASE TakeInSpan
  BY <1>3, TakeSteps
<1>4. CASE GiveUpSpan
  BY <1>4, GiveUpSteps
<1>5. CASE TakeHere
  BY <1>5, HereSteps
<1>6. CASE EndTokens
  BY <1>6, EndSteps
<1>7. CASE UNCHANGED tokVars
  <2>1. /\ UNCHANGED <<request, pos, tokIds, wordStart, span, tokPc, cover>>
        /\ UNCHANGED <<kind, hasBos, hasEos, tokRoom, text>> /\ TokTypes
    BY <1>7 DEF tokVars, request, TokIInv
  <2>2. TokTypes' /\ Starts' /\ (tokPc = "ended" => Full)'
    BY <2>1 DEF TokIInv, TokTypes, Starts, InWord, EndOf, Full, Payload, One
  <2>3. (tokPc # "done" => Filled /\ Reached(Len(cover), pos))'
    BY <2>1, StillFilled DEF TokIInv, Reached, EndOf, OnlyGaps
  <2>4. (tokPc = "span" => SpanKnown)'
    BY <2>1 DEF TokIInv, SpanKnown, BeforeSpan, WholeWord, InWord, Reached,
       EndOf, OnlyGaps, Payload, One
  <2>5. TokensKept'
    <3>1. SUFFICES ASSUME tokPc = "done" PROVE TokensKept'
      BY <2>1 DEF TokensKept
    <3>2. \A k \in 1..Len(cover) : StandsFor(Entry(k), cover[k], EndOf(k - 1))'
      <4>1. SUFFICES ASSUME NEW k \in 1..Len(cover)
                     PROVE  StandsFor(Entry(k), cover[k], EndOf(k - 1))'
        OBVIOUS
      <4>2. PICK i, r, e : i = Entry(k) /\ r = cover[k] /\ e = EndOf(k - 1)
        OBVIOUS
      <4>3. Entry(k)' = i /\ cover'[k] = r /\ EndOf(k - 1)' = e
        BY <2>1, <4>2 DEF Entry, EndOf, One
      <4>4. StandsFor(i, r, e) /\ k \in Nat \ {0}
        BY <2>1, <3>1, <4>1, <4>2 DEF TokIInv, TokensKept, TokTypes
      <4>5. QED
        BY <2>1, <4>3, <4>4, Stands
    <3>3. QED
      BY <2>1, <3>1, <3>2
         DEF TokIInv, TokensKept, Last, One, Payload, OnlyGaps, EndOf
  <2>6. QED
    BY <2>2, <2>3, <2>4, <2>5 DEF TokIInv
<1>8. QED
  BY <1>1, <1>2, <1>3, <1>4, <1>5, <1>6, <1>7 DEF TokNext

\* tokenizer.c: for any vocabulary, any text and any room, the array that
\* tokenizer_encode returns holds BOS, the text in order or as much of it as
\* there is room for, cut as the kind of the vocabulary says, and EOS whenever
\* an entry could be kept for it.
THEOREM TokensAreKept == TokSpec => []TokensKept
<1>1. TokInit => TokIInv
  BY TokStarts
<1>2. TokIInv /\ [TokNext]_tokVars => TokIInv'
  BY TokSteps
<1>3. TokIInv => TokensKept
  BY DEF TokIInv
<1>4. QED
  BY <1>1, <1>2, <1>3, PTL DEF TokSpec

-----------------------------------------------------------------------------
(* The translator on the runtime. *)

Pointers == Nat \X Nat
Given == {f \in [Contexts -> UNION {[Inputs[c] -> Pointers] : c \in Contexts}] :
            \A c \in Contexts : f[c] \in [Inputs[c] -> Pointers]}
Targets == {"bos", "word", "eos"}
InCall == {"prefix", "state", "decode", "choose", "text"}

TrTypes ==
  /\ in \in Given /\ trUsed \in Given
  /\ out \in [Contexts -> Nat] /\ lent \in [Contexts -> SUBSET Nat]
  /\ runs \in Nat /\ call \in Nat /\ trState \in Nat
  /\ capacity \in Nat \ {0} /\ steps \in 1..capacity
  /\ ids \in Seq(Targets) /\ Len(ids) <= capacity
  /\ trPc \in {"load", "idle", "source", "encode", "borrow", "destroy", "gone"}
              \cup InCall

\* The runtime gets its outputs back.
OutputsHeld ==
  \A c \in Contexts : lent[c] = IF out[c] = 0 THEN {} ELSE {out[c]}

\* Which inputs are set, and which the last runs were given, at each point of
\* a call; and that only models that fit together translate.
InputsSet ==
  /\ trPc \notin {"load", "destroy", "gone"} => Contract
  /\ trPc \in {"source", "encode"} => ids = <<>>
  /\ trPc = "encode" => in["enc"]["tokens"] = <<call, Round>>
  /\ trPc \in {"borrow"} \cup InCall =>
       out["enc"] # 0 /\ trUsed["enc"]["tokens"][1] = call
  /\ trPc \in InCall => trState = out["enc"] /\ 1 <= Len(ids)
  /\ trPc \in {"state", "decode"} => in["dec"]["tokens"] = <<call, Round>>
  /\ trPc = "decode" => in["dec"]["state"] = <<call, Round>>
  /\ trPc = "choose" =>
       \A i \in Inputs["dec"] : trUsed["dec"][i] = <<call, Round>>
  /\ trPc \in {"state", "decode", "choose"} => Len(ids) < capacity
  /\ trPc = "gone" => \A c \in Contexts : out[c] = 0

TrIInv == TrTypes /\ OutputsHeld /\ InputsSet

\* The contexts and their inputs.
LEMMA ContextsAre ==
  /\ Contexts = {"enc", "dec"} /\ "enc" \in Contexts /\ "dec" \in Contexts
  /\ Inputs["enc"] = {"tokens"} /\ Inputs["dec"] = {"tokens", "state"}
BY DEF Contexts, Inputs

\* An input is set, or the call ends.
LEMMA InputIsSet ==
  ASSUME TrTypes, NEW c \in Contexts, NEW i \in Inputs[c], NEW next,
         SetInput(c, i, next)
  PROVE  /\ in' \in Given
         /\ UNCHANGED <<out, lent, trUsed, runs, loaded, capacity, steps,
                        call, ids>>
         /\ \/ /\ trPc' = next /\ UNCHANGED trState
               /\ in'[c][i] = <<call, Round>>
               /\ \A d \in Contexts : \A j \in Inputs[d] :
                    <<d, j>> # <<c, i>> => in'[d][j] = in[d][j]
            \/ trPc' = "idle" /\ trState' = 0 /\ in' = in
<1>1. UNCHANGED <<out, lent, trUsed, runs, loaded, capacity, steps, call, ids>>
  BY DEF SetInput, shape
<1>2. CASE in' = [in EXCEPT ![c][i] = <<call, Round>>] /\ trPc' = next
           /\ UNCHANGED <<trState, trFaults>>
  <2>1. <<call, Round>> \in Pointers
    BY DEF TrTypes, Round, Pointers
  <2>2. /\ in \in [Contexts -> UNION {[Inputs[d] -> Pointers] : d \in Contexts}]
        /\ \A d \in Contexts : in[d] \in [Inputs[d] -> Pointers]
    BY DEF TrTypes, Given
  <2> DEFINE g == [in[c] EXCEPT ![i] = <<call, Round>>]
  <2>3. g \in [Inputs[c] -> Pointers]
    BY <2>1, <2>2
  <2>4. /\ g[i] = <<call, Round>>
        /\ \A j \in Inputs[c] : j # i => g[j] = in[c][j]
    BY <2>2
  <2>5. in' = [in EXCEPT ![c] = g]
    BY <1>2
  <2> HIDE DEF g
  <2>6. in'[c] = g /\ \A d \in Contexts : d # c => in'[d] = in[d]
    BY <2>2, <2>5
  <2>7. in' \in Given
    BY <2>2, <2>3, <2>5, <2>6 DEF Given
  <2>8. \A d \in Contexts : \A j \in Inputs[d] :
          <<d, j>> # <<c, i>> => in'[d][j] = in[d][j]
    BY <2>4, <2>6
  <2>9. QED
    BY <1>1, <1>2, <2>4, <2>6, <2>7, <2>8
<1>3. CASE MayFail /\ Return /\ UNCHANGED in
  BY <1>1, <1>3 DEF Return, TrTypes
<1>4. QED
  BY <1>2, <1>3 DEF SetInput

\* A run takes all inputs of a context and lends new outputs, or the call ends.
LEMMA ContextRuns ==
  ASSUME TrTypes, OutputsHeld, NEW c \in Contexts, NEW next, Run(c, next)
  PROVE  /\ in' \in Given /\ trUsed' \in Given
         /\ out' \in [Contexts -> Nat] /\ lent' \in [Contexts -> SUBSET Nat]
         /\ runs' \in Nat
         /\ OutputsHeld'
         /\ UNCHANGED <<loaded, capacity, steps, call, ids>>
         /\ trUsed'[c] = in[c]
         /\ \A d \in Contexts \ {c} : trUsed'[d] = trUsed[d] /\ out'[d] = out[d]
         /\ \/ trPc' = next /\ UNCHANGED trState /\ out'[c] # 0
            \/ trPc' = "idle" /\ trState' = 0
<1>1. /\ trUsed' = [trUsed EXCEPT ![c] = in[c]]
      /\ in' = [in EXCEPT ![c] = NoInput[c]]
      /\ runs' = runs + 1
      /\ UNCHANGED <<loaded, capacity, steps, call, ids>>
  BY DEF Run, shape
<1>2. /\ in \in [Contexts -> UNION {[Inputs[d] -> Pointers] : d \in Contexts}]
      /\ \A d \in Contexts : in[d] \in [Inputs[d] -> Pointers]
      /\ trUsed \in [Contexts -> UNION {[Inputs[d] -> Pointers] : d \in Contexts}]
      /\ \A d \in Contexts : trUsed[d] \in [Inputs[d] -> Pointers]
      /\ NoInput[c] \in [Inputs[c] -> Pointers]
  BY DEF TrTypes, Given, NoInput, NoPointer, Pointers
<1>3. in' \in Given /\ trUsed' \in Given
  <2>1. /\ in'[c] = NoInput[c] /\ \A d \in Contexts \ {c} : in'[d] = in[d]
        /\ trUsed'[c] = in[c]
        /\ \A d \in Contexts \ {c} : trUsed'[d] = trUsed[d]
    BY <1>1, <1>2
  <2>2. /\ in' \in [Contexts -> UNION {[Inputs[d] -> Pointers] : d \in Contexts}]
        /\ trUsed' \in [Contexts -> UNION {[Inputs[d] -> Pointers] : d \in Contexts}]
    BY <1>1, <1>2
  <2>3. QED
    BY <1>2, <2>1, <2>2 DEF Given
<1>4. /\ trUsed'[c] = in[c]
      /\ \A d \in Contexts \ {c} : trUsed'[d] = trUsed[d]
  BY <1>1, <1>2
<1>5. /\ out \in [Contexts -> Nat] /\ lent \in [Contexts -> SUBSET Nat]
      /\ runs \in Nat /\ runs + 1 \in Nat \ {0}
  BY DEF TrTypes
<1>6. lent[c] \ {out[c]} = {}
  BY DEF OutputsHeld
<1>7. CASE /\ out' = [Released(c) EXCEPT ![c] = runs + 1]
           /\ lent' = Borrowed(c, {runs + 1})
           /\ trPc' = next
           /\ UNCHANGED <<trState, trFaults>>
  <2>1. /\ out' \in [Contexts -> Nat] /\ out'[c] = runs + 1
        /\ \A d \in Contexts \ {c} : out'[d] = out[d]
    BY <1>5, <1>7 DEF Released
  <2>2. /\ lent' \in [Contexts -> SUBSET Nat] /\ lent'[c] = {runs + 1}
        /\ \A d \in Contexts \ {c} : lent'[d] = lent[d]
    BY <1>5, <1>6, <1>7 DEF Borrowed
  <2>3. OutputsHeld'
    BY <1>5, <2>1, <2>2 DEF OutputsHeld
  <2>4. QED
    BY <1>1, <1>3, <1>4, <1>5, <1>7, <2>1, <2>2, <2>3
<1>8. CASE MayFail /\ Return /\ out' = Released(c) /\ lent' = Borrowed(c, {})
  <2>1. /\ out' \in [Contexts -> Nat] /\ out'[c] = 0
        /\ \A d \in Contexts \ {c} : out'[d] = out[d]
    BY <1>5, <1>8 DEF Released
  <2>2. /\ lent' \in [Contexts -> SUBSET Nat] /\ lent'[c] = {}
        /\ \A d \in Contexts \ {c} : lent'[d] = lent[d]
    BY <1>5, <1>6, <1>8 DEF Borrowed
  <2>3. OutputsHeld'
    BY <1>5, <2>1, <2>2 DEF OutputsHeld
  <2>4. QED
    BY <1>1, <1>3, <1>4, <1>5, <1>8, <2>1, <2>2, <2>3 DEF Return
<1>9. QED
  BY <1>7, <1>8 DEF Run

\* The initial states.
LEMMA TrStarts == ASSUME TrInit PROVE TrIInv
<1>1. NoInput \in Given
  BY DEF NoInput, Given, NoPointer, Pointers
<1>2. capacity \in Nat \ {0} /\ steps \in 1..capacity
  BY TrAssumption DEF TrInit
<1>3. QED
  BY <1>1, <1>2 DEF TrInit, TrIInv, TrTypes, OutputsHeld, InputsSet, InCall

\* Every step of a call keeps the inputs of that call and its encoder state.
LEMMA TrSteps == ASSUME TrIInv, [TrNext]_trVars PROVE TrIInv'
<1>0. TrTypes /\ OutputsHeld /\ InputsSet
  BY DEF TrIInv
<1> USE ContextsAre
<1>1. CASE Load \/ LoadFails \/ Validate \/ Translate
  <2>1. CASE Load
    BY <1>0, <2>1
       DEF Load, Contract, runtime, shape, TrIInv, TrTypes, OutputsHeld,
           InputsSet, InCall
  <2>2. CASE LoadFails
    BY <1>0, <2>2
       DEF LoadFails, Contract, runtime, shape, TrIInv, TrTypes, OutputsHeld,
           InputsSet, InCall
  <2>3. CASE Validate
    BY <1>0, <2>3
       DEF Validate, Contract, runtime, shape, TrIInv, TrTypes, OutputsHeld,
           InputsSet, InCall
  <2>4. CASE Translate
    <3>1. /\ trPc = "idle" /\ call' = call + 1 /\ ids' = <<>>
          /\ trPc' = "source"
          /\ UNCHANGED <<in, out, lent, trUsed, runs, loaded, capacity, steps,
                         trState>>
      BY <2>4 DEF Translate, runtime, shape
    <3>2. <<>> \in Seq(Targets) /\ Len(<<>>) = 0
      OBVIOUS
    <3>3. TrTypes'
      BY <1>0, <3>1, <3>2 DEF TrTypes
    <3>4. QED
      BY <1>0, <3>1, <3>3 DEF Contract, TrIInv, OutputsHeld, InputsSet, InCall
  <2>5. QED
    BY <1>1, <2>1, <2>2, <2>3, <2>4
<1>2. CASE SetSource
  <2>1. /\ trPc = "source" /\ SetInput("enc", "tokens", "encode")
    BY <1>2 DEF SetSource
  <2>2. /\ in' \in Given
        /\ UNCHANGED <<out, lent, trUsed, runs, loaded, capacity, steps, call,
                       ids>>
        /\ \/ trPc' = "encode" /\ UNCHANGED trState
              /\ in'["enc"]["tokens"] = <<call, Round>>
           \/ trPc' = "idle" /\ trState' = 0
    BY <1>0, <2>1, InputIsSet
  <2>3. QED
    BY <1>0, <2>1, <2>2
       DEF Round, Contract, TrIInv, TrTypes, OutputsHeld, InputsSet, InCall
<1>3. CASE SetPrefix
  <2>1. /\ trPc = "prefix" /\ Len(ids) < capacity
        /\ SetInput("dec", "tokens", "state")
    BY <1>3 DEF SetPrefix
  <2>2. /\ in' \in Given
        /\ UNCHANGED <<out, lent, trUsed, runs, loaded, capacity, steps, call,
                       ids>>
        /\ \/ trPc' = "state" /\ UNCHANGED trState
              /\ in'["dec"]["tokens"] = <<call, Round>>
           \/ trPc' = "idle" /\ trState' = 0
    BY <1>0, <2>1, InputIsSet
  <2>3. QED
    BY <1>0, <2>1, <2>2
       DEF Round, Contract, TrIInv, TrTypes, OutputsHeld, InputsSet, InCall
<1>4. CASE SetState
  <2>1. trPc = "state" /\ SetInput("dec", "state", "decode")
    BY <1>4 DEF SetState
  <2>2. /\ in' \in Given
        /\ UNCHANGED <<out, lent, trUsed, runs, loaded, capacity, steps, call,
                       ids>>
        /\ \/ /\ trPc' = "decode" /\ UNCHANGED trState
              /\ in'["dec"]["state"] = <<call, Round>>
              /\ \A d \in Contexts : \A j \in Inputs[d] :
                   <<d, j>> # <<"dec", "state">> => in'[d][j] = in[d][j]
           \/ trPc' = "idle" /\ trState' = 0
    BY <1>0, <2>1, InputIsSet
  <2>3. trPc' = "decode" => in'["dec"]["tokens"] = in["dec"]["tokens"]
    BY <2>2
  <2>4. QED
    BY <1>0, <2>1, <2>2, <2>3
       DEF Round, Contract, TrIInv, TrTypes, OutputsHeld, InputsSet, InCall
<1>5. CASE Encode
  <2>1. trPc = "encode" /\ Run("enc", "borrow")
    BY <1>5 DEF Encode
  <2>2. /\ in' \in Given /\ trUsed' \in Given
        /\ out' \in [Contexts -> Nat] /\ lent' \in [Contexts -> SUBSET Nat]
        /\ runs' \in Nat
        /\ OutputsHeld'
        /\ UNCHANGED <<loaded, capacity, steps, call, ids>>
        /\ trUsed'["enc"] = in["enc"]
        /\ \/ trPc' = "borrow" /\ UNCHANGED trState /\ out'["enc"] # 0
           \/ trPc' = "idle" /\ trState' = 0
    BY <1>0, <2>1, ContextRuns
  <2>3. trUsed'["enc"]["tokens"][1] = call
    BY <1>0, <2>1, <2>2 DEF InputsSet
  <2>4. TrTypes'
    BY <1>0, <2>2 DEF TrTypes, InCall
  <2>5. InputsSet'
    BY <1>0, <2>1, <2>2, <2>3 DEF InputsSet, InCall, Contract
  <2>6. QED
    BY <2>2, <2>4, <2>5 DEF TrIInv
<1>6. CASE Decode
  <2>1. trPc = "decode" /\ Run("dec", "choose")
    BY <1>6 DEF Decode
  <2>2. /\ in' \in Given /\ trUsed' \in Given
        /\ out' \in [Contexts -> Nat] /\ lent' \in [Contexts -> SUBSET Nat]
        /\ runs' \in Nat
        /\ OutputsHeld'
        /\ UNCHANGED <<loaded, capacity, steps, call, ids>>
        /\ trUsed'["dec"] = in["dec"]
        /\ trUsed'["enc"] = trUsed["enc"] /\ out'["enc"] = out["enc"]
        /\ \/ trPc' = "choose" /\ UNCHANGED trState
           \/ trPc' = "idle" /\ trState' = 0
    BY <1>0, <2>1, ContextRuns
  <2>3. \A i \in Inputs["dec"] : trUsed'["dec"][i] = <<call, Round>>
    BY <1>0, <2>1, <2>2 DEF InputsSet
  <2>4. TrTypes'
    BY <1>0, <2>2 DEF TrTypes, InCall
  <2>5. InputsSet'
    BY <1>0, <2>1, <2>2, <2>3 DEF InputsSet, InCall, Contract, Round
  <2>6. QED
    BY <2>2, <2>4, <2>5 DEF TrIInv
<1>7. CASE Borrow
  <2>1. /\ trPc = "borrow" /\ trState' = out["enc"] /\ ids' = <<"bos">>
        /\ trPc' = "prefix"
        /\ UNCHANGED <<in, out, lent, trUsed, runs, loaded, capacity, steps,
                       call>>
    BY <1>7 DEF Borrow, runtime, shape
  <2>2. <<"bos">> \in Seq(Targets) /\ Len(<<"bos">>) = 1
    BY DEF Targets
  <2>3. QED
    BY <1>0, <2>1, <2>2
       DEF Contract, TrIInv, TrTypes, OutputsHeld, InputsSet, InCall
<1>8. CASE Choose
  <2>1. /\ trPc = "choose"
        /\ UNCHANGED <<in, out, lent, trUsed, runs, loaded, capacity, steps,
                       call>>
        /\ \/ /\ \E best \in {"word", "eos"} :  ids' = Append(ids, best)
              /\ trPc' \in {"text", "prefix"} /\ UNCHANGED trState
           \/ trPc' = "idle" /\ trState' = 0 /\ UNCHANGED ids
    BY <1>8 DEF Choose, runtime, shape, Return
  <2>2. ids' \in Seq(Targets) /\ Len(ids') <= capacity
        /\ (trPc' # "idle" => 1 <= Len(ids'))
    <3>1. ids \in Seq(Targets) /\ Len(ids) < capacity /\ 1 <= Len(ids)
          /\ capacity \in Nat
      BY <1>0, <2>1 DEF TrTypes, InputsSet, InCall
    <3>2. \A best \in {"word", "eos"} :
            /\ Append(ids, best) \in Seq(Targets)
            /\ Len(Append(ids, best)) = Len(ids) + 1
      BY <3>1 DEF Targets
    <3>3. QED
      BY <2>1, <3>1, <3>2
  <2>3. QED
    BY <1>0, <2>1, <2>2
       DEF Contract, TrIInv, TrTypes, OutputsHeld, InputsSet, InCall
<1>9. CASE Text
  BY <1>0, <1>9
     DEF Text, Return, runtime, shape, Contract, TrIInv, TrTypes, OutputsHeld,
         InputsSet, InCall
<1>10. CASE Destroy
  <2>1. /\ trPc' = "gone" /\ in' = NoInput /\ out' = [c \in Contexts |-> 0]
        /\ lent' = [c \in Contexts |-> lent[c] \ {out[c]}]
        /\ UNCHANGED <<trUsed, runs, capacity, steps, call, trState, ids>>
    BY <1>10 DEF Destroy, shape
  <2>2. NoInput \in Given
    BY DEF NoInput, Given, NoPointer, Pointers
  <2>3. \A c \in Contexts : lent[c] \ {out[c]} = {}
    BY <1>0 DEF OutputsHeld
  <2>4. lent' = [c \in Contexts |-> {}]
    BY <2>1, <2>3
  <2>5. QED
    BY <1>0, <2>1, <2>2, <2>4
       DEF TrIInv, TrTypes, OutputsHeld, InputsSet, InCall
<1>11. CASE UNCHANGED trVars
  BY <1>0, <1>11
     DEF trVars, TrIInv, TrTypes, OutputsHeld, InputsSet, Round, Contract
<1>12. QED
  BY <1>1, <1>2, <1>3, <1>4, <1>5, <1>6, <1>7, <1>8, <1>9, <1>10, <1>11
     DEF TrNext

\* translator.c and rknn_runtime.c: for models of any shape, any number of
\* calls and of failures, a translation is made of the tensors of its own call,
\* reads a row of logits that exists, and the runtime gets every output back.
THEOREM TranslationIsSound == TrSpec => []TranslationSound
<1>1. TrInit => TrIInv
  BY TrStarts
<1>2. TrIInv /\ [TrNext]_trVars => TrIInv'
  BY TrSteps
<1>3. TrIInv => TranslationSound
  <2>1. SUFFICES ASSUME TrIInv PROVE TranslationSound
    OBVIOUS
  <2>2. /\ TrTypes /\ OutputsHeld /\ InputsSet
    BY <2>1 DEF TrIInv
  <2>3. trPc \in InCall =>
          /\ trState # 0 /\ trState \in lent["enc"]
          /\ trUsed["enc"]["tokens"][1] = call
    BY <2>2, ContextsAre DEF OutputsHeld, InputsSet
  <2>4. trPc = "choose" => Row \in 1..steps /\ (steps > 1 => Row = Len(ids))
    BY <2>2 DEF TrTypes, InputsSet, InCall, Contract, Row
  <2>5. trPc = "gone" => \A c \in Contexts : lent[c] = {}
    BY <2>2 DEF OutputsHeld, InputsSet
  <2>6. QED
    BY <2>2, <2>3, <2>4, <2>5
       DEF TranslationSound, TrTypes, OutputsHeld, InputsSet, InCall
<1>4. QED
  BY <1>1, <1>2, <1>3, PTL DEF TrSpec

-----------------------------------------------------------------------------
(* The five of them together, as the runs check them. *)

\* ocr_postproc.c, ocr_rec.c, tokenizer.c and translator.c: from the pixels to
\* the words no stage adds what the one before did not find, loses what it has
\* room for, or gives up what it holds.
THEOREM RecognitionIsSound ==
  DetSpec /\ OrderSpec /\ CtcSpec /\ TokSpec /\ TrSpec => []RecognitionSound
<1>1. /\ RegionsWhole /\ PageInOrder /\ TextMeant /\ TokensKept
      /\ TranslationSound
      => RecognitionSound
  BY DEF RecognitionSound
<1>2. QED
  BY <1>1, RegionsAreWhole, PageIsInOrder, TextIsMeant, TokensAreKept,
     TranslationIsSound, PTL

=============================================================================
