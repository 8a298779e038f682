---------------------------- MODULE MCApplication ----------------------------
(***************************************************************************)
(* The parts of the application around its frame path, from the start and  *)
(* the choice of the display to the text: set-up and cleanup, routing, the *)
(* main loop and its supervision, the archive of photos, text regions,     *)
(* reading order, CTC decoding, tokeniser and translation.  A behaviour is *)
(* a behaviour of one part, chosen in the initial state; the other parts   *)
(* stay as they start.  Times are in ticks of 500 ms, the long ones of the *)
(* program scaled down.                                                    *)
(***************************************************************************)
EXTENDS Startup, DisplayRoute, Supervision, PhotoArchive, Recognition, TLC

VARIABLE part

----------------------------------------------------------------------------
(* Two connectors with every routing of two encoders and CRTCs, and a third
   that is dark or, next to others that are all on one encoder, lit; and one
   routing with any two planes, or with any plane next to two good ones.  Of
   routings that differ in the names of connectors or CRTCs one is kept. *)
AnyEncoder == {e \in [possible : SUBSET {"k1", "k2"} \ {{}},
                      crtc : {None, "k1", "k2"}] :
                 e.crtc \in e.possible \cup {None}}
AnyConnector == {c \in [lit : BOOLEAN, mode : BOOLEAN,
                        enc : {None, "e1", "e2"},
                        encs : SUBSET {"e1", "e2"} \ {{}}] :
                   /\ c.enc \in c.encs \cup {None}
                   /\ c.mode => c.lit}
APlane(use, type, nv12, argb, blend) ==
  [use |-> use, type |-> type, nv12 |-> nv12, argb |-> argb, blend |-> blend]
AnyPlane == [use : {"idle", "ours", "other"},
             type : {"primary", "overlay", "unknown"},
             nv12 : BOOLEAN, argb : BOOLEAN, blend : {FALSE}]
Lit  == [lit |-> TRUE, mode |-> TRUE, enc |-> "e1", encs |-> {"e1"}]
Dark == [lit |-> FALSE, mode |-> FALSE, enc |-> None, encs |-> {"e2"}]
Set  == [possible |-> {"k1"}, crtc |-> "k1"]
Wired == [conn |-> {"c1" :> Lit @@ "c2" :> Dark @@ "c3" :> Dark},
          enc |-> {"e1" :> Set @@ "e2" :> [Set EXCEPT !.crtc = None]},
          plane |-> (AnyPlane \X AnyPlane)
                      \cup {<<a, APlane("idle", "overlay", FALSE, TRUE, TRUE),
                              APlane("ours", "unknown", TRUE, TRUE, FALSE)>> :
                              a \in AnyPlane}]
HardwareRange ==
  {[conn |-> {f @@ "c3" :> Dark :
                f \in {g \in [{"c1", "c2"} -> AnyConnector] :
                         g["c2"].lit => g["c1"].lit}}
               \cup [Connectors -> {Lit, Dark}],
    enc |-> {f \in [{"e1", "e2"} -> AnyEncoder] :
               f["e1"].possible # {"k2"}},
    plane |-> {<<APlane("ours", "primary", TRUE, TRUE, FALSE)>>}],
   Wired}
SomeHardware == [conn |-> "c1" :> Lit @@ "c2" :> Dark @@ "c3" :> Dark,
                 enc |-> "e1" :> Set @@ "e2" :> Set,
                 plane |-> <<APlane("ours", "primary", TRUE, TRUE, FALSE)>>]

----------------------------------------------------------------------------
(* Three columns, five rows: every map of the upper three rows, and full rows
   apart from each other with up to two pixels between them. *)
Line(y) == (3 * y)..(3 * y + 2)
Between == {T \in SUBSET (Line(1) \cup Line(3)) : Cardinality(T) <= 2}
SomeMaps == SUBSET (Line(0) \cup Line(1) \cup Line(2))
              \cup {T \cup UNION {Line(y) : y \in R} :
                      T \in Between, R \in SUBSET {0, 2, 4}}

SomeBoxes == [x : {0, 9}, y : {0, 3, 5}, h : {2, 12}, valid : {TRUE}]
           \cup {[x |-> 0, y |-> 0, h |-> 2, valid |-> FALSE]}


----------------------------------------------------------------------------
Piece(mark, text_) == [mark |-> mark, text |-> text_]
SomePieces == {Piece(FALSE, <<"a">>), Piece(TRUE, <<"a">>),
               Piece(FALSE, <<"a", "b">>), Piece(TRUE, <<"b", "b">>),
               Piece(FALSE, <<"b", "a", "b">>), Piece(FALSE, <<"z">>),
               Piece(FALSE, <<"a">> \o EndWord),
               Piece(TRUE, <<"b", "b">> \o EndWord)}
          \cup {Piece(FALSE, <<c>>) : c \in Range(EndWord)}
(* Every short text, and some longer ones in which a word-end mark stands. *)
SomeTexts == SeqOf({"a", "b", "z", "_"}, 4)
               \cup {s \o EndWord \o t : s \in SeqOf({"a", "b"}, 2),
                                      t \in SeqOf({"a", "b", "_"}, 1)}
Wide == [c \in Chars \cup {UnkText} |->
           IF c = UnkText THEN 5 ELSE IF c = "z" THEN 3 ELSE 1]

----------------------------------------------------------------------------
Parts == {"start", "route", "sup", "archive", "det", "order", "ctc", "tok",
          "tr"}

(* The inputs of a part that does not run are pinned to one value. *)
Init ==
    /\ part \in Parts
    /\ part # "start" => ocrOnly = FALSE
    /\ part # "route" => hw = SomeHardware
    /\ part # "archive" => dates = {}
    /\ part # "det"   => map = {}
    /\ part # "order" => list = <<>>
    /\ part # "ctc"   => file = <<"a">> /\ alphabet = <<"-", "a">>
                         /\ labels = <<>> /\ room = 0
    /\ part # "tok"   => kind = "bpe" /\ hasBos = FALSE /\ hasEos = FALSE
                         /\ tokRoom = 1 /\ text = <<>>
    /\ part # "tr"    => capacity = 1 /\ steps = 1
    /\ StartInit /\ SupInit /\ ArchInit
    /\ DetInit /\ OrderInit /\ CtcInit /\ TokInit /\ TrInit
    /\ RouteInit   \* last: it has by far the most values

StartStep == /\ part = "start" /\ StartNext
             /\ UNCHANGED <<part, supVars, archVars, routeVars, detVars,
                            orderVars, ctcVars, tokVars, trVars>>
RouteStep == /\ part = "route" /\ RouteNext
             /\ UNCHANGED <<part, supVars, archVars, startVars,
                            detVars, orderVars, ctcVars, tokVars, trVars>>
SupStep == /\ part = "sup" /\ SupNext
           /\ UNCHANGED <<part, archVars, startVars, routeVars,
                          detVars, orderVars, ctcVars, tokVars, trVars>>
ArchStep == /\ part = "archive" /\ ArchNext
            /\ UNCHANGED <<part, supVars, startVars, routeVars, detVars,
                           orderVars, ctcVars, tokVars, trVars>>
DetStep == /\ part = "det" /\ DetNext
           /\ UNCHANGED <<part, supVars, archVars, startVars,
                          routeVars, orderVars, ctcVars, tokVars, trVars>>
OrderStep == /\ part = "order" /\ OrderNext
             /\ UNCHANGED <<part, supVars, archVars, startVars,
                            routeVars, detVars, ctcVars, tokVars, trVars>>
CtcStep == /\ part = "ctc" /\ CtcNext
           /\ UNCHANGED <<part, supVars, archVars, startVars,
                          routeVars, detVars, orderVars, tokVars, trVars>>
TokStep == /\ part = "tok" /\ TokNext
           /\ UNCHANGED <<part, supVars, archVars, startVars,
                          routeVars, detVars, orderVars, ctcVars, trVars>>
TrStep == /\ part = "tr" /\ TrNext
          /\ UNCHANGED <<part, archVars, supVars, startVars, routeVars,
                         detVars, orderVars, ctcVars, tokVars>>

Next == \/ StartStep \/ RouteStep \/ SupStep \/ ArchStep \/ DetStep
        \/ OrderStep \/ CtcStep \/ TokStep \/ TrStep

vars == <<part, startVars, routeVars, supVars, archVars, detVars,
          orderVars, ctcVars, tokVars, trVars>>

(* As in Supervision: its threads run and its time passes. *)
SupFairness == /\ WF_supVars(part = "sup" /\ MainStep)
               /\ WF_supVars(part = "sup" /\ WatchStep)
               /\ WF_supVars(part = "sup" /\ Tick)

Spec == Init /\ [][Next]_vars /\ SupFairness

----------------------------------------------------------------------------
(* main.c and system_manager.c: a signal or the watchdog ends a program that is
   not blocked, and the watchdog notices one that is. *)
ExitsLive == ExitHeeded /\ HangNoticed

(* ocr_postproc.c and tokenizer.c: the order of the boxes is the only one that
   meets the definition of a reading order, and a text that fits is read back
   from its tokens. *)
ReadingSound == OrderOfThePage /\ TextReadBack
=============================================================================
