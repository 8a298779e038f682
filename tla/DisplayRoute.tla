---------------------------- MODULE DisplayRoute -----------------------------
(***************************************************************************)
(* How the program finds its way to the screen: the connector, the CRTC    *)
(* and the mode (src/app/display/drm_device.c), then one plane for the     *)
(* video and one for the text (src/app/display/drm_plane.c), on hardware   *)
(* that other displays may be using.  Where the code takes the first of    *)
(* equally good candidates, any of them may be first.                      *)
(***************************************************************************)
EXTENDS Integers, Sequences, FiniteSets

CONSTANTS Crtcs, Encoders, Connectors,
          None,
          MaxRouted, \* OCR_DRM_MAX_CONNECTORS
          Hardware   \* ranges of hardware, each a record of three sets

(* A piece of hardware is a record of                                      *)
(*   conn:  for each connector whether it is lit, whether its CRTC can be  *)
(*          read and it has a mode of the wanted size, its current encoder *)
(*          or None, its encoders;                                         *)
(*   enc:   for each encoder its current CRTC or None, the CRTCs it can    *)
(*          drive;                                                         *)
(*   plane: a sequence of records: use is "idle", "ours" (on the chosen    *)
(*          CRTC) or "other"; type "primary", "overlay" or "unknown";      *)
(*          nv12, argb and blend, what it supports.                        *)
Planes == [use : {"idle", "ours", "other"},
           type : {"primary", "overlay", "unknown"},
           nv12 : BOOLEAN, argb : BOOLEAN, blend : BOOLEAN]

ASSUME HardwareAssumption ==
    /\ None \notin Crtcs
    /\ MaxRouted \in Nat \ {0}
    /\ \A s \in Hardware : s.plane \subseteq Seq(Planes)

VARIABLES hw,
          left,     \* connectors not yet looked at
          conn, crtc, routed, base, overlay, stage
routeVars == <<hw, left, conn, crtc, routed, base, overlay, stage>>

RouteInit ==
  /\ \E s \in Hardware : hw \in [conn : s.conn, enc : s.enc, plane : s.plane]
  /\ left = Connectors /\ conn = None /\ crtc = None /\ routed = {}
  /\ base = 0 /\ overlay = 0 /\ stage = "connector"

CurrentCrtc(c) ==
  IF hw.conn[c].enc = None THEN None ELSE hw.enc[hw.conn[c].enc].crtc
\* A connector that is lit and driven by this CRTC.
Drives(k, c) == hw.conn[c].lit /\ CurrentCrtc(c) = k

\* Mutant: the other connectors are not asked.
BugUsedByOther(k, c) == FALSE
UsedByOther(k, c) == \E d \in Connectors \ {c} : Drives(k, d)

\* choose_crtc_for_connector: an active connector keeps its CRTC; another
\* one takes a free CRTC, best the one an encoder of its own is set to.
FreeRoutes(c) ==
  {r \in hw.conn[c].encs \X Crtcs :
     /\ r[2] \in hw.enc[r[1]].possible
     /\ ~UsedByOther(r[2], c)}
RouteScore(c, r) == (IF hw.enc[r[1]].crtc = r[2] THEN 100 ELSE 0)
                      + (IF hw.conn[c].enc = r[1] THEN 20 ELSE 0)
Routes(c) ==
  IF CurrentCrtc(c) # None
  THEN {CurrentCrtc(c)} \cap hw.enc[hw.conn[c].enc].possible
  ELSE {r[2] : r \in {q \in FreeRoutes(c) : \A o \in FreeRoutes(c) :
                        RouteScore(c, q) >= RouteScore(c, o)}}

\* collect_routed_connectors: everything the CRTC shows its picture on.
Routed(k, c) == LET on == {d \in Connectors : Drives(k, d)}
                IN  IF on = {} THEN {c} ELSE on

\* ocr_drm_setup_crtc_mode: the first connector that can be used.  One whose
\* CRTC shows its picture on more connectors than there is room for cannot.
Usable(c) ==
  /\ hw.conn[c].lit /\ hw.conn[c].mode /\ Routes(c) # {}
  /\ \A k \in Routes(c) : Cardinality(Routed(k, c)) <= MaxRouted
Connect(c) ==
  /\ stage = "connector" /\ c \in left /\ Usable(c)
  /\ \E k \in Routes(c) :
       conn' = c /\ crtc' = k /\ routed' = Routed(k, c)
  /\ stage' = "planes"
  /\ UNCHANGED <<hw, left, base, overlay>>
PassOver(c) ==
  /\ stage = "connector" /\ c \in left /\ ~Usable(c)
  /\ left' = left \ {c}
  /\ UNCHANGED <<hw, conn, crtc, routed, base, overlay, stage>>
NoScreen ==
  /\ stage = "connector" /\ left = {}
  /\ stage' = "failed"
  /\ UNCHANGED <<hw, left, conn, crtc, routed, base, overlay>>

---------------------------------------------------------------------------
\* ocr_drm_planes_init
Available == {i \in 1..Len(hw.plane) : hw.plane[i].use # "other"}
Bases == {i \in Available : hw.plane[i].nv12
                             /\ hw.plane[i].type \in {"primary", "unknown"}}
Overlays == {i \in Available :
               /\ hw.plane[i].argb
               /\ hw.plane[i].type \in {"overlay", "unknown"}
               /\ hw.plane[i].use = "idle"}
BaseScore(i) == (IF hw.plane[i].type = "primary" THEN 120 ELSE 0)
                  + (IF hw.plane[i].use = "ours" THEN 15 ELSE 0)
OverlayScore(j) == (IF hw.plane[j].type = "overlay" THEN 120 ELSE 0)
                     + (IF hw.plane[j].blend THEN 10 ELSE 0)
Pairs == {p \in Bases \X Overlays : p[1] # p[2]}
PairScore(p) == BaseScore(p[1]) + OverlayScore(p[2])

ChoosePlanes ==
  /\ stage = "planes"
  /\ \/ \E p \in Pairs :
          /\ \A q \in Pairs : PairScore(p) >= PairScore(q)
          /\ base' = p[1] /\ overlay' = p[2] /\ stage' = "shown"
     \/ /\ Pairs = {} /\ UNCHANGED overlay
        /\ \E b \in Bases :
             /\ \A o \in Bases : BaseScore(b) >= BaseScore(o)
             /\ base' = b
        /\ stage' = "shown"
     \/ /\ Bases = {}
        /\ stage' = "failed" /\ UNCHANGED <<base, overlay>>
  /\ UNCHANGED <<hw, left, conn, crtc, routed>>

RouteNext == (\E c \in Connectors : Connect(c) \/ PassOver(c))
          \/ NoScreen \/ ChoosePlanes
RouteSpec == RouteInit /\ [][RouteNext]_routeVars

---------------------------------------------------------------------------
\* Nothing is taken from another display: a mode set on the CRTC keeps every
\* connector that shows it, and changes no connector that does not show what
\* ours shows already, and there is room for them all; the text plane is idle
\* and not the video's.
NothingTaken ==
  /\ crtc # None =>
       /\ \A d \in Connectors \ {conn} :
            Drives(crtc, d) => d \in routed /\ CurrentCrtc(conn) = crtc
       /\ conn \in routed /\ Cardinality(routed) <= MaxRouted
  /\ overlay # 0 => overlay # base /\ hw.plane[overlay].use = "idle"
  /\ base # 0 => hw.plane[base].use # "other"

\* What the hardware allows is found: a screen when one has a mode and a
\* CRTC, and text over the video when some pair of planes can do both.
AllowedIsFound ==
  /\ stage = "failed" /\ crtc = None => \A c \in Connectors : ~Usable(c)
  /\ stage = "shown" /\ overlay = 0 =>
       ~ \E i, j \in Available :
           /\ i # j /\ i \in Bases /\ j \in Overlays
  /\ stage = "failed" /\ crtc # None =>
       \A i \in Available : ~hw.plane[i].nv12 \/ hw.plane[i].type = "overlay"

\* Both, for the display the program ends up with.
RouteSound == NothingTaken /\ AllowedIsFound
=============================================================================
