---------------------------- MODULE AlertIntake ----------------------------
(***************************************************************************)
(* The intake of alerts with the area test: XmlHandler with GeoUtil as its *)
(* checkArea (main.mm:166-169).                                            *)
(***************************************************************************)
EXTENDS XmlHandler

CONSTANT Area  \* Area[p]: the points of polygon p

Geo == INSTANCE GeoUtil

ASSUME AreaConstants ==
  /\ \A p \in DOMAIN Area : Area[p] \in Seq(Geo!Point)
  /\ \A s \in Setup : s.station \in Geo!Point
  /\ \A p \in DOMAIN Area, s \in Setup :
       Inside[<<p, s.station>>] = Geo!IsInside(Area[p], s.station)
  /\ \A d \in Doc : \A k \in DOMAIN Infos[d] : Infos[d][k].areas \subseteq Seq(DOMAIN Area)

\* The polygon an area counts by encloses the station, and none of its corners has
\* the station's longitude.
Encloses(info) ==
  \E a \in info.areas :
    /\ a # <<>>
    /\ Geo!Encloses(Area[a[1]], setup.station) /\ ~Geo!Level(Area[a[1]], setup.station)

\* An alert is taken, or basically the same as one that was, when in each of its infos so
\* far the first polygon of some area encloses the station.  Excepted are a station with
\* the longitude of a corner, where a crossing of the ray is counted for both sides of
\* it (geoutil.cpp:42-43), infos behind one that repeats another alert or info, and the
\* alert whose loop is under way or ended the process.  What encloses the station in the
\* second polygon of an area or in a circle is not looked at (xmlhandler.cpp:128-131).
HandedWhenInside ==
  \A d \in Doc : \A k \in DOMAIN Infos[d] :
    /\ Status[d] = "Actual" /\ Ident[d] \in stored /\ doing # d
    /\ \A j \in 1 .. k : Encloses(Infos[d][j])
    => Seen(Item(d, k)) \/ \E j \in 1 .. k - 1 : Repeats(d, j)

\* An alert with areas is only handed on when the first polygon of one of them encloses
\* the station, or has a side so close to it that it counts as on it, a corner's
\* longitude again excepted.
NotHandedElsewhere ==
  \A j \in handed : \E d \in Doc : \E k \in DOMAIN Infos[d] :
    /\ j \in Jobs(d, k)
    /\ \/ Infos[d][k].areas = {}
       \/ \E a \in Infos[d][k].areas :
            /\ a # <<>>
            /\ \/ Geo!Encloses(Area[a[1]], setup.station)
               \/ Geo!OnBorder(Area[a[1]], setup.station)
               \/ Geo!Level(Area[a[1]], setup.station)
=============================================================================
