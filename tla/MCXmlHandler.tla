---------------------------- MODULE MCXmlHandler ----------------------------
(* Instance of AlertIntake for TLC. *)
EXTENDS AlertIntake, TLC

LOCAL Point(x, y) == [x |-> x, y |-> y]

\* A triangle and an L, two degrees wide.
MCArea == [
  triangle |-> <<Point(0, 20), Point(0, 0), Point(20, 0), Point(0, 20)>>,
  ell      |-> <<Point(20, 8), Point(8, 8), Point(8, 20), Point(0, 20), Point(0, 0),
                 Point(20, 0), Point(20, 8)>>]

MCStation == {Point(x, y) : x \in {-5, 2, 5, 7, 14, 25}, y \in {-5, 0, 3, 8, 9, 13}}

\* Every place with the alerts that have polygons; one place with the others.
MCSetup ==
  {[station |-> s, sent |-> {d}] : s \in MCStation, d \in {"flood", "fireAgain"}} \union
  {[station |-> Point(5, 3), sent |-> d] :
     d \in {{"heartbeat", "fire"}, {"fire", "flood"},
            {"fire", "fireLater", "fireAgain"}, {"test", "broken"}, {"faulty", "heartbeat"}}}

MCInside == [p \in DOMAIN MCArea, s \in MCStation |-> Geo!IsInside(MCArea[p], s)]

LOCAL Info(language, event, areas, resources) ==
  [language |-> language, event |-> event, areas |-> areas, resources |-> resources]

MCDoc == {"heartbeat", "test", "broken", "fire", "fireLater", "fireAgain", "flood", "faulty"}
MCShort == {"heartbeat"}
MCStatus == [d \in MCDoc |->
  CASE d = "heartbeat" -> "System" [] d = "test" -> "Test" [] d = "broken" -> "missing"
    [] OTHER -> "Actual"]
MCIdent == [d \in MCDoc |-> d]
\* fireLater is within 15 minutes of fire and of fireAgain, which are not of each other.
MCSent == [d \in MCDoc |->
  CASE d = "fireLater" -> 600 [] d = "fireAgain" -> 1200 [] OTHER -> 0]
MCInfos == [d \in MCDoc |->
  CASE d = "fire" -> <<Info("en-CA", "fire", {}, <<>>), Info("fr-CA", "fire", {}, <<>>)>>
    [] d = "fireLater" -> <<Info("none", "fire", {},
          <<{"broadcast", "mpeg", "embedded", "link"}, {"map"}, {"broadcast", "mpeg"}>>)>>
    [] d = "fireAgain" -> <<Info("en-US", "fire", {<<"ell", "triangle">>},
          <<{"broadcast"}, {"broadcast", "link"}, {"broadcast", "nolink"}, {"broadcast", "link"}>>),
                            Info("fr-CA", "fire", {<<"ell">>}, <<>>)>>
    [] d = "flood" -> <<Info("en-CA", "flood", {<<"triangle">>, <<>>}, <<{"map"}>>),
                        Info("fr-CA", "flood", {<<"triangle">>, <<"ell", "triangle">>}, <<>>),
                        Info("en-US", "wind", {<<"triangle">>}, <<>>),
                        Info("es-MX", "wind", {<<>>}, <<>>)>>
    [] d = "faulty" -> <<Info("en-CA", "frost", {}, <<>>),
                         Info("fr-CA", "frost", {}, <<{"broadcast", "link"}, {"faulty"}>>),
                         Info("es-MX", "frost", {}, <<>>)>>
    [] OTHER -> <<>>]

Symmetry == Permutations(Host)
=============================================================================
