-------------------------- MODULE MCRouteProgress --------------------------
(* An elbow drawn against its direction with stop members, the same line   *)
(* bare of them, a line out and back whose members do not fit, and one     *)
(* whose first way is drawn the wrong way round.  Beside it are the way    *)
(* back, shorter ways between two of its stops and a longer line with a    *)
(* stop that lies a little behind the one before it.  Two tasks can be at  *)
(* work at once: a handler, a scoring tick and a watchdog pass overtake    *)
(* each other.                                                             *)
EXTENDS RouteQueries, TLC

Tasks == Permutations(Task)

StopAt(id, x, y) == [id |-> id, at |-> <<x, y>>, named |-> id # "b"]
Out == <<<<0, 0>>, <<24, 0>>>>
Up == <<<<24, 24>>, <<24, 0>>>>
On == <<<<24, 0>>, <<30, 0>>>>
A == StopAt("a", 4, 1)
B == StopAt("b", 22, 0)
C == StopAt("c", 24, 22)
MCRelations ==
    {[ways |-> <<Out, Up>>, stops |-> <<A, A, B, C>>],
     [ways |-> <<Out, Up>>, stops |-> <<>>],
     [ways |-> <<Out, Reverse(Out)>>,
      stops |-> <<StopAt("d", 0, 0), StopAt("e", 24, 0), StopAt("f", 2, 0)>>],
     [ways |-> <<Reverse(Out), On>>, stops |-> <<>>],
     [ways |-> <<Up>>, stops |-> <<>>]}
MCCandidates == <<StopAt("p", 4, 1), StopAt("g", 7, 2), StopAt("q", 12, -1), StopAt("r", 22, 3),
                  StopAt("s", 12, 9)>>
MCAvgSpeeds == {NoBaseline, 8}
MCFixes == {<<2, 1>>, <<12, -3>>, <<22, 0>>, <<21, 23>>}

Other(ref, routeId, name, rank, line, stops, avg) ==
    [ref |-> ref, routeId |-> routeId, name |-> name, rank |-> rank, dir |-> DirectionOf(line, stops, avg)]
MCOwn == [ref |-> {"1"}, routeId |-> {"1"}, name |-> {"1", "town"}, rank |-> 2]
MCOthers ==
    <<Other({"1"}, {"1"}, {"1", "mill"}, 1, <<<<24, 24>>, <<24, 0>>, <<0, 0>>>>, <<C, B, A>>, <<4, 8>>),
      Other({"1", "2"}, {"1", "2"}, Null, 3, Out, <<A, StopAt("g", 7, 2), B>>, <<6, 6>>),
      Other(Null, Null, {"mill", "2"}, 4, Out, <<A, StopAt("q", 12, -1), B>>, <<4, NoBaseline>>),
      Other({"4"}, {"4"}, Null, 5, <<<<0, 0>>, <<60, 0>>>>,
            <<A, StopAt("t", 31, 0), StopAt("u", 30, 0), StopAt("v", 50, 0)>>, <<9, 1, NoBaseline>>)>>
MCStopNames == [n \in {"a", "b", "c", "d", "e", "f", "g", "p", "q", "r", "s", "t", "u", "v"} |->
    CASE n = "a" -> {"gate"} [] n \in {"c", "r"} -> {"gate", "east"} [] n \in {"d", "g"} -> {"fort"}
      [] n = "q" -> {"market"} [] OTHER -> Null]
MCTexts == {{"1"}, {"2"}, {"1", "2"}, {"mill"}, {"gate"}, {"fort"}, {"market"}, {"3"}}
MCHere == <<12, 0>>
=============================================================================
