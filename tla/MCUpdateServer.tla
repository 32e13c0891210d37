--------------------------- MODULE MCUpdateServer ---------------------------
(***************************************************************************)
(* The update server: three clients that come and go around two places,    *)
(* with requests that build nothing up, signals and whatever malloc left;  *)
(* or two clients that update at the same time, each with a file of its    *)
(* own, one of them in pieces and with uploads that break off.             *)
(***************************************************************************)
EXTENDS UpdateServer

VARIABLE scene

McNameOf == [c1 |-> "name1", c2 |-> "name2", c3 |-> "name1"]

McVars == <<vars, scene>>
In(A) == A /\ UNCHANGED scene
Updaters == Client \ {"c3"}
Sound == {p \in Pieces : "good" \in DOMAIN p.piece => p.piece.good}
Plain == {p \in Pieces : p.piece.cmd \in {"GET", "cut", "other"}} \union (Pieces \ Sound)

Crowd ==
    /\ scene = "crowd"
    /\ \/ Signal
       \/ \E c \in Client : Connect(c) \/ Leave(c) \/ SendRest(c) \/ \E p \in Plain : requests = 0 /\ Send(c, p)
Updates ==
    /\ scene = "updates"
    /\ \E c \in Updaters : \/ Connect(c) /\ connects < Cardinality(Updaters)
                           \/ Leave(c) /\ c \in later
                           \/ SendRest(c)
                           \/ \E p \in Sound \ Plain : (c = "c2" => ~p.rest) /\ Send(c, p)

McInit ==
    /\ Init /\ scene \in {"crowd", "updates"}
    /\ scene = "updates" => found = "free"
McNext == In(Server) \/ In(Crowd) \/ In(Updates)
McSpec == McInit /\ [][McNext]_McVars /\ WF_McVars(In(Server))
                 /\ \A c \in Client : WF_McVars(In(SendRest(c)))
=============================================================================
