------------------------------- MODULE MCFett -------------------------------
(***************************************************************************)
(* The application as it starts and fails; with clients whose packets are  *)
(* lost, doubled and late; with a browser, an update and a STOP message;   *)
(* or with two browsers and no memory for what they ask, and a web site    *)
(* that may have been set up in part.                                      *)
(***************************************************************************)
EXTENDS FettServers

VARIABLE scene

McBlocks == [page |-> 2, stop |-> 1, large |-> 4, forged |-> 4]

McVars == <<vars, scene>>
In(A) == A /\ UNCHANGED scene

Quiet == gets' = 0 /\ \A b \in Browsers : conn'[b].st = "away"
Away(c) == host'[c].st = "away"
Started == main = "count" /\ ota # "create" /\ http # "create"
(* Starts: the tasks alone, and at most a STOP message. *)
Starts == /\ scene = "starts" /\ Quiet
          /\ faults' <= 1 /\ Away("c1") /\ host'["c2"].file \in {"none", "stop"}
(* Packets: any file with two faults, or with one fault and, while or after the page *)
(* is uploaded, STOP or a bad request.                                               *)
Packets == /\ scene = "packets" /\ Quiet
           /\ ~Away("c2") => host'["c1"].file = "page" /\ host'["c2"].file \in {"none", "stop"}
           /\ ~Started => faults' = 0 /\ Away("c1")
           /\ faults' # faults => UNCHANGED <<ended, http>>
           /\ faults' <= 1 \/ Away("c2")
(* Pages: the page, STOP when that is done, and browsers. *)
Pages == /\ scene = "pages" /\ faults' = 0 /\ gets' <= 2 /\ conn'["b2"].st = "away"
         /\ ~Started => Quiet /\ Away("c1")
         /\ host'["c1"].file \in {"none", "page"} /\ host'["c1"].st # "wrong"
         /\ ~Away("c2") => host'["c1"].st = "sent" /\ host'["c2"].file = "stop"
         /\ xRetries' = 0
(* Crowd: two browsers and no upload; one fault, in the setup or of memory. *)
Crowd == /\ scene = "crowd" /\ Away("c1") /\ Away("c2")
         /\ ~Started => Quiet
         /\ faults' <= 1
         /\ faults' # faults => main = "assets" \/ http' = "crashed"
McInit == Init /\ scene \in {"starts", "packets", "pages", "crowd"}
McNext == In(Next) /\ (Starts \/ Packets \/ Pages \/ Crowd)
McSpec == /\ McInit /\ [][McNext]_McVars
          /\ WF_McVars(In(Alive /\ Main)) /\ SF_McVars(In(Alive /\ Ota)) /\ SF_McVars(In(Alive /\ Http))
=============================================================================
