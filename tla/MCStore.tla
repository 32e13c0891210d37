------------------------------ MODULE MCStore ------------------------------
(***************************************************************************)
(* The cached store with two users, two objects of each and one text of    *)
(* each user.  A run sends the messages of one group, at most MaxMessages. *)
(***************************************************************************)
EXTENDS CachedStore, TLC

CONSTANT MaxMessages
VARIABLES sent,         \* messages so far
          group         \* those this run sends

McTexts  == {11, 12}
McAuthor == 11 :> 0 @@ 12 :> 1

\* The text of user 0 is "1:S", that of user 1 has no ':'.
McAsks == 11 :> "SYSTEM_CONFIG" @@ 12 :> "USER_CONFIG"

Text1(d) == CHOOSE t \in Texts : Author[t] = d

Basic ==
    {get_msg(d, o) : d \in Users \cup {System}, o \in Addresses}
    \cup {set_msg(d, o, piece, "whole") : d \in Users, o \in Addresses, piece \in {0, 1}}
    \cup {set_msg(d, o, Text1(d), size) :
             d \in Users, o \in Objects, size \in {"whole", "text", "nothing"}}

OnObjects(ops) == {go_msg(f, d, o, 0, 0) : f \in ops, d \in Users, o \in Addresses}
Whole(ops)     == {go_msg(f, d, 0, 0, 0) : f \in ops, d \in Users}
Classify       == {go_msg("classify", d, o, to, 0) :
                      d \in Users, o \in Objects, to \in Addresses}
MarkPrivate    == {go_msg("mark_private", d, o, 0, Text1(d)) :
                      d \in Users, o \in Addresses}

McMessages == Basic \cup OnObjects({"direct", "declassify", "broadcast"})
              \cup Whole({"login", "set_env", "search", "errorf", "sysconfig", "count"})
              \cup Classify \cup MarkPrivate

\* The groups: every message in short runs, gets and sets in longer ones, and
\* in the longest the functions that move what the system store holds.
GroupOf(m) ==
    {"all"} \cup (IF m.op \in {"GET", "SET"} /\ m.addr \in Objects
                     /\ (m.op = "SET" => m.piece # 1)
                  THEN {"memory"} ELSE {})
            \cup (IF \/ m.op \in {"broadcast", "login"} /\ m.domain = 0 /\ m.addr = 0
                     \/ m.op = "classify" /\ m.domain = 1 /\ m.addr = 0 /\ m.to \in Objects
                     \/ m.op = "SET" /\ m.domain = 0 /\ m.piece \in Texts
                     \/ m.op = "SET" /\ m.domain = 1 /\ m.addr = 0 /\ m.size = "nothing"
                     \/ m.op = "GET" /\ m.domain = System /\ m.addr = 0
                  THEN {"keys"} ELSE {})

McInit == Init /\ sent = 0 /\ group \in {"all", "memory", "keys"}

\* Shorter where there are more messages to choose from.
Bound == CASE group = "all" -> MaxMessages - 2 [] group = "memory" -> MaxMessages - 1
           [] group = "keys" -> MaxMessages

McNext ==
    /\ Next
    /\ msg = NoMessage /\ msg' # NoMessage => group \in GroupOf(msg')
    /\ msg = NoMessage /\ halted' => group = "all"
    /\ sent' = IF msg = NoMessage THEN sent + 1 ELSE sent
    /\ sent' <= Bound
    /\ UNCHANGED group

McSpec == McInit /\ [][McNext]_<<vars, sent, group>>
=============================================================================
