---------------------------- MODULE Infotainment ----------------------------
(***************************************************************************)
(* The infotainment servers of the demonstrator                           *)
(* (besspin/cyberPhys/infotainment-server/source).  Each runs on a target *)
(* of its own; all of them listen and broadcast on one UDP port of one    *)
(* segment, so a server hears the thin client (buttons), the simulator    *)
(* (positions), the tool (heartbeat requests), the other servers, and     *)
(* itself.                                                                *)
(*                                                                        *)
(* A datagram is a record: who sent it, its CAN ID, its value.  Everything*)
(* receive_frame throws away (empty, short, J1939, wrong length) has the  *)
(* ID "junk".  A float is <<"net", v>> on the wire and v in the server.   *)
(***************************************************************************)
EXTENDS Integers, Sequences, FiniteSets

CONSTANTS Server,         \* the targets that run a server
          ButtonIds,      \* the buttons pressed
          Dim,            \* the CAR_* dimensions in use
          Pos,            \* the positions the simulator reports, 0 among them
          MAX_VOLUME, DEFAULT_VOLUME,
          MaxSent,        \* frames the other components send, and SIGINTs, in all
          MaxInbox,       \* datagrams a socket buffer holds
          MaxInterrupts   \* SIGINTs sent to the servers

ASSUME VolumeAssumption == /\ MAX_VOLUME \in Nat /\ DEFAULT_VOLUME \in Nat
                           /\ 0 < DEFAULT_VOLUME /\ DEFAULT_VOLUME < MAX_VOLUME
ASSUME PosAssumption == 0 \in Pos
ASSUME NamesAssumption ==
    /\ Server \cap {"client", "sim", "tool"} = {}
    /\ Dim \cap {"BUTTON_PRESSED", "INFOTAINMENT_STATE", "HEARTBEAT_REQ", "HEARTBEAT_ACK", "junk"} = {}
ASSUME BoundsAssumption == {MaxSent, MaxInbox, MaxInterrupts} \subseteq Nat

VARIABLES st,             \* the_state of each server
          pc,             \* where its main thread is
          inbox,          \* the datagrams its socket holds
          localAddress,   \* local_address.s_addr, 0 until it is learned
          sent,           \* frames the other components have sent
          interrupts,     \* SIGINTs sent so far
          music,          \* the last INFOTAINMENT_STATE byte each server broadcast
          relayLost       \* a server's own broadcast did not reach some server

vars == <<st, pc, inbox, localAddress, sent, interrupts, music, relayLost>>

MIN_VOLUME == 0
NoByte == -1

InfotainmentState ==
    [T : {"START", "RUNNING", "STOP"},
     V : {"OFF", "UNKNOWN", "IN_RANGE", "MAX"}, volume : MIN_VOLUME .. MAX_VOLUME,
     M : {"UNKNOWN", "PAUSED", "PLAYING"}, S : {"UNKNOWN", "SET"}, station : 0..3,
     P : {"UNKNOWN", "SET"}, pos : [Dim -> Pos]]

Initialized ==
    [T |-> "RUNNING", V |-> "UNKNOWN", volume |-> 0, M |-> "UNKNOWN", S |-> "UNKNOWN",
     station |-> 0, P |-> "UNKNOWN", pos |-> [d \in Dim |-> 0]]

iu_htonf(v) == <<"net", v>>
iu_ntohf(w) == w[2]

(***************************************************************************)
(* The state machine of the music.                                        *)
(***************************************************************************)
set_station(s, n) == [s EXCEPT !.M = "PLAYING", !.S = "SET", !.station = n]

VolumeState(v) == IF v = MAX_VOLUME THEN "MAX" ELSE IF v = MIN_VOLUME THEN "OFF" ELSE "IN_RANGE"

WithVolume(s, v, state) == [s EXCEPT !.volume = v, !.V = state]

\* A changed form of the next definition: it goes on at the top of the range.
IncreasePastMax(s) ==
    IF s.V = "UNKNOWN" THEN WithVolume(s, DEFAULT_VOLUME, "IN_RANGE")
    ELSE WithVolume(s, s.volume + 1, VolumeState(s.volume + 1))

increase_volume(s) ==
    CASE s.V = "UNKNOWN" -> WithVolume(s, DEFAULT_VOLUME, "IN_RANGE")
      [] s.V \in {"IN_RANGE", "OFF"} ->
            WithVolume(s, s.volume + 1, IF s.volume + 1 = MAX_VOLUME THEN "MAX" ELSE "IN_RANGE")
      [] OTHER -> s

\* A changed form of the next definition: silence is not recorded as OFF.
DecreaseStaysInRange(s) ==
    IF s.V = "UNKNOWN" THEN WithVolume(s, DEFAULT_VOLUME, "IN_RANGE")
    ELSE IF s.volume > MIN_VOLUME THEN WithVolume(s, s.volume - 1, "IN_RANGE") ELSE s

decrease_volume(s) ==
    CASE s.V = "UNKNOWN" -> WithVolume(s, DEFAULT_VOLUME, "IN_RANGE")
      [] s.V \in {"IN_RANGE", "MAX"} ->
            WithVolume(s, s.volume - 1, IF s.volume - 1 = MIN_VOLUME THEN "OFF" ELSE "IN_RANGE")
      [] OTHER -> s

handle_button_press(s, button) ==
    CASE button = "STATION_1"   -> set_station(s, 1)
      [] button = "STATION_2"   -> set_station(s, 2)
      [] button = "STATION_3"   -> set_station(s, 3)
      [] button = "VOLUME_DOWN" -> decrease_volume(s)
      [] button = "VOLUME_UP"   -> increase_volume(s)
      [] OTHER -> s

(* The byte: bit 0 playing, bits 1-2 the station, the rest the volume; it *)
(* has as many bits as MAX_VOLUME needs, five in the code.                *)
ByteSize == 8 * (MAX_VOLUME + 1)
\* A changed form of the next definition: the volume reaches into the station.
PacketOverlaps(s) == (s.volume * 4 + s.station * 2 + (IF s.M = "PLAYING" THEN 1 ELSE 0)) % ByteSize
music_state_packet(s) ==
    (s.volume * 8 + s.station * 2 + (IF s.M = "PLAYING" THEN 1 ELSE 0)) % ByteSize
play(c) == c % 2
station(c) == (c \div 2) % 4
volume(c) == c \div 8

(***************************************************************************)
(* The segment.  A broadcast reaches every server that listens, its sender*)
(* included; a full socket buffer drops it.                               *)
(***************************************************************************)
Listening(s) == pc[s] = "recv"
Frame(who, id, val) == [from |-> who, id |-> id, val |-> val]
is_relevant(id) == id \in Dim \union {"BUTTON_PRESSED", "HEARTBEAT_REQ"}

(* broadcast_frame of server s, which has just taken the head of its inbox*)
Popped(s) == [inbox EXCEPT ![s] = Tail(@)]
broadcast_frame(s, f) ==
    LET room == [x \in Server |-> Listening(x) /\ Len(Popped(s)[x]) < MaxInbox]
    IN  /\ inbox' = [x \in Server |-> IF room[x] THEN Append(Popped(s)[x], f) ELSE Popped(s)[x]]
        /\ relayLost' = (relayLost \/ \E x \in Server : ~room[x])

(***************************************************************************)
(* main and main_loop.                                                    *)
(***************************************************************************)
(* initialize, then udp_socket: from here on the server listens.          *)
Start(s) ==
    /\ pc[s] = "start"
    /\ st' = [st EXCEPT ![s] = Initialized]
    /\ pc' = [pc EXCEPT ![s] = "recv"]
    /\ UNCHANGED <<inbox, localAddress, sent, interrupts, music, relayLost>>

(* is_our_address: a datagram from our own address is ignored; the first  *)
(* one tells the server which address it has.                             *)
ReceiveOwn(s) ==
    /\ pc[s] = "recv" /\ inbox[s] # << >>
    /\ Head(inbox[s]).from = s
    /\ inbox' = Popped(s)
    /\ localAddress' = [localAddress EXCEPT ![s] = IF @ = 0 THEN s ELSE @]
    /\ UNCHANGED <<st, pc, sent, interrupts, music, relayLost>>

(* receive_frame goes round its own loop, which does not look at T.       *)
ReceiveJunk(s) ==
    /\ pc[s] = "recv" /\ inbox[s] # << >>
    /\ Head(inbox[s]).from # s /\ Head(inbox[s]).id = "junk"
    /\ inbox' = Popped(s)
    /\ UNCHANGED <<st, pc, localAddress, sent, interrupts, music, relayLost>>

(* A frame that is none of these ends receive_frame; once it is handled   *)
(* main_loop looks at T, and closes the socket when it is STOP.           *)
\* A changed form of the next definition: main_loop does not look at T.
TakesOn(s) == /\ pc[s] = "recv" /\ inbox[s] # << >>
              /\ Head(inbox[s]).from # s /\ Head(inbox[s]).id # "junk"
              /\ UNCHANGED <<pc, localAddress, sent, interrupts>>

Takes(s) == /\ pc[s] = "recv" /\ inbox[s] # << >>
            /\ Head(inbox[s]).from # s /\ Head(inbox[s]).id # "junk"
            /\ pc' = [pc EXCEPT ![s] = IF st[s].T = "RUNNING" THEN "recv" ELSE "done"]
            /\ UNCHANGED <<localAddress, sent, interrupts>>

ReceiveIrrelevant(s) ==
    /\ Takes(s) /\ ~is_relevant(Head(inbox[s]).id)
    /\ inbox' = Popped(s)
    /\ UNCHANGED <<st, music, relayLost>>

(* update_position, and broadcast_position when it changed something.     *)
Positioned(s, d, v) ==
    /\ st' = [st EXCEPT ![s].pos[d] = v]
    /\ IF v # st[s].pos[d]
       THEN broadcast_frame(s, Frame(s, d, iu_htonf(v)))
       ELSE inbox' = Popped(s) /\ UNCHANGED relayLost
    /\ UNCHANGED music

\* A changed form of the next definition: the position is kept, not relayed.
KeepPosition(s) ==
    /\ Takes(s) /\ Head(inbox[s]).id \in Dim
    /\ st' = [st EXCEPT ![s].pos[Head(inbox[s]).id] = iu_ntohf(Head(inbox[s]).val)]
    /\ inbox' = Popped(s)
    /\ UNCHANGED <<music, relayLost>>

ReceivePosition(s) ==
    /\ Takes(s) /\ Head(inbox[s]).id \in Dim
    /\ LET v == iu_ntohf(Head(inbox[s]).val)
       IN  Positioned(s, Head(inbox[s]).id, v)

(* handle_button_press, then broadcast_music_state whatever was pressed.  *)
ReceiveButton(s) ==
    /\ Takes(s) /\ Head(inbox[s]).id = "BUTTON_PRESSED"
    /\ st' = [st EXCEPT ![s] = handle_button_press(@, Head(inbox[s]).val)]
    /\ music' = [music EXCEPT ![s] = music_state_packet(st'[s])]
    /\ broadcast_frame(s, Frame(s, "INFOTAINMENT_STATE", music'[s]))

(* broadcast_heartbeat_ack: our address and the number of the request.    *)
ReceiveHeartbeat(s) ==
    /\ Takes(s) /\ Head(inbox[s]).id = "HEARTBEAT_REQ"
    /\ broadcast_frame(s, Frame(s, "HEARTBEAT_ACK",
                                [addr |-> localAddress[s], req |-> Head(inbox[s]).val]))
    /\ UNCHANGED <<st, music>>

(* interrupt_handler calls stop().  A server blocked in recvfrom gets EINTR*)
(* and leaves the loop, as does one about to look at T; one between that  *)
(* look and recvfrom goes on to receive.  Before initialize the handler's *)
(* STOP is overwritten.                                                   *)
Interrupt(s) ==
    /\ pc[s] # "done" /\ interrupts < MaxInterrupts /\ sent + interrupts < MaxSent
    /\ interrupts' = interrupts + 1
    /\ st' = [st EXCEPT ![s].T = "STOP"]
    /\ \/ UNCHANGED <<pc, inbox>>
       \/ /\ pc[s] = "recv"
          /\ pc' = [pc EXCEPT ![s] = "done"]
          /\ inbox' = [inbox EXCEPT ![s] = << >>]
    /\ UNCHANGED <<localAddress, sent, music, relayLost>>

(***************************************************************************)
(* The other components: the thin client, the simulator, the tool, and    *)
(* senders of datagrams the server does not want.                         *)
(***************************************************************************)
PeerFrames ==
    {Frame("client", "BUTTON_PRESSED", b) : b \in ButtonIds}
    \union {Frame("sim", d, iu_htonf(v)) : d \in Dim, v \in Pos}
    \union {Frame("tool", "HEARTBEAT_REQ", 1),
            Frame("tool", "junk", 0)}

PeerSends ==
    /\ sent + interrupts < MaxSent
    /\ \E f \in PeerFrames :
          inbox' = [s \in Server |-> IF Listening(s) /\ Len(inbox[s]) < MaxInbox
                                    THEN Append(inbox[s], f) ELSE inbox[s]]
    /\ sent' = sent + 1
    /\ UNCHANGED <<st, pc, localAddress, interrupts, music, relayLost>>

Init ==
    /\ st = [s \in Server |-> [Initialized EXCEPT !.T = "START"]]
    /\ pc = [s \in Server |-> "start"]
    /\ inbox = [s \in Server |-> << >>]
    /\ localAddress = [s \in Server |-> 0]
    /\ sent = 0
    /\ interrupts = 0
    /\ music = [s \in Server |-> NoByte]
    /\ relayLost = FALSE

ReceiveAny(s) ==
    \/ ReceiveOwn(s) \/ ReceiveJunk(s) \/ ReceiveIrrelevant(s)
    \/ ReceivePosition(s) \/ ReceiveButton(s) \/ ReceiveHeartbeat(s)

ServerStep(s) == Start(s) \/ ReceiveAny(s)

Next == (\E s \in Server : ServerStep(s) \/ Interrupt(s)) \/ PeerSends

Spec == Init /\ [][Next]_vars
FairSpec == Spec /\ \A s \in Server : WF_vars(ServerStep(s))

(***************************************************************************)
(* Properties.                                                            *)
(***************************************************************************)
ValueOf(id) ==
    CASE id \in Dim -> {iu_htonf(v) : v \in Pos}
      [] id = "BUTTON_PRESSED" -> ButtonIds
      [] id = "INFOTAINMENT_STATE" -> 0 .. ByteSize - 1
      [] id = "HEARTBEAT_ACK" -> [addr : Server \union {0}, req : 0 .. MaxSent]
      [] OTHER -> 0 .. MaxSent

IsDatagram(f) == f.from \in Server \union {"client", "sim", "tool"} /\ f.val \in ValueOf(f.id)

(* Every variable keeps its type; in particular the volume stays within the*)
(* bounds of the code and no socket holds more than its buffer.           *)
TypeOK ==
    /\ st \in [Server -> InfotainmentState]
    /\ pc \in [Server -> {"start", "recv", "done"}]
    /\ \A s \in Server : /\ Len(inbox[s]) <= MaxInbox
                         /\ \A i \in 1 .. Len(inbox[s]) : IsDatagram(inbox[s][i])
    /\ localAddress \in [Server -> Server \union {0}]
    /\ sent \in 0 .. MaxSent
    /\ interrupts \in 0 .. MaxInterrupts
    /\ music \in [Server -> {NoByte} \union (0 .. ByteSize - 1)]
    /\ relayLost \in BOOLEAN

(* The volume and the state of the volume machine tell the same story after*)
(* any sequence of presses: MAX and OFF exactly at the two ends, and no   *)
(* volume before the first press of a volume button.                      *)
VolumeConsistent ==
    \A s \in Server :
        IF st[s].V = "UNKNOWN" THEN st[s].volume = 0 ELSE st[s].V = VolumeState(st[s].volume)

(* What the thin client was last told, decoded with the client's own      *)
(* formulas, is what the server plays: no press changes the state without a*)
(* broadcast, and no field of the byte runs into another.                 *)
MusicShown ==
    \A s \in Server : music[s] # NoByte =>
        /\ volume(music[s]) = st[s].volume
        /\ station(music[s]) = st[s].station
        /\ play(music[s]) = (IF st[s].M = "PLAYING" THEN 1 ELSE 0)

(* The relays make up for what a server missed of the simulator (it started*)
(* late, its buffer was full): unless a relay was lost as well, the running*)
(* servers show one position whenever the segment is quiet, whatever was  *)
(* relayed by whom, and in which order, in between.                       *)
QuietMeansAgreement ==
    (~relayLost /\ \A s \in Server : st[s].T = "RUNNING" /\ inbox[s] = << >>)
        => \A r, s \in Server : st[r].pos = st[s].pos

(* A running server told to stop does so at the next frame at the latest: *)
(* traffic of its own, junk or the relays of the others never keep it in  *)
(* receive_frame.  Only silence can.                                      *)
StopEnds ==
    \A s \in Server :
        (st[s].T = "STOP" /\ pc[s] = "recv") ~> (pc[s] = "done" \/ inbox[s] = << >>)

(* What a server shows of its own state: well typed, the volume and its   *)
(* state at the ends of the range in step, and the byte it broadcasts one *)
(* that shows them (infotainment_server.c:170-240).                       *)
RelayInv ==
    /\ TypeOK
    /\ VolumeConsistent
    /\ MusicShown
=============================================================================
