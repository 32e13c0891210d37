---------------------------- MODULE UpdateServer ----------------------------
(***************************************************************************)
(* The server that takes software updates for the infotainment targets    *)
(* (besspin/cyberPhys/ota-update-server).  One thread polls up to         *)
(* HSTATIC_MAX_CLIENTS connections and handles one ready client at a time.*)
(* An update is three requests: PATCH filename, PATCH file, PATCH         *)
(* signature; a file whose signature is right is run.  What the requests  *)
(* build up (ota_filename, the two ok flags, the file) is global: clients *)
(* that update at the same time share it.                                 *)
(*                                                                        *)
(* TCP hands a request over in one piece or in several.  A client sends a *)
(* request when the last one is answered.  A signature is right for one   *)
(* content; a file is absent, cut short, or holds the content of a client.*)
(***************************************************************************)
EXTENDS Integers, Sequences, FiniteSets

CONSTANTS Client,               \* clients, each with an update of its own
          NameOf,               \* the name each gives its file
          HSTATIC_MAX_CLIENTS,
          MaxRequests, MaxConnects, MaxSignals

ASSUME SlotsAssumption == HSTATIC_MAX_CLIENTS \in Nat \ {0}
ASSUME ClientAssumption == Client \intersect {"free", "taken", "closed", "nobody"} = {}

VARIABLES pc,                   \* where the server's thread is
          found,                \* what the uncleared place of poll_list held
          slot,                 \* poll_list: who holds each of its places
          revents,              \* what poll reported of the places still to be looked at
          client_count,
          listening,            \* server->conn is not NULL
          peer,                 \* where each client is
          inbox,                \* the pieces its socket holds
          later,                \* the clients that have a rest to send
          waiting,              \* the clients that wait for an answer
          dropped,              \* those whose request was dropped (a history)
          response,             \* tx_buf holds one
          ota_filename, ota_filename_ok, ota_file_ok,
          files,                \* what /tmp holds under each name
          ran,                  \* the <<name, content>> that were run
          session,              \* whose requests built the state, undisturbed
          requests, connects, signals

netVars == <<peer, inbox, later, waiting, dropped, requests, connects>>
otaVars == <<ota_filename, ota_filename_ok, ota_file_ok, files, ran, session>>
pollVars == <<slot, revents, client_count, found>>
vars == <<pc, pollVars, listening, netVars, response, otaVars, signals>>

Slot == 1 .. HSTATIC_MAX_CLIENTS
Names == {NameOf[c] : c \in Client}
NoSession == [who |-> "nobody", stage |-> "none"]

At(where) == [at |-> where, slot |-> 0]
AtSlot(where, i) == [at |-> where, slot |-> i]

(* The scan of the places goes on behind place i, or back to poll.        *)
Behind(i) == IF i < HSTATIC_MAX_CLIENTS THEN AtSlot("scan", i + 1) ELSE At("poll")

(***************************************************************************)
(* Setup: create, listen.  server_create clears the places 0 .. MAX - 1,  *)
(* the last one keeps what malloc found there: a free place, a descriptor *)
(* of something else, or of nothing that is open.                         *)
(***************************************************************************)
Uncleared == {"free", "taken", "closed"}

server_create ==
    /\ found \in Uncleared
    /\ slot = [i \in Slot |-> IF i = HSTATIC_MAX_CLIENTS THEN found ELSE "free"]

server_listen ==
    /\ pc = At("start")
    /\ \/ pc' = At("poll") /\ listening' = TRUE
       \/ pc' = At("done") /\ UNCHANGED listening
    /\ UNCHANGED <<pollVars, netVars, response, otaVars, signals>>

(***************************************************************************)
(* poll, and the new connections.                                         *)
(***************************************************************************)
Event(s) ==
    IF s \in Client
    THEN (IF peer[s] = "gone" THEN {"IN", "ERR"} ELSE IF inbox[s] # << >> THEN {"IN"} ELSE {"no"})
    ELSE IF s = "closed" THEN {"ERR"} ELSE {"no"}
Calling == {c \in Client : peer[c] \in {"backlog", "left"}}

Poll ==
    /\ pc = At("poll")
    /\ \E ev \in [Slot -> {"IN", "ERR", "no"}] :
         /\ \A i \in Slot : ev[i] \in Event(slot[i])
         /\ (listening /\ Calling # {}) \/ \E i \in Slot : ev[i] # "no"
         /\ revents' = ev
    /\ pc' = IF listening /\ Calling # {} THEN At("accept") ELSE AtSlot("scan", 1)
    /\ UNCHANGED <<slot, client_count, found, listening, netVars, response, otaVars, signals>>

FreeSlots == {i \in Slot : slot[i] = "free"}

(* accept, and the first free place.  A connection for which there is none*)
(* is forgotten.                                                          *)
AcceptOne(c) ==
    /\ peer' = [peer EXCEPT ![c] = IF FreeSlots = {} THEN "leaked"
                                   ELSE IF peer[c] = "left" THEN "gone" ELSE "open"]
    /\ slot' = [i \in Slot |->
                  IF slot[i] = "free" /\ \A j \in FreeSlots : i <= j THEN c ELSE slot[i]]
    /\ client_count' = IF FreeSlots = {} THEN client_count ELSE client_count + 1

_accept_all ==
    /\ pc = At("accept")
    /\ IF ~listening THEN pc' = At("crashed") /\ UNCHANGED <<pollVars, peer>>
       ELSE IF client_count < HSTATIC_MAX_CLIENTS /\ Calling # {}
       THEN \E c \in Calling : AcceptOne(c) /\ UNCHANGED <<pc, revents, found>>
       ELSE pc' = AtSlot("scan", 1) /\ UNCHANGED <<pollVars, peer>>
    /\ UNCHANGED <<listening, inbox, later, waiting, dropped, requests, connects, response, otaVars,
                   signals>>

(* accept reports that the caller has left: the server gives up.          *)
AcceptFails ==
    /\ pc = At("accept") /\ listening /\ client_count < HSTATIC_MAX_CLIENTS
    /\ \E c \in Calling : peer[c] = "left"
    /\ pc' = At("done")
    /\ UNCHANGED <<pollVars, listening, netVars, response, otaVars, signals>>

(***************************************************************************)
(* The scan of the places.                                                *)
(***************************************************************************)
\* Changed forms of the next definition: the count stays as it was; the count
\* is lowered by the handler and by the scan.
DisconnectTwice(i) ==
    /\ slot' = [slot EXCEPT ![i] = "free"] /\ pc' = Behind(i)
    /\ client_count' = client_count - 2
    /\ peer' = [c \in Client |-> IF slot[i] = c THEN "away" ELSE peer[c]]
    /\ inbox' = [c \in Client |-> IF slot[i] = c THEN << >> ELSE inbox[c]]
    /\ waiting' = waiting \ {slot[i]}
    /\ UNCHANGED <<found, listening, later, dropped, requests, connects, otaVars, signals>>
DisconnectUncounted(i) ==
    /\ slot' = [slot EXCEPT ![i] = "free"] /\ pc' = Behind(i)
    /\ peer' = [peer EXCEPT ![slot[i]] = "away"]
    /\ inbox' = [inbox EXCEPT ![slot[i]] = << >>] /\ waiting' = waiting \ {slot[i]}
    /\ UNCHANGED <<client_count, found, listening, later, dropped, requests, connects, otaVars,
                   signals>>
Disconnect(i) ==
    /\ slot' = [slot EXCEPT ![i] = "free"]
    /\ client_count' = client_count - 1
    /\ pc' = Behind(i)
    /\ IF slot[i] \in Client
       THEN /\ peer' = [peer EXCEPT ![slot[i]] = "away"]
            /\ inbox' = [inbox EXCEPT ![slot[i]] = << >>]
            /\ waiting' = waiting \ {slot[i]}
       ELSE UNCHANGED <<peer, inbox, waiting>>
    /\ UNCHANGED <<found, listening, later, dropped, requests, connects, otaVars, signals>>

Scan(i) ==
    /\ pc = AtSlot("scan", i)
    /\ revents' = [revents EXCEPT ![i] = "no"]
    /\ \/ revents[i] = "ERR" /\ Disconnect(i)
       \/ /\ revents[i] # "ERR"
          /\ pc' = IF revents[i] = "IN" THEN AtSlot("read", i) ELSE Behind(i)
          /\ UNCHANGED <<slot, client_count, found, listening, netVars, otaVars, signals>>
    /\ UNCHANGED response

(* http_handler: piece after piece until there is none, then the last     *)
(* answer.                                                                *)
HandlerEnds(i) ==
    /\ pc = AtSlot("read", i) /\ inbox[slot[i]] = << >>
    /\ response' = FALSE
    /\ IF peer[slot[i]] = "gone" THEN Disconnect(i) /\ UNCHANGED revents
       ELSE /\ waiting' = IF response THEN waiting \ {slot[i]} ELSE waiting
            /\ pc' = Behind(i)
            /\ UNCHANGED <<pollVars, listening, peer, inbox, later, dropped, requests,
                           connects, otaVars, signals>>

(* A piece that begins with a request of this kind                        *)
Piece(i, cmd) ==
    /\ pc = AtSlot("read", i) /\ inbox[slot[i]] # << >>
    /\ Head(inbox[slot[i]]).cmd = cmd
    /\ inbox' = [inbox EXCEPT ![slot[i]] = Tail(@)]
    /\ dropped' = IF cmd = "other" THEN dropped \union {slot[i]} ELSE dropped
    /\ UNCHANGED <<pollVars, listening, peer, later, waiting, requests, connects, signals>>
Request(i) == Head(inbox[slot[i]])
Answers == response' = TRUE /\ UNCHANGED pc

(* GET, and what is no request: the rest of one that was cut, a body.     *)
\* A changed form of the next definition: what is no request gets no answer.
AnswersOnlyGet(i) ==
    /\ \E cmd \in {"GET", "rest"} : Piece(i, cmd)
    /\ response' = (response \/ Request(i).cmd = "GET")
    /\ UNCHANGED <<pc, otaVars>>
process_get(i) ==
    /\ \E cmd \in {"GET", "rest"} : Piece(i, cmd)
    /\ Answers /\ UNCHANGED otaVars

(* Two kinds of request are dropped with a message on the console alone: a*)
(* PATCH of none of the three paths, and one whose headers do not end in  *)
(* this piece.  The rest of the second comes as a piece of its own and is *)
(* answered; nothing is ever written to the client that sent the first.   *)
Unanswered(i) ==
    /\ \E cmd \in {"other", "cut"} : Piece(i, cmd)
    /\ UNCHANGED <<pc, response, otaVars>>

\* A changed form of the next definition: a name that is set is not replaced.
FirstNameStays(i) ==
    /\ Piece(i, "filename") /\ Answers
    /\ ota_filename_ok' = Request(i).good
    /\ ota_filename' = IF Request(i).good /\ ota_filename = "" THEN NameOf[slot[i]]
                       ELSE ota_filename
    /\ session' = IF Request(i).good THEN [who |-> slot[i], stage |-> "name"] ELSE NoSession
    /\ UNCHANGED <<ota_file_ok, files, ran>>
process_patch_filename(i) ==
    /\ Piece(i, "filename") /\ Answers
    /\ IF Request(i).good
       THEN /\ ota_filename' = NameOf[slot[i]] /\ ota_filename_ok' = TRUE
            /\ session' = [who |-> slot[i], stage |-> "name"]
       ELSE /\ ota_filename_ok' = FALSE /\ session' = NoSession
            /\ UNCHANGED ota_filename
    /\ UNCHANGED <<ota_file_ok, files, ran>>

Written(what) == files' = [files EXCEPT ![ota_filename] = what]

(* The file is cut to nothing as it is opened.  All of the body is there, *)
(* or the rest is waited for, or nothing of it came with the headers: then*)
(* the buffer offered to read has no room and its 0 is taken for the end. *)
process_patch_file(i) ==
    /\ Piece(i, "file") /\ response' = TRUE
    /\ IF ota_filename = "" THEN UNCHANGED <<pc, ota_file_ok, files, session>>
       ELSE /\ Written(IF Request(i).body = "all" THEN slot[i] ELSE "short")
            /\ ota_file_ok' = CASE Request(i).body = "all" -> TRUE
                                [] Request(i).body = "none" -> FALSE
                                [] OTHER -> ota_file_ok
            /\ pc' = IF Request(i).body = "some" THEN AtSlot("upload", i) ELSE pc
            /\ session' = IF session.who # slot[i] \/ Request(i).body = "none" THEN NoSession
                          ELSE IF Request(i).body = "all"
                          THEN [session EXCEPT !.stage = "file"]
                          ELSE [session EXCEPT !.stage = "name"]
    /\ UNCHANGED <<ota_filename, ota_filename_ok, ran>>

(* The loop that reads the rest of the body; nobody else is served.       *)
UploadRest(i) ==
    /\ pc = AtSlot("upload", i) /\ inbox[slot[i]] # << >>
    /\ inbox' = [inbox EXCEPT ![slot[i]] = Tail(@)]
    /\ Written(slot[i]) /\ ota_file_ok' = TRUE
    /\ session' = IF session.who = slot[i] THEN [session EXCEPT !.stage = "file"] ELSE session
    /\ pc' = AtSlot("read", i)
    /\ UNCHANGED <<pollVars, listening, peer, later, waiting, dropped, requests, connects,
                   response, ota_filename, ota_filename_ok, ran, signals>>
UploadBreaks(i) ==
    /\ pc = AtSlot("upload", i) /\ inbox[slot[i]] = << >> /\ peer[slot[i]] = "gone"
    /\ ota_file_ok' = FALSE /\ session' = NoSession
    /\ pc' = AtSlot("read", i)
    /\ UNCHANGED <<pollVars, listening, netVars, response, ota_filename, ota_filename_ok,
                   files, ran, signals>>

(* The file named last is checked, and run or removed; a check that is not*)
(* made leaves it.  In any case the state of the update is cleared.       *)
Checked == ota_filename # "" /\ ota_filename_ok /\ ota_file_ok /\ files[ota_filename] # "absent"
\* A changed form of the next definition: a file that was cut short passes.
VerifiedShort(i) == Request(i).good /\ files[ota_filename] \in {slot[i], "short"}
Verified(i) == Request(i).good /\ files[ota_filename] = slot[i]
process_patch_signature(i) ==
    /\ Piece(i, "signature") /\ Answers
    /\ IF ~Checked THEN UNCHANGED <<files, ran>>
       ELSE IF Verified(i)
       THEN ran' = ran \union {<<ota_filename, files[ota_filename]>>} /\ UNCHANGED files
       ELSE Written("absent") /\ UNCHANGED ran
    /\ ota_filename' = "" /\ ota_filename_ok' = FALSE /\ ota_file_ok' = FALSE
    /\ session' = NoSession

(***************************************************************************)
(* The clients, and signals.                                              *)
(***************************************************************************)
Connect(c) ==
    /\ peer[c] = "away" /\ listening /\ connects < MaxConnects
    /\ peer' = [peer EXCEPT ![c] = "backlog"] /\ connects' = connects + 1
    /\ UNCHANGED <<pc, pollVars, listening, inbox, later, waiting, dropped, response, otaVars,
                   requests, signals>>

Leave(c) ==
    /\ peer[c] \in {"backlog", "open"}
    /\ peer' = [peer EXCEPT ![c] = IF @ = "open" THEN "gone" ELSE "left"]
    /\ waiting' = waiting \ {c} /\ later' = later \ {c}
    /\ UNCHANGED <<pc, pollVars, listening, inbox, dropped, requests, connects, response, otaVars,
                   signals>>

(* A request: its first piece, and whether something follows that piece.  *)
Pieces ==
    [piece : {[cmd |-> "cut"]} \union [cmd : {"file"}, body : {"some", "none"}], rest : {TRUE}]
    \union [piece : {[cmd |-> "GET"], [cmd |-> "other"], [cmd |-> "file", body |-> "all"]}
                     \union [cmd : {"filename", "signature"}, good : BOOLEAN], rest : {FALSE}]

(* A client is connected as soon as it is in the backlog, and sends: it   *)
(* does not know whether the server has accepted it, or forgotten it.     *)
Send(c, p) ==
    /\ peer[c] \in {"backlog", "open", "leaked"} /\ c \notin waiting /\ c \notin later /\ requests < MaxRequests
    /\ inbox[c] = << >>
    /\ waiting' = waiting \union {c} /\ requests' = requests + 1
    /\ inbox' = [inbox EXCEPT ![c] = <<p.piece>>]
    /\ later' = IF p.rest THEN later \union {c} ELSE later
    /\ dropped' = dropped \ {c}
    /\ UNCHANGED <<pc, pollVars, listening, peer, connects, response, otaVars, signals>>

SendRest(c) ==
    /\ c \in later /\ later' = later \ {c}
    /\ inbox' = [inbox EXCEPT ![c] = Append(@, [cmd |-> "rest"])]
    /\ UNCHANGED <<pc, pollVars, listening, peer, waiting, dropped, requests, connects, response,
                   otaVars, signals>>

(* SIGINT or SIGTERM: server_destroy runs wherever the thread is.  It     *)
(* closes the listening socket, and with it the connections of its backlog*)
(* are reset.  poll returns EINTR if it was waiting; before poll, and     *)
(* anywhere else, the thread goes on.                                     *)
Signal ==
    /\ signals < MaxSignals /\ pc.at \notin {"start", "done", "crashed"}
    /\ signals' = signals + 1
    /\ listening' = FALSE /\ client_count' = 0
    /\ pc' = pc \/ (pc = At("poll") /\ pc' = At("done"))
    /\ peer' = [c \in Client |-> IF c \in Calling THEN "away" ELSE peer[c]]
    /\ inbox' = [c \in Client |-> IF c \in Calling THEN << >> ELSE inbox[c]]
    /\ waiting' = waiting \ Calling /\ later' = later \ Calling
    /\ UNCHANGED <<slot, revents, found, dropped, requests, connects, response, otaVars>>

Init ==
    /\ pc = At("start") /\ listening = FALSE
    /\ server_create /\ client_count = 0
    /\ revents = [i \in Slot |-> "no"]
    /\ peer = [c \in Client |-> "away"] /\ inbox = [c \in Client |-> << >>]
    /\ later = {} /\ waiting = {} /\ dropped = {}
    /\ response = FALSE
    /\ ota_filename = "" /\ ota_filename_ok = FALSE /\ ota_file_ok = FALSE
    /\ files = [n \in Names |-> "absent"] /\ ran = {} /\ session = NoSession
    /\ requests = 0 /\ connects = 0 /\ signals = 0

http_parse_request(i) ==
    \/ process_get(i) \/ Unanswered(i) \/ process_patch_filename(i)
    \/ process_patch_file(i) \/ process_patch_signature(i)
http_handler(i) == HandlerEnds(i) \/ http_parse_request(i) \/ UploadRest(i) \/ UploadBreaks(i)
Server ==
    \/ server_listen \/ Poll \/ _accept_all \/ AcceptFails
    \/ \E i \in Slot : Scan(i) \/ http_handler(i)
Peers == \E c \in Client : Connect(c) \/ Leave(c) \/ SendRest(c) \/ \E p \in Pieces : Send(c, p)
Next == Server \/ Peers \/ Signal

Spec == Init /\ [][Next]_vars

(* The server runs; a client that has begun a request sends the rest of it*)
(* or leaves.                                                             *)
FairSpec == Spec /\ WF_vars(Server) /\ \A c \in Client : WF_vars(SendRest(c))

(***************************************************************************)
(* Properties.                                                            *)
(***************************************************************************)
(* Every variable keeps its type; until a signal resets it the count is off*)
(* by one at most.                                                        *)
TypeOK ==
    /\ pc \in [at : {"start", "poll", "accept", "done", "crashed"}, slot : {0}]
             \union [at : {"scan", "read", "upload"}, slot : Slot]
    /\ slot \in [Slot -> Client \union Uncleared]
    /\ client_count \in -HSTATIC_MAX_CLIENTS - 1 .. HSTATIC_MAX_CLIENTS
    /\ signals = 0 => client_count >= -1
    /\ peer \in [Client -> {"away", "backlog", "left", "open", "gone", "leaked"}]
    /\ \A c \in Client : Len(inbox[c]) <= 2
    /\ waiting \subseteq Client /\ later \subseteq Client
    /\ {ota_filename_ok, ota_file_ok, response, listening} \subseteq BOOLEAN
    /\ ota_filename \in Names \union {""}
    /\ files \in [Names -> Client \union {"absent", "short"}]

(* If the allocation left the last place free, then until a signal every  *)
(* client that was accepted holds one place and is polled, a place whose  *)
(* client went is free again, and the count is that of the places held: it*)
(* neither lets a client in that has no place nor keeps one out.          *)
EveryClientHeld ==
    (found = "free" /\ signals = 0) =>
        /\ \A c \in Client :
              Cardinality({i \in Slot : slot[i] = c})
                  = (IF peer[c] \in {"open", "gone", "leaked"} THEN 1 ELSE 0)
        /\ client_count = Cardinality({i \in Slot : slot[i] \in Client})

(* What a client has built up with its requests is there when its signature*)
(* is checked, if no other client's PATCH came in between: the flags, the *)
(* name and the file belong to one update.                                *)
BuiltUp ==
    /\ session.stage \in {"name", "file"} =>
          ota_filename = NameOf[session.who] /\ ota_filename_ok
    /\ session.stage = "file" => ota_file_ok /\ files[ota_filename] = session.who

(* Only a whole file is ever run, whatever the flags say of an upload that*)
(* broke off and of the updates of other clients.                         *)
OnlyWholeFilesRun == \A r \in ran : r[2] \in Client

(* A client that waits for an answer gets one, as long as the server runs:*)
(* no request that came in pieces, no upload and no coming and going of   *)
(* other clients keeps it waiting for ever.  What may do so is a place    *)
(* that is never given back to it: a connection that was forgotten, or one*)
(* that stays in the backlog while clients hold all places from some time *)
(* on.  A PATCH of an unknown path is the one request without an answer.  *)
Answered ==
    \A c \in Client :
        (c \in waiting) ~>
            \/ c \notin waiting \/ c \in dropped \/ peer[c] = "leaked"
            \/ pc.at \in {"done", "crashed"}
            \/ [](peer[c] = "backlog" /\ client_count = HSTATIC_MAX_CLIENTS)

(* The list of connections, its count and the clients agree (server.c).   *)
ServerInv ==
    /\ TypeOK
    /\ EveryClientHeld

(* One update is built up out of the requests of one client, and only whole*)
(* files are run, although its state is global (ota.c:39-190).            *)
UpdatesAreWhole ==
    /\ BuiltUp
    /\ OnlyWholeFilesRun
=============================================================================
