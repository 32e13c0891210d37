-------------------------------- MODULE Tftp --------------------------------
(***************************************************************************)
(* The TFTP server of the FreeRTOS application, which receives one file    *)
(* per call (tftp_server.c), the clients that upload to it and the packets *)
(* between them.  A client is one source port: a host takes a new one for  *)
(* every upload.  A file is its blocks, the last of which is the short one *)
(* that ends a transfer, with no bytes at all when the file fills the      *)
(* others; a block is known by its file and its number.                    *)
(***************************************************************************)
EXTENDS Naturals, Sequences, FiniteSets

CONSTANTS
    Clients,        \* the uploads of a behaviour
    Files,
    Blocks,         \* the number of blocks of each file
    EndsEmpty,      \* the files whose last block has no bytes
    BufferBlocks,   \* the room of the receipt buffer, in blocks
    ipconfigTFTP_MAX_RETRIES,
    MaxTries,       \* how often a host sends a packet again
    MaxFaults       \* bound on lost, doubled, late and strange packets and failing calls

ASSUME BlocksAssumption == Blocks \in [Files -> Nat \ {0}] /\ EndsEmpty \subseteq Files
ASSUME LimitsAssumption == BufferBlocks \in Nat /\ ipconfigTFTP_MAX_RETRIES \in Nat
ASSUME NamesAssumption == "none" \notin Files /\ "nothing" \notin Files

VARIABLES
    srv,            \* what the server waits for: "idle" outside TFTP_Receive_One_File
    tid,            \* the receiving socket, counted
    pxClient,       \* the client of the transfer
    usExpectedBlockNumber,
    xRetries,
    file_buffer,    \* the blocks received; after the call, the file it returns
    host,           \* the clients
    toServer, toHosts, \* packets in flight
    faults

serverVars == <<srv, tid, pxClient, usExpectedBlockNumber, xRetries, file_buffer>>
tftpVars == <<serverVars, host, toServer, toHosts, faults>>

TftpInit ==
    /\ srv = "idle" /\ tid = 0 /\ pxClient = "none" /\ usExpectedBlockNumber = 0 /\ xRetries = 0
    /\ file_buffer = <<>>
    /\ host = [c \in Clients |-> [st |-> "away", file |-> "none", block |-> 0, tid |-> 0, tries |-> 0]]
    /\ toServer = {} /\ toHosts = {} /\ faults = 0

(* A fault of the world around the server: each costs one of MaxFaults. *)
Fault == faults < MaxFaults /\ faults' = faults + 1

Whole(f) == [i \in 1..Blocks[f] |-> <<f, i>>]

(* A packet is delivered and leaves the network, unless the network doubled it. *)
Leaves(p) == \/ toServer' = toServer \ {p} /\ UNCHANGED faults
             \/ Fault /\ UNCHANGED toServer

(***************************************************************************)
(* Clients: tftpy on the host                                              *)
(***************************************************************************)
Ask(c, f) ==
    /\ host[c].st = "away"
    /\ host' = [host EXCEPT ![c].st = "asking", ![c].file = f]
    /\ toServer' = toServer \union {[op |-> "WRQ", from |-> c, block |-> 0, to |-> 0]}
    /\ UNCHANGED <<serverVars, toHosts, faults>>

(* A request that is no write request, or one that the server rejects. *)
AskWrongly(c) ==
    /\ host[c].st = "away"
    /\ host' = [host EXCEPT ![c].st = "wrong"]
    /\ toServer' = toServer \union {[op |-> "other", from |-> c, block |-> 0, to |-> 0]}
    /\ UNCHANGED <<serverVars, toHosts, faults>>

(* An acknowledgement of the client's last packet lets it go on; the first *)
(* one tells the port of the transfer.  Anything else is ignored.          *)
Acknowledged(c, p) ==
    LET h == host[c]
        next == [h EXCEPT !.st = "sending", !.block = p.block + 1, !.tid = p.tid, !.tries = 0]
    IN IF \/ h.st = "asking" /\ p.block = 0
          \/ h.st = "sending" /\ p.block = h.block /\ p.tid = h.tid
       THEN IF p.block = Blocks[h.file]
            THEN host' = [host EXCEPT ![c].st = "sent"] /\ UNCHANGED toServer
            ELSE /\ host' = [host EXCEPT ![c] = next]
                 /\ toServer' = toServer \union {[op |-> "DATA", from |-> c, block |-> p.block + 1, to |-> p.tid]}
       ELSE UNCHANGED <<host, toServer>>
HostTakes(p) ==
    /\ toHosts' = toHosts \ {p}
    /\ IF p.op = "ERROR"
       THEN /\ host' = [host EXCEPT ![p.to].st = IF @ \in {"asking", "sending"} THEN "refused" ELSE @]
            /\ UNCHANGED toServer
       ELSE Acknowledged(p.to, p)
    /\ UNCHANGED <<serverVars, faults>>

(* Its timeout: the client repeats its last packet, or has tried enough.   *)
Nothing(c) == (\A p \in toServer : p.from # c) /\ (\A p \in toHosts : p.to # c)
HostRepeats(c) ==
    /\ host[c].st \in {"asking", "sending"}
    /\ IF Nothing(c) THEN UNCHANGED faults ELSE Fault
    /\ IF host[c].tries < MaxTries
       THEN /\ host' = [host EXCEPT ![c].tries = @ + 1]
            /\ toServer' = toServer \union {[op |-> IF host[c].st = "asking" THEN "WRQ" ELSE "DATA",
                                              from |-> c, block |-> host[c].block, to |-> host[c].tid]}
       ELSE host' = [host EXCEPT ![c].st = "refused"] /\ UNCHANGED toServer
    /\ UNCHANGED <<serverVars, toHosts>>

(***************************************************************************)
(* The network                                                             *)
(***************************************************************************)
Lose ==
    /\ Fault
    /\ \/ \E p \in toServer : toServer' = toServer \ {p} /\ UNCHANGED toHosts
       \/ \E p \in toHosts : toHosts' = toHosts \ {p} /\ UNCHANGED toServer
    /\ UNCHANGED <<serverVars, host>>
(* Somebody else, in the middle of a transfer, sends to its port the block it waits for. *)
Stray ==
    /\ srv = "receiving" /\ Fault
    /\ toServer' = toServer \union {[op |-> "DATA", from |-> "stranger", block |-> usExpectedBlockNumber + 1, to |-> tid]}
    /\ UNCHANGED <<serverVars, host, toHosts>>
(* A packet to a port on which nobody listens; a request that waits in the *)
(* listening socket during a transfer goes when that socket is closed.     *)
Unheard(p) ==
    /\ IF p.op = "DATA" THEN srv # "receiving" \/ p.to # tid ELSE srv # "waiting"
    /\ toServer' = toServer \ {p}
    /\ UNCHANGED <<serverVars, host, toHosts, faults>>

(***************************************************************************)
(* TFTP_Receive_One_File                                                   *)
(***************************************************************************)
(* Called with a buffer of zeros; without a socket, or without the port,   *)
(* it returns at once.                                                     *)
Listen ==
    /\ srv = "idle" /\ file_buffer' = <<>>
    /\ \/ srv' = "waiting" /\ UNCHANGED faults
       \/ Fault /\ UNCHANGED srv
    /\ UNCHANGED <<tid, pxClient, usExpectedBlockNumber, xRetries, host, toServer, toHosts>>

prvSendAcknowledgement(c, n, s) == [op |-> "ACK", to |-> c, block |-> n, tid |-> s]
prvSendTFTPError(c) == [op |-> "ERROR", to |-> c, block |-> 0, tid |-> 0]
Reply(packets) == toHosts' = toHosts \union {p \in packets : p.to \in Clients}

(* What is no valid write request is answered with an error, and the call  *)
(* returns a file of no bytes.                                             *)
BadRequest(p) ==
    /\ srv = "waiting" /\ p.op = "other" /\ Leaves(p)
    /\ srv' = "idle"
    /\ Reply({prvSendTFTPError(p.from)})
    /\ UNCHANGED <<tid, pxClient, usExpectedBlockNumber, xRetries, file_buffer, host>>
WriteRequest(p) ==
    /\ srv = "waiting" /\ p.op = "WRQ" /\ Leaves(p)
    /\ srv' = "receiving" /\ tid' = tid + 1 /\ pxClient' = p.from
    /\ usExpectedBlockNumber' = 0 /\ xRetries' = 0
    /\ Reply({prvSendAcknowledgement(p.from, 0, tid + 1)})
    /\ UNCHANGED <<file_buffer, host>>
(* Without a socket for the transfer: a pass of no bytes, and no answer.   *)
NoReceivingSocket(p) ==
    /\ srv = "waiting" /\ p.op = "WRQ" /\ Fault
    /\ toServer' = toServer \ {p} /\ srv' = "idle"
    /\ UNCHANGED <<tid, pxClient, usExpectedBlockNumber, xRetries, file_buffer, host, toHosts>>

(* The end of prvReceiveFile and of its caller, which wipes the buffer of a failed transfer. *)
Fails == srv' = "idle" /\ file_buffer' = <<>>

(* The packet is the next block of the client of this transfer. *)
\* A changed form of the next definition: any block of the client is taken for the next one.
FitAnyBlock(p) == p.from = pxClient
Fit(p) == p.block = usExpectedBlockNumber + 1 /\ p.from = pxClient
(* The room a block takes: all blocks but the last have the full length,   *)
(* and what that one needs fits into a block that is left, if it has bytes.*)
Filled(file, block) == IF block = Blocks[file] /\ file \in EndsEmpty THEN 0 ELSE 1
\* A changed form of the next definition: a full buffer has no room for a block without bytes.
HasLessRoom(file, block) == Len(file_buffer) < BufferBlocks
HasRoom(file, block) == Len(file_buffer) + Filled(file, block) <= BufferBlocks

(* A block: acknowledged before there is known to be room for it.  *)
GoodBlock(p) ==
    LET file == host[pxClient].file
        ack == prvSendAcknowledgement(pxClient, p.block, tid)
    IN /\ Fit(p)
       /\ IF HasRoom(file, p.block)
          THEN /\ file_buffer' = Append(file_buffer, <<file, p.block>>)
               /\ srv' = IF p.block = Blocks[file] THEN "idle" ELSE "receiving"
               /\ Reply({ack})
          ELSE Fails /\ Reply({ack, prvSendTFTPError(pxClient)})
       /\ xRetries' = 0
(* Anything else, a block received twice and a stranger's included, ends the transfer. *)
WrongBlock(p) ==
    /\ ~Fit(p)
    /\ Fails /\ Reply({prvSendTFTPError(pxClient)})
    /\ UNCHANGED xRetries
Data(p) ==
    /\ srv = "receiving" /\ p.op = "DATA" /\ p.to = tid /\ Leaves(p)
    /\ usExpectedBlockNumber' = usExpectedBlockNumber + 1
    /\ UNCHANGED <<tid, pxClient, host>>
    /\ GoodBlock(p) \/ WrongBlock(p)

(* Five seconds without a packet; the server repeats nothing.      *)
\* A changed form of the next definition: the retries are not counted.
TimeoutUncounted ==
    /\ srv = "receiving" /\ UNCHANGED tftpVars
Timeout ==
    /\ srv = "receiving"
    /\ IF \A p \in toServer : p.op # "DATA" \/ p.to # tid THEN UNCHANGED faults ELSE Fault
    /\ xRetries' = xRetries + 1
    /\ IF xRetries' > ipconfigTFTP_MAX_RETRIES THEN Fails ELSE UNCHANGED <<srv, file_buffer>>
    /\ UNCHANGED <<tid, pxClient, usExpectedBlockNumber, host, toServer, toHosts>>
ReceiveFails ==
    /\ srv = "receiving" /\ Fault
    /\ Fails
    /\ UNCHANGED <<tid, pxClient, usExpectedBlockNumber, xRetries, host, toServer, toHosts>>

Server == (\E p \in toServer : BadRequest(p) \/ WriteRequest(p) \/ NoReceivingSocket(p) \/ Data(p)) \/ Timeout \/ ReceiveFails
World == \/ \E c \in Clients : (\E f \in Files : Ask(c, f)) \/ AskWrongly(c) \/ HostRepeats(c)
         \/ \E p \in toHosts : HostTakes(p)
         \/ \E p \in toServer : Unheard(p)
         \/ Lose \/ Stray
TftpNext == Listen \/ Server \/ World
TftpSpec == TftpInit /\ [][TftpNext]_tftpVars

(***************************************************************************)
(* The promise                                                             *)
(***************************************************************************)
Fitting == {f \in Files : Blocks[f] <= BufferBlocks + (IF f \in EndsEmpty THEN 1 ELSE 0)}
OfferedFile == IF srv = "receiving" THEN host[pxClient].file ELSE "none"
TakenFile == IF srv = "receiving" \/ file_buffer = <<>> THEN "nothing"
             ELSE IF file_buffer = Whole(file_buffer[1][1]) THEN file_buffer[1][1] ELSE "torn"
Transfer == INSTANCE FileTransfer WITH offered <- OfferedFile, taken <- TakenFile

(* Whatever is lost, doubled or late on the way: a transfer ends with the  *)
(* whole file of the client that began it in the buffer, or with nothing   *)
(* there, as the file of OTA that is checked and written next must be      *)
(* (prvReceiveFile and TFTP_Receive_One_File implement FileTransfer).      *)
WholeOrNothing == Transfer!Spec

(* A step that acknowledges the last block of a file that fits returns the *)
(* file: the acknowledgement is sent before the room is looked at, and a   *)
(* client that has it will not send the file again.                        *)
AckedIsKept ==
    [][\A p \in toHosts' \ toHosts :
          p.op = "ACK" /\ host[p.to].file \in Fitting /\ p.block = Blocks[host[p.to].file]
             => srv' = "idle" /\ file_buffer' = Whole(host[p.to].file)]_tftpVars

(* A transfer whose client fell silent is given up: the server, which      *)
(* takes one request at a time, does not wait for it for good.             *)
TransferEnds == (srv = "receiving") ~> (srv # "receiving")

TftpTypeOK ==
    /\ srv \in {"idle", "waiting", "receiving"}
    /\ tid \in Nat /\ pxClient \in Clients \union {"none"}
    /\ usExpectedBlockNumber \in Nat /\ xRetries \in 0..ipconfigTFTP_MAX_RETRIES + 1
    /\ \A i \in 1..Len(file_buffer) : file_buffer[i] \in Files \X Nat
    /\ Len(file_buffer) <= BufferBlocks + (IF srv = "receiving" THEN 0 ELSE 1)
    /\ Len(file_buffer) > BufferBlocks => file_buffer[Len(file_buffer)][1] \in EndsEmpty
    /\ \A p \in toServer : p.op \in {"WRQ", "other", "DATA"}
    /\ \A p \in toHosts : p.op \in {"ACK", "ERROR"} /\ p.to \in Clients
=============================================================================
