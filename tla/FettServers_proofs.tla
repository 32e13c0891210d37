------------------------- MODULE FettServers_proofs -------------------------
(***************************************************************************)
(* The TFTP server implements FileTransfer, and an acknowledged file is    *)
(* kept, for every set of clients and files, every number of retries and   *)
(* faults, and every size of the receipt buffer.  Then the application's   *)
(* two tasks over one file system and that server, for every number of     *)
(* browsers, uploads, files, pieces and faults.                            *)
(***************************************************************************)
EXTENDS FettServers, FiniteSetTheorems, SequenceTheorems, TLAPS

(***************************************************************************)
(* Part one: the TFTP server (module Tftp).                                *)
(***************************************************************************)
(* The first n blocks of a file.                                           *)
Begun(f, n) == [i \in 1..n |-> <<f, i>>]

HostStates == {"away", "asking", "sending", "sent", "refused", "wrong"}
ToServer == [op : {"WRQ", "other", "DATA"}, from : Clients \union {"stranger"}, block : Nat, to : Nat]
ToHosts == [op : {"ACK", "ERROR"}, to : Clients, block : Nat, tid : Nat]

Typed ==
    /\ srv \in {"idle", "waiting", "receiving"}
    /\ tid \in Nat /\ usExpectedBlockNumber \in Nat
    /\ host \in [Clients -> [st : HostStates, file : Files \union {"none"},
                             block : Nat, tid : Nat, tries : Nat]]
    /\ toServer \subseteq ToServer
    /\ toHosts \subseteq ToHosts

(* A client has the file it asked to send from then on, and only one that  *)
(* asked has sent a write request.                                         *)
Asked(c) == c \in Clients /\ host[c].file \in Files /\ host[c].st # "away"
KeepsFile ==
    /\ \A c \in Clients :
          /\ host[c].file # "none" => host[c].st # "away"
          /\ host[c].st \in {"asking", "sending"} => host[c].file \in Files
    /\ \A p \in toServer : p.op = "WRQ" => Asked(p.from)

(* What the buffer holds: during a transfer the blocks acknowledged so far *)
(* and not the last one, otherwise a file that a client has sent or nothing.*)
Receiving ==
    srv = "receiving" =>
        LET file == host[pxClient].file
        IN  /\ Asked(pxClient)
            /\ file_buffer = Begun(file, usExpectedBlockNumber)
            /\ usExpectedBlockNumber < Blocks[file] /\ usExpectedBlockNumber <= BufferBlocks
Between ==
    /\ srv = "waiting" => file_buffer = <<>>
    /\ srv # "receiving" =>
          \/ file_buffer = <<>>
          \/ \E c \in Clients : /\ Asked(c) /\ file_buffer = Whole(host[c].file)
                               /\ host[c].file \in Fitting

Kept == Typed /\ KeepsFile /\ Receiving /\ Between

(* The client of the last transfer, and how often it kept the server waiting.*)
Patient ==
    /\ pxClient \in Clients \union {"none"}
    /\ xRetries \in 0 .. ipconfigTFTP_MAX_RETRIES + 1
    /\ srv = "receiving" => xRetries <= ipconfigTFTP_MAX_RETRIES

(* A step of the module, or one of the surrounding application that costs  *)
(* it a fault.                                                             *)
transferVars == <<serverVars, host, toServer, toHosts>>
Step == TftpNext \/ UNCHANGED transferVars

-----------------------------------------------------------------------------
LEMMA BegunIsSeq ==
    ASSUME NEW f, NEW n \in Nat
    PROVE  /\ Begun(f, n) \in Seq({f} \X Nat)
           /\ Len(Begun(f, n)) = n
           /\ Append(Begun(f, n), <<f, n + 1>>) = Begun(f, n + 1)
  <1>1. Begun(f, n) \in [1..n -> {f} \X Nat]
    BY SMT DEF Begun
  <1>2. Begun(f, n) \in Seq({f} \X Nat)
    BY <1>1, SeqDef
  <1>3. Len(Begun(f, n)) = n
    BY <1>1, <1>2, LenProperties, SMT
  <1>4. <<f, n + 1>> \in {f} \X Nat
    BY SMT
  <1>5. Append(Begun(f, n), <<f, n + 1>>)
          = [i \in 1..(n + 1) |-> IF i <= n THEN Begun(f, n)[i] ELSE <<f, n + 1>>]
    BY <1>2, <1>3, <1>4, SMT
  <1>6. \A i \in 1..(n + 1) :
          (IF i <= n THEN Begun(f, n)[i] ELSE <<f, n + 1>>) = <<f, i>>
    BY SMT DEF Begun
  <1>7. Append(Begun(f, n), <<f, n + 1>>) = Begun(f, n + 1)
    BY <1>5, <1>6, Zenon DEF Begun
  <1> QED BY <1>2, <1>3, <1>7

LEMMA NothingBegun == ASSUME NEW f PROVE Begun(f, 0) = <<>>
  <1>1. Begun(f, 0) \in Seq({f} \X Nat) /\ Len(Begun(f, 0)) = 0
    <2>1. 0 \in Nat
      BY SMT
    <2> QED BY <2>1, BegunIsSeq
  <1>2. \A seq \in Seq({f} \X Nat) : seq # <<>> => Len(seq) \in Nat \ {0}
    BY EmptySeq
  <1> QED BY <1>1, <1>2

LEMMA WholeIsBegun ==
    ASSUME NEW f \in Files
    PROVE  /\ Whole(f) = Begun(f, Blocks[f]) /\ Blocks[f] \in Nat /\ Blocks[f] > 0
           /\ Whole(f) # <<>> /\ Whole(f)[1][1] = f
  <1>1. Whole(f) = Begun(f, Blocks[f]) /\ Blocks[f] \in Nat /\ Blocks[f] > 0
    BY BlocksAssumption, SMT DEF Whole, Begun
  <1>2. Len(Whole(f)) > 0
    BY <1>1, BegunIsSeq
  <1>3. Whole(f)[1] = <<f, 1>>
    BY <1>1, SMT DEF Begun
  <1> QED BY <1>1, <1>2, <1>3, SMT

-----------------------------------------------------------------------------
LEMMA KeptInit == TftpInit => Kept
  <1> SUFFICES ASSUME TftpInit PROVE Kept
    OBVIOUS
  <1> USE DEF TftpInit
  <1>1. Typed
    BY SMT DEF Typed, HostStates
  <1>2. KeepsFile /\ Receiving /\ Between
    BY DEF KeepsFile, Receiving, Between
  <1> QED BY <1>1, <1>2 DEF Kept

(* What the clients and the network do leaves the server alone, and the    *)
(* files of the clients that have asked.                                   *)
WorldKeeps ==
    /\ UNCHANGED serverVars
    /\ \A c \in Clients : host[c].st # "away" => host'[c].st # "away" /\ host'[c].file = host[c].file

LEMMA FileKept ==
    ASSUME Kept, WorldKeeps, Typed', KeepsFile'
    PROVE  Kept'
  <1>1. Receiving'
    BY DEF Kept, Receiving, WorldKeeps, serverVars, Asked
  <1>2. Between'
    <2>1. srv' = srv /\ file_buffer' = file_buffer
      BY DEF WorldKeeps, serverVars
    <2>2. ASSUME NEW c \in Clients, Asked(c)
          PROVE  Asked(c)' /\ host'[c].file = host[c].file
      BY <2>2 DEF Asked, WorldKeeps
    <2>3. ASSUME NEW c \in Clients, Asked(c) /\ file_buffer = Whole(host[c].file)
                                   /\ host[c].file \in Fitting
          PROVE  Asked(c)' /\ file_buffer' = Whole(host[c].file)'
                 /\ (host[c].file \in Fitting)'
      BY <2>1, <2>2, <2>3 DEF Whole, Fitting
    <2> QED BY <2>1, <2>3 DEF Kept, Between
  <1> QED BY <1>1, <1>2 DEF Kept

LEMMA AskKeeps ==
    ASSUME Kept, NEW c \in Clients, NEW f \in Files, Ask(c, f)
    PROVE  Kept' /\ WorldKeeps
  <1> USE DEF Kept, Typed
  <1>1. host[c].st = "away" /\ UNCHANGED <<serverVars, toHosts>>
    BY DEF Ask
  <1>2. /\ host'[c].st = "asking" /\ host'[c].file = f
        /\ \A d \in Clients \ {c} : host'[d] = host[d]
        /\ host' \in [Clients -> [st : HostStates, file : Files \union {"none"},
                                  block : Nat, tid : Nat, tries : Nat]]
    <2> DEFINE asked == [host[c] EXCEPT !.st = "asking", !.file = f]
    <2>1. host' = [host EXCEPT ![c] = asked]
      BY DEF Ask
    <2>2. /\ asked \in [st : HostStates, file : Files \union {"none"},
                         block : Nat, tid : Nat, tries : Nat]
          /\ asked.st = "asking" /\ asked.file = f
      BY DEF HostStates
    <2> HIDE DEF asked
    <2> QED BY <2>1, <2>2
  <1>3. toServer' \subseteq ToServer
    BY SMT DEF Ask, ToServer
  <1>4. WorldKeeps
    BY <1>1, <1>2 DEF WorldKeeps
  <1>5. KeepsFile'
    <2>1. \A p \in toServer' : p.op = "WRQ" => p \in toServer \/ p.from = c
      BY DEF Ask
    <2> QED BY <1>1, <1>2, <2>1 DEF KeepsFile, Asked
  <1>6. Typed'
    BY <1>1, <1>2, <1>3 DEF serverVars
  <1> QED BY <1>4, <1>5, <1>6, FileKept

LEMMA AskWronglyKeeps ==
    ASSUME Kept, NEW c \in Clients, AskWrongly(c)
    PROVE  Kept' /\ WorldKeeps
  <1> USE DEF Kept, Typed
  <1>1. host[c].st = "away" /\ UNCHANGED <<serverVars, toHosts>>
    BY DEF AskWrongly
  <1>2. /\ host'[c].st = "wrong" /\ host'[c].file = host[c].file
        /\ \A d \in Clients \ {c} : host'[d] = host[d]
        /\ host' \in [Clients -> [st : HostStates, file : Files \union {"none"},
                                  block : Nat, tid : Nat, tries : Nat]]
    BY DEF AskWrongly, HostStates
  <1>3. toServer' \subseteq ToServer
    BY SMT DEF AskWrongly, ToServer
  <1>4. WorldKeeps
    BY <1>1, <1>2 DEF WorldKeeps
  <1>5. KeepsFile'
    <2>1. \A p \in toServer' : p.op = "WRQ" => p \in toServer
      BY DEF AskWrongly
    <2> QED BY <1>1, <1>2, <2>1 DEF KeepsFile, Asked
  <1>6. Typed'
    BY <1>1, <1>2, <1>3 DEF serverVars
  <1> QED BY <1>4, <1>5, <1>6, FileKept

(* A client that goes on, or gives up, keeps its file; the packets in      *)
(* flight come from clients that asked.                                    *)
LEMMA GoesOn ==
    ASSUME Kept, UNCHANGED serverVars,
           host' \in [Clients -> [st : HostStates, file : Files \union {"none"},
                                  block : Nat, tid : Nat, tries : Nat]],
           \A c \in Clients :
               /\ host'[c].file = host[c].file
               /\ host[c].st # "away" => host'[c].st # "away"
               /\ host'[c].st \in {"asking", "sending"} => host[c].st \in {"asking", "sending"},
           toServer' \subseteq ToServer, toHosts' \subseteq ToHosts,
           \A p \in toServer' \ toServer : p.op = "WRQ" => Asked(p.from)
    PROVE  Kept' /\ WorldKeeps
  <1>1. WorldKeeps
    BY DEF WorldKeeps
  <1>2. \A p \in toServer' : p.op = "WRQ" => Asked(p.from)
    BY DEF Kept, KeepsFile
  <1>3. KeepsFile'
    BY <1>2 DEF Kept, KeepsFile, Asked
  <1>4. Typed'
    BY DEF Kept, Typed, serverVars
  <1> QED BY <1>1, <1>3, <1>4, FileKept

LEMMA HostTakesKeeps ==
    ASSUME Kept, NEW p \in toHosts, HostTakes(p)
    PROVE  Kept' /\ WorldKeeps
  <1> DEFINE c == p.to
  <1>0. /\ c \in Clients /\ p.block \in Nat /\ p.tid \in Nat
        /\ toServer \subseteq ToServer /\ toHosts' \subseteq ToHosts /\ UNCHANGED serverVars
        /\ host \in [Clients -> [st : HostStates, file : Files \union {"none"},
                                 block : Nat, tid : Nat, tries : Nat]]
    BY DEF Kept, Typed, ToHosts, HostTakes
  <1>1. CASE p.op = "ERROR"
    <2>1. /\ toServer' = toServer
          /\ host' = [host EXCEPT ![c].st = IF @ \in {"asking", "sending"} THEN "refused" ELSE @]
      BY <1>1 DEF HostTakes
    <2>2. /\ host' \in [Clients -> [st : HostStates, file : Files \union {"none"},
                                    block : Nat, tid : Nat, tries : Nat]]
          /\ \A d \in Clients :
               /\ host'[d].file = host[d].file
               /\ host[d].st # "away" => host'[d].st # "away"
               /\ host'[d].st \in {"asking", "sending"} => host[d].st \in {"asking", "sending"}
      BY <1>0, <2>1 DEF HostStates
    <2> QED BY <1>0, <2>1, <2>2, GoesOn
  <1>2. CASE p.op # "ERROR" /\ UNCHANGED <<host, toServer>>
    BY <1>0, <1>2, GoesOn
  <1>3. CASE p.op # "ERROR" /\ ~UNCHANGED <<host, toServer>>
    <2>1. /\ host[c].st \in {"asking", "sending"}
          /\ \/ host' = [host EXCEPT ![c].st = "sent"] /\ UNCHANGED toServer
             \/ /\ host' = [host EXCEPT ![c] = [host[c] EXCEPT !.st = "sending", !.block = p.block + 1,
                                                               !.tid = p.tid, !.tries = 0]]
                /\ toServer' = toServer \union {[op |-> "DATA", from |-> c, block |-> p.block + 1, to |-> p.tid]}
      BY <1>3 DEF HostTakes, Acknowledged
    <2>2. /\ host' \in [Clients -> [st : HostStates, file : Files \union {"none"},
                                    block : Nat, tid : Nat, tries : Nat]]
          /\ \A d \in Clients :
               /\ host'[d].file = host[d].file
               /\ host[d].st # "away" => host'[d].st # "away"
               /\ host'[d].st \in {"asking", "sending"} => host[d].st \in {"asking", "sending"}
      <3>1. CASE host' = [host EXCEPT ![c].st = "sent"]
        BY <1>0, <2>1, <3>1 DEF HostStates
      <3>2. CASE host' = [host EXCEPT ![c] = [host[c] EXCEPT !.st = "sending", !.block = p.block + 1,
                                                             !.tid = p.tid, !.tries = 0]]
        <4> DEFINE next == [host[c] EXCEPT !.st = "sending", !.block = p.block + 1,
                                           !.tid = p.tid, !.tries = 0]
        <4>1. /\ next \in [st : HostStates, file : Files \union {"none"},
                            block : Nat, tid : Nat, tries : Nat]
              /\ next.file = host[c].file /\ next.st = "sending"
          <5>1. /\ host[c] \in [st : HostStates, file : Files \union {"none"},
                                block : Nat, tid : Nat, tries : Nat]
                /\ p.block + 1 \in Nat /\ p.tid \in Nat /\ 0 \in Nat /\ "sending" \in HostStates
            BY <1>0 DEF HostStates
          <5> HIDE <1>0
          <5> QED BY <5>1
        <4> HIDE DEF next
        <4>2. host' = [host EXCEPT ![c] = next]
          BY <3>2 DEF next
        <4> QED BY <1>0, <2>1, <4>1, <4>2
      <3> QED BY <2>1, <3>1, <3>2
    <2>3. toServer' \subseteq ToServer /\ \A q \in toServer' \ toServer : q.op # "WRQ"
      BY <1>0, <2>1 DEF ToServer
    <2> QED BY <1>0, <2>2, <2>3, GoesOn
  <1> QED BY <1>1, <1>2, <1>3

LEMMA HostRepeatsKeeps ==
    ASSUME Kept, NEW c \in Clients, HostRepeats(c)
    PROVE  Kept' /\ WorldKeeps
  <1>0. /\ toServer \subseteq ToServer /\ toHosts' \subseteq ToHosts /\ UNCHANGED serverVars
        /\ host \in [Clients -> [st : HostStates, file : Files \union {"none"},
                                 block : Nat, tid : Nat, tries : Nat]]
        /\ host[c].st \in {"asking", "sending"} /\ Asked(c)
    BY DEF Kept, Typed, HostRepeats, KeepsFile, Asked
  <1>1. CASE host[c].tries < MaxTries
    <2>1. /\ host' = [host EXCEPT ![c].tries = @ + 1]
          /\ toServer' = toServer \union {[op |-> IF host[c].st = "asking" THEN "WRQ" ELSE "DATA",
                                            from |-> c, block |-> host[c].block, to |-> host[c].tid]}
      BY <1>1 DEF HostRepeats
    <2>2. /\ host' \in [Clients -> [st : HostStates, file : Files \union {"none"},
                                    block : Nat, tid : Nat, tries : Nat]]
          /\ \A d \in Clients : host'[d].file = host[d].file /\ host'[d].st = host[d].st
      BY <1>0, <2>1
    <2>3. toServer' \subseteq ToServer /\ \A q \in toServer' \ toServer : q.from = c
      BY <1>0, <2>1 DEF ToServer
    <2> QED BY <1>0, <2>2, <2>3, GoesOn
  <1>2. CASE ~(host[c].tries < MaxTries)
    <2>1. /\ host' = [host EXCEPT ![c].st = "refused"] /\ UNCHANGED toServer
      BY <1>2 DEF HostRepeats
    <2>2. /\ host' \in [Clients -> [st : HostStates, file : Files \union {"none"},
                                    block : Nat, tid : Nat, tries : Nat]]
          /\ \A d \in Clients :
               /\ host'[d].file = host[d].file
               /\ host[d].st # "away" => host'[d].st # "away"
               /\ host'[d].st \in {"asking", "sending"} => host[d].st \in {"asking", "sending"}
      BY <1>0, <2>1 DEF HostStates
    <2> QED BY <1>0, <2>1, <2>2, GoesOn
  <1> QED BY <1>1, <1>2

LEMMA NetworkKeeps ==
    ASSUME Kept, Lose \/ Stray \/ \E p \in toServer : Unheard(p)
    PROVE  Kept' /\ WorldKeeps
  <1>1. /\ UNCHANGED <<serverVars, host>> /\ toHosts' \subseteq toHosts
        /\ \/ toServer' \subseteq toServer
           \/ toServer' = toServer \union
                {[op |-> "DATA", from |-> "stranger", block |-> usExpectedBlockNumber + 1, to |-> tid]}
    BY DEF Lose, Stray, Unheard
  <1>2. toServer \subseteq ToServer /\ toHosts' \subseteq ToHosts /\ tid \in Nat /\ usExpectedBlockNumber \in Nat
    BY <1>1 DEF Kept, Typed
  <1>3. toServer' \subseteq ToServer /\ \A q \in toServer' \ toServer : q.op # "WRQ"
    BY <1>1, <1>2 DEF ToServer
  <1> QED BY <1>1, <1>2, <1>3, GoesOn DEF Kept, Typed

LEMMA WorldStep == ASSUME Kept, World PROVE Kept' /\ WorldKeeps
  BY AskKeeps, AskWronglyKeeps, HostRepeatsKeeps, HostTakesKeeps, NetworkKeeps DEF World

-----------------------------------------------------------------------------
(* The server.  Replies go to clients only.                                *)
Replied == [op : {"ACK", "ERROR"}, to : Clients \union {"stranger"}, block : Nat, tid : Nat]

LEMMA Replies ==
    ASSUME Kept, NEW ps \in SUBSET Replied,
           Reply(ps)
    PROVE  toHosts' \subseteq ToHosts
  BY DEF Kept, Typed, Reply, ToHosts, Replied

LEMMA ReplyTypes ==
    ASSUME NEW c \in Clients \union {"stranger"}, NEW n \in Nat, NEW s \in Nat
    PROVE  prvSendAcknowledgement(c, n, s) \in Replied /\ prvSendTFTPError(c) \in Replied
  BY SMT DEF prvSendAcknowledgement, prvSendTFTPError, Replied

(* Outside a transfer the file server stands for what its buffer holds.    *)
LEMMA IdleView ==
    ASSUME Kept, srv # "receiving"
    PROVE  /\ OfferedFile = "none"
           /\ file_buffer = <<>> => TakenFile = "nothing"
           /\ \A f \in Files : file_buffer = Whole(f) => TakenFile = f
  BY WholeIsBegun DEF OfferedFile, TakenFile

LEMMA BusyView ==
    ASSUME srv = "receiving"
    PROVE  OfferedFile = host[pxClient].file /\ TakenFile = "nothing"
  BY DEF OfferedFile, TakenFile

LEMMA IdleView2 ==
    ASSUME Kept', srv' # "receiving"
    PROVE  /\ OfferedFile' = "none"
           /\ file_buffer' = <<>> => TakenFile' = "nothing"
           /\ \A f \in Files : file_buffer' = Whole(f) => TakenFile' = f
  BY WholeIsBegun DEF OfferedFile, TakenFile, Whole

LEMMA WorldView ==
    ASSUME Kept, WorldKeeps
    PROVE  UNCHANGED <<OfferedFile, TakenFile>>
  <1>1. srv' = srv /\ pxClient' = pxClient /\ file_buffer' = file_buffer
    BY DEF WorldKeeps, serverVars
  <1>2. srv = "receiving" => host'[pxClient].file = host[pxClient].file
    BY DEF Kept, Receiving, Asked, WorldKeeps
  <1> QED BY <1>1, <1>2 DEF OfferedFile, TakenFile, Whole

(* A call, a bad request and a failing socket leave nothing in the buffer  *)
(* that was not there, and accept no request.                              *)
LEMMA ListenKeeps == ASSUME Kept, Listen PROVE Kept'
  <1> USE DEF Kept
  <1>1. Typed'
    BY DEF Listen, Typed
  <1>2. KeepsFile' /\ Receiving' /\ Between'
    BY DEF Listen, KeepsFile, Asked, Receiving, Between
  <1> QED BY <1>1, <1>2

LEMMA RejectKeeps ==
    ASSUME Kept, NEW p \in toServer, BadRequest(p) \/ NoReceivingSocket(p)
    PROVE  Kept' /\ srv = "waiting" /\ srv' = "idle" /\ UNCHANGED <<pxClient, host, file_buffer>>
  <1>1. /\ srv = "waiting" /\ srv' = "idle"
        /\ UNCHANGED <<tid, pxClient, usExpectedBlockNumber, file_buffer, host>>
        /\ toServer' \subseteq toServer
    BY DEF BadRequest, NoReceivingSocket, Leaves
  <1>2. toHosts' \subseteq ToHosts
    <2>1. CASE BadRequest(p)
      <3>1. p.from \in Clients \union {"stranger"} /\ 0 \in Nat
        BY DEF Kept, Typed, ToServer
      <3>2. prvSendTFTPError(p.from) \in Replied
        BY <3>1, ReplyTypes
      <3> QED BY <2>1, <3>2, Replies DEF BadRequest
    <2>2. CASE NoReceivingSocket(p)
      BY <2>2 DEF NoReceivingSocket, Kept, Typed
    <2> QED BY <2>1, <2>2
  <1>3. Typed'
    BY <1>1, <1>2 DEF Kept, Typed
  <1>4. KeepsFile' /\ Receiving' /\ Between'
    BY <1>1 DEF Kept, KeepsFile, Asked, Receiving, Between, Whole
  <1> QED BY <1>1, <1>3, <1>4 DEF Kept

LEMMA WriteRequestKeeps ==
    ASSUME Kept, NEW p \in toServer, WriteRequest(p)
    PROVE  /\ Kept'
           /\ srv = "waiting" /\ srv' = "receiving" /\ pxClient' = p.from /\ host' = host
           /\ Asked(p.from)
           /\ \A q \in toHosts' \ toHosts : q.block = 0
  <1>1. /\ srv = "waiting" /\ srv' = "receiving" /\ tid' = tid + 1 /\ pxClient' = p.from
        /\ usExpectedBlockNumber' = 0 /\ host' = host /\ file_buffer' = file_buffer
        /\ toServer' \subseteq toServer
        /\ Reply({prvSendAcknowledgement(p.from, 0, tid + 1)})
    BY DEF WriteRequest, Leaves
  <1>2. Asked(p.from)
    BY DEF Kept, KeepsFile, WriteRequest
  <1>3. toHosts' \subseteq ToHosts
    <2>1. p.from \in Clients \union {"stranger"} /\ 0 \in Nat /\ tid + 1 \in Nat
      BY DEF Kept, Typed, ToServer
    <2>2. prvSendAcknowledgement(p.from, 0, tid + 1) \in Replied
      BY <2>1, ReplyTypes
    <2> QED BY <1>1, <2>2, Replies
  <1>4. \A q \in toHosts' \ toHosts : q.block = 0
    BY <1>1 DEF Reply, prvSendAcknowledgement
  <1>5. Typed'
    BY <1>1, <1>3 DEF Kept, Typed
  <1>6. KeepsFile' /\ Between'
    BY <1>1 DEF Kept, KeepsFile, Asked, Between
  <1>7. Receiving'
    <2> DEFINE file == host[p.from].file
    <2>1. file \in Files /\ Blocks[file] > 0
      BY <1>2, WholeIsBegun DEF Asked
    <2>2. file_buffer' = Begun(file, 0)
      BY <1>1, NothingBegun DEF Kept, Between
    <2>3. 0 <= BufferBlocks
      BY LimitsAssumption
    <2> QED BY <1>1, <1>2, <2>1, <2>2, <2>3 DEF Receiving, Asked, Begun
  <1> QED BY <1>1, <1>2, <1>4, <1>5, <1>6, <1>7 DEF Kept

(* What ends a transfer without a file.                                    *)
LEMMA FailsKeeps ==
    ASSUME Kept, srv = "receiving", Fails, host' = host,
           usExpectedBlockNumber' \in Nat, tid' = tid,
           toServer' \subseteq toServer, toHosts' \subseteq ToHosts
    PROVE  Kept'
  <1>1. Typed'
    BY DEF Kept, Typed, Fails
  <1>2. KeepsFile' /\ Receiving' /\ Between'
    BY DEF Kept, KeepsFile, Asked, Receiving, Between, Fails
  <1> QED BY <1>1, <1>2 DEF Kept

LEMMA SilenceKeeps ==
    ASSUME Kept, Timeout \/ ReceiveFails
    PROVE  /\ Kept' /\ srv = "receiving" /\ UNCHANGED <<pxClient, host, toHosts>>
           /\ Fails \/ UNCHANGED <<srv, file_buffer>>
  <1>1. /\ srv = "receiving"
        /\ UNCHANGED <<tid, pxClient, usExpectedBlockNumber, host, toServer, toHosts>>
        /\ Fails \/ UNCHANGED <<srv, file_buffer>>
    BY DEF Timeout, ReceiveFails
  <1>2. CASE Fails
    BY <1>1, <1>2, FailsKeeps DEF Kept, Typed
  <1>3. CASE UNCHANGED <<srv, file_buffer>>
    BY <1>1, <1>3 DEF Kept, Typed, KeepsFile, Asked, Receiving, Between, Begun, Whole
  <1> QED BY <1>1, <1>2, <1>3

(* A block: it is the next one, and fits, or the transfer is over.         *)
LEMMA DataKeeps ==
    ASSUME Kept, NEW p \in toServer, Data(p)
    PROVE  /\ Kept' /\ srv = "receiving" /\ UNCHANGED <<pxClient, host>>
           /\ \/ Fails
              \/ /\ Fit(p)
                 /\ LET file == host[pxClient].file
                    IN  \/ srv' = "receiving" /\ p.block # Blocks[file]
                        \/ /\ srv' = "idle" /\ p.block = Blocks[file]
                           /\ file_buffer' = Whole(file) /\ file \in Fitting
           /\ \A q \in toHosts' \ toHosts : q.op = "ACK" =>
                  Fit(p) /\ q.to = pxClient /\ q.block = p.block
  <1> DEFINE file == host[pxClient].file
             n == usExpectedBlockNumber
  <1>1. /\ srv = "receiving" /\ toServer' \subseteq toServer
        /\ usExpectedBlockNumber' = n + 1 /\ UNCHANGED <<tid, pxClient, host>>
        /\ GoodBlock(p) \/ WrongBlock(p)
    BY DEF Data, Leaves
  <1>2. /\ Asked(pxClient) /\ file \in Files /\ file_buffer = Begun(file, n) /\ n < Blocks[file]
        /\ n \in Nat /\ tid \in Nat /\ p.block \in Nat /\ pxClient \in Clients /\ n + 1 \in Nat
    BY <1>1 DEF Kept, Typed, Receiving, Asked, ToServer
  <1>3. Whole(file) = Begun(file, Blocks[file]) /\ Blocks[file] \in Nat
    BY <1>2, WholeIsBegun
  <1>4. /\ toHosts' \subseteq ToHosts
        /\ \A q \in toHosts' \ toHosts : q.op = "ACK" =>
                  Fit(p) /\ q.to = pxClient /\ q.block = p.block
    <2> DEFINE ack == prvSendAcknowledgement(pxClient, p.block, tid)
               error == prvSendTFTPError(pxClient)
    <2>1. \/ Reply({ack}) /\ Fit(p)
          \/ Reply({ack, error}) /\ Fit(p)
          \/ Reply({error})
      BY <1>1 DEF GoodBlock, WrongBlock
    <2>2. ack \in Replied /\ error \in Replied
      <3>1. pxClient \in Clients \union {"stranger"}
        BY <1>2
      <3> QED BY <1>2, <3>1, ReplyTypes
    <2>3. ack.to = pxClient /\ ack.block = p.block /\ error.op = "ERROR"
      BY DEF prvSendAcknowledgement, prvSendTFTPError
    <2> HIDE DEF ack, error
    <2>4. toHosts' \subseteq ToHosts
      <3>1. {ack, error} \subseteq Replied /\ {ack} \subseteq Replied /\ {error} \subseteq Replied
        BY <2>2
      <3> QED BY <2>1, <3>1, Replies
    <2>5. \A q \in toHosts' \ toHosts : q = error \/ (q = ack /\ Fit(p))
      BY <2>1 DEF Reply
    <2> QED BY <2>3, <2>4, <2>5
  <1>5. CASE Fails
    BY <1>1, <1>2, <1>4, <1>5, FailsKeeps
  <1>6. CASE ~Fails
    <2>1. /\ Fit(p) /\ HasRoom(file, p.block)
          /\ file_buffer' = Append(file_buffer, <<file, p.block>>)
          /\ srv' = IF p.block = Blocks[file] THEN "idle" ELSE "receiving"
      BY <1>1, <1>6 DEF GoodBlock, WrongBlock
    <2>2. p.block = n + 1
      BY <2>1 DEF Fit
    <2>3. file_buffer' = Begun(file, n + 1)
      BY <1>2, <2>1, <2>2, BegunIsSeq
    <2>7. n + Filled(file, p.block) <= BufferBlocks
      BY <1>2, <2>1, BegunIsSeq DEF HasRoom
    <2>4. KeepsFile' /\ Typed'
      BY <1>1, <1>2, <1>4, <2>1 DEF Kept, KeepsFile, Typed, Asked
    <2>5. CASE p.block = Blocks[file]
      <3>1. srv' = "idle" /\ file_buffer' = Whole(file)
        BY <1>3, <2>1, <2>2, <2>3, <2>5
      <3>2. file \in Fitting
        BY <1>2, <2>2, <2>5, <2>7, LimitsAssumption DEF Filled, Fitting
      <3>3. Asked(pxClient)'
        BY <1>1, <1>2 DEF Asked
      <3>4. Receiving' /\ Between'
        BY <1>1, <1>2, <3>1, <3>2, <3>3 DEF Receiving, Between, Whole, Fitting
      <3> QED BY <1>1, <1>4, <2>1, <2>4, <2>5, <3>1, <3>2, <3>4 DEF Kept
    <2>6. CASE p.block # Blocks[file]
      <3>1. srv' = "receiving" /\ n + 1 < Blocks[file]
        BY <1>2, <1>3, <2>1, <2>2, <2>6
      <3>3. n + 1 <= BufferBlocks
        BY <2>6, <2>7 DEF Filled
      <3>2. Receiving' /\ Between'
        BY <1>1, <1>2, <2>3, <3>1, <3>3 DEF Receiving, Between, Asked, Begun
      <3> QED BY <1>1, <1>4, <2>1, <2>4, <2>6, <3>1, <3>2 DEF Kept
    <2> QED BY <2>5, <2>6
  <1> QED BY <1>5, <1>6

-----------------------------------------------------------------------------
LEMMA KeptStep == ASSUME Kept, Step PROVE Kept'
  <1>1. CASE UNCHANGED transferVars
    BY <1>1 DEF transferVars, serverVars, Kept, Typed, KeepsFile, Asked, Receiving, Between, Begun, Whole
  <1>2. CASE TftpNext
    BY <1>2, ListenKeeps, RejectKeeps, WriteRequestKeeps, DataKeeps, SilenceKeeps, WorldStep
       DEF TftpNext, Server
  <1> QED BY <1>1, <1>2 DEF Step

(* Each step does what FileTransfer allows, or nothing it can see.         *)
LEMMA Implements ==
    ASSUME Kept, Step
    PROVE  [Transfer!Next]_<<OfferedFile, TakenFile>>
  <1>0. Kept'
    BY KeptStep
  <1>1. CASE UNCHANGED transferVars
    BY <1>1 DEF transferVars, serverVars, OfferedFile, TakenFile, Whole
  <1>2. CASE Listen
    <2>1. srv # "receiving" /\ srv' # "receiving" /\ file_buffer' = <<>>
      BY <1>2 DEF Listen
    <2> QED BY <1>0, <2>1, IdleView, IdleView2 DEF Transfer!Next, Transfer!Clear
  <1>3. ASSUME NEW p \in toServer, BadRequest(p) \/ NoReceivingSocket(p)
        PROVE  UNCHANGED <<OfferedFile, TakenFile>>
    BY <1>3, RejectKeeps DEF OfferedFile, TakenFile, Whole
  <1>4. ASSUME NEW p \in toServer, WriteRequest(p)
        PROVE  Transfer!Next
    <2>1. /\ srv # "receiving" /\ srv' = "receiving"
          /\ host'[pxClient'].file \in Files
      BY <1>4, WriteRequestKeeps DEF Asked
    <2>2. OfferedFile = "none" /\ OfferedFile' = host'[pxClient'].file /\ TakenFile' = "nothing"
      BY <2>1, IdleView DEF OfferedFile, TakenFile
    <2> QED BY <2>1, <2>2 DEF Transfer!Next, Transfer!Offer
  <1>5. ASSUME srv = "receiving", Fails
        PROVE  Transfer!Drop
    <2>1. OfferedFile # "none"
      BY <1>5, NamesAssumption DEF Kept, Receiving, Asked, OfferedFile
    <2>2. OfferedFile' = "none" /\ TakenFile' = "nothing"
      BY <1>0, <1>5, IdleView2 DEF Fails
    <2> QED BY <2>1, <2>2 DEF Transfer!Drop
  <1>6. ASSUME NEW p \in toServer, Data(p), ~Fails
        PROVE  [Transfer!Next]_<<OfferedFile, TakenFile>>
    <2> DEFINE file == host[pxClient].file
    <2>1. /\ srv = "receiving" /\ UNCHANGED <<pxClient, host>>
          /\ \/ srv' = "receiving"
             \/ srv' = "idle" /\ file_buffer' = Whole(file) /\ file \in Fitting
      BY <1>6, DataKeeps
    <2>2. OfferedFile = file /\ TakenFile = "nothing" /\ file \in Files
      BY <2>1, BusyView DEF Kept, Receiving, Asked
    <2>3. CASE srv' = "receiving"
      BY <2>1, <2>2, <2>3 DEF OfferedFile, TakenFile
    <2>4. CASE srv' = "idle" /\ file_buffer' = Whole(file) /\ file \in Fitting
      <3>1. OfferedFile' = "none" /\ TakenFile' = file
        BY <1>0, <2>2, <2>4, IdleView2
      <3> QED BY <2>2, <2>4, <3>1 DEF Transfer!Next, Transfer!Take
    <2> QED BY <2>1, <2>3, <2>4
  <1>7. ASSUME Timeout \/ ReceiveFails, ~Fails
        PROVE  UNCHANGED <<OfferedFile, TakenFile>>
    BY <1>7, SilenceKeeps DEF OfferedFile, TakenFile, Whole
  <1>8. CASE World
    BY <1>8, WorldStep, WorldView
  <1>9. CASE Server
    BY <1>3, <1>4, <1>5, <1>6, <1>7, <1>9, DataKeeps, SilenceKeeps DEF Server, Transfer!Next
  <1> QED BY <1>1, <1>2, <1>8, <1>9 DEF Step, TftpNext

(* The file is in the buffer when its last block is acknowledged.          *)
LEMMA AckKept ==
    ASSUME Kept, Step, NEW q \in toHosts' \ toHosts,
           q.op = "ACK", host[q.to].file \in Fitting, q.block = Blocks[host[q.to].file]
    PROVE  srv' = "idle" /\ file_buffer' = Whole(host[q.to].file)
  <1>0. q.block > 0
    BY WholeIsBegun DEF Fitting
  <1>1. \/ \E p \in toServer : BadRequest(p) \/ WriteRequest(p) \/ Data(p)
        \/ toHosts' \subseteq toHosts
    BY DEF Step, transferVars, TftpNext, Listen, Server, NoReceivingSocket, Timeout, ReceiveFails,
           World, Ask, AskWrongly, HostRepeats, HostTakes, Unheard, Lose, Stray
  <1>2. ASSUME NEW p \in toServer, BadRequest(p) PROVE FALSE
    BY <1>2 DEF BadRequest, Reply, prvSendTFTPError
  <1>3. ASSUME NEW p \in toServer, WriteRequest(p) PROVE FALSE
    BY <1>0, <1>3, WriteRequestKeeps
  <1>4. ASSUME NEW p \in toServer, Data(p)
        PROVE  srv' = "idle" /\ file_buffer' = Whole(host[q.to].file)
    <2>1. srv = "receiving" /\ Fit(p) /\ q.to = pxClient /\ q.block = p.block
      BY <1>4, DataKeeps
    <2> DEFINE file == host[pxClient].file
    <2>2. /\ file_buffer = Begun(file, usExpectedBlockNumber) /\ usExpectedBlockNumber \in Nat
          /\ file \in Files
      BY <2>1 DEF Kept, Typed, Receiving, Asked
    <2>3. HasRoom(file, p.block)
      <3>1. Len(file_buffer) + 1 = Blocks[file] /\ p.block = Blocks[file] /\ Len(file_buffer) \in Nat
        BY <2>1, <2>2, BegunIsSeq DEF Fit
      <3> QED BY <2>1, <3>1, LimitsAssumption DEF HasRoom, Filled, Fitting
    <2>4. ~Fails
      <3>1. file_buffer' = Append(file_buffer, <<file, p.block>>)
        BY <1>4, <2>1, <2>3 DEF Data, GoodBlock, WrongBlock
      <3>2. file_buffer' = Whole(file)
        <4>1. p.block = usExpectedBlockNumber + 1 /\ p.block = Blocks[file]
          BY <2>1 DEF Fit
        <4>2. file_buffer' = Begun(file, usExpectedBlockNumber + 1)
          BY <2>2, <3>1, <4>1, BegunIsSeq
        <4> QED BY <2>2, <4>1, <4>2, WholeIsBegun
      <3> QED BY <2>2, <3>2, WholeIsBegun DEF Fails
    <2> QED BY <1>4, <2>1, <2>4, DataKeeps
  <1> QED BY <1>1, <1>2, <1>3, <1>4

LEMMA PatientStep == ASSUME Kept, Patient, Step PROVE Patient'
  <1> USE LimitsAssumption DEF Patient
  <1>1. CASE UNCHANGED serverVars
    BY <1>1 DEF serverVars
  <1>2. ASSUME NEW p \in toServer, BadRequest(p) \/ NoReceivingSocket(p) PROVE Patient'
    BY <1>2 DEF BadRequest, NoReceivingSocket
  <1>3. ASSUME NEW p \in toServer, WriteRequest(p) PROVE Patient'
    <2>1. xRetries' = 0 /\ pxClient' \in Clients
      BY <1>3, WriteRequestKeeps DEF WriteRequest, Asked
    <2> QED BY <2>1
  <1>4. ASSUME NEW p \in toServer, Data(p) PROVE Patient'
    <2>1. pxClient' = pxClient /\ (xRetries' = 0 \/ (xRetries' = xRetries /\ srv' = "idle"))
      BY <1>4 DEF Data, GoodBlock, WrongBlock, Fails
    <2> QED BY <2>1
  <1>5. CASE Timeout
    <2>1. srv = "receiving" /\ xRetries' = xRetries + 1 /\ pxClient' = pxClient
          /\ (xRetries' > ipconfigTFTP_MAX_RETRIES => srv' = "idle")
      BY <1>5 DEF Timeout, Fails
    <2> QED BY <2>1
  <1>6. CASE ReceiveFails
    BY <1>6 DEF ReceiveFails, Fails
  <1>7. CASE Listen
    BY <1>7 DEF Listen
  <1>8. CASE World
    BY <1>1, <1>8, WorldStep DEF WorldKeeps
  <1> QED BY <1>1, <1>2, <1>3, <1>4, <1>5, <1>6, <1>7, <1>8
          DEF Step, TftpNext, Server, transferVars

LEMMA PatientInit == TftpInit => Patient
  BY LimitsAssumption DEF TftpInit, Patient

LEMMA TypesOfKept == ASSUME Kept, Patient PROVE TftpTypeOK
  <1>1. /\ \A i \in 1..Len(file_buffer) : file_buffer[i] \in Files \X Nat
        /\ Len(file_buffer) <= BufferBlocks + (IF srv = "receiving" THEN 0 ELSE 1)
        /\ Len(file_buffer) > BufferBlocks => file_buffer[Len(file_buffer)][1] \in EndsEmpty
    <2>1. CASE file_buffer = <<>>
      BY <2>1, LimitsAssumption
    <2>2. ASSUME NEW f \in Files, NEW n \in Nat, file_buffer = Begun(f, n),
                 n <= BufferBlocks + (IF srv # "receiving" /\ f \in EndsEmpty THEN 1 ELSE 0)
          PROVE  /\ \A i \in 1..Len(file_buffer) : file_buffer[i] \in Files \X Nat
                 /\ Len(file_buffer) <= BufferBlocks + (IF srv = "receiving" THEN 0 ELSE 1)
                 /\ Len(file_buffer) > BufferBlocks => file_buffer[Len(file_buffer)][1] \in EndsEmpty
      <3>1. Len(file_buffer) = n
        BY <2>2, BegunIsSeq
      <3>2. \A i \in 1..n : file_buffer[i] = <<f, i>> /\ i \in Nat
        BY <2>2 DEF Begun
      <3>3. \A i \in 1..n : <<f, i>> \in Files \X Nat
        OBVIOUS
      <3>4. \A i \in 1..Len(file_buffer) : file_buffer[i] \in Files \X Nat
        BY <3>1, <3>2, <3>3, Zenon
      <3>5. n > BufferBlocks => f \in EndsEmpty /\ n \in 1..n
        BY <2>2, LimitsAssumption
      <3>6. Len(file_buffer) > BufferBlocks => file_buffer[Len(file_buffer)][1] \in EndsEmpty
        BY <3>1, <3>2, <3>5
      <3>7. Len(file_buffer) <= BufferBlocks + (IF srv = "receiving" THEN 0 ELSE 1)
        BY <2>2, <3>1, LimitsAssumption
      <3> QED BY <3>4, <3>6, <3>7
    <2>3. CASE srv = "receiving"
      <3>1. /\ host[pxClient].file \in Files /\ usExpectedBlockNumber \in Nat
            /\ file_buffer = Begun(host[pxClient].file, usExpectedBlockNumber)
            /\ usExpectedBlockNumber <= BufferBlocks
        BY <2>3 DEF Kept, Typed, Receiving, Asked
      <3>2. ~(srv # "receiving" /\ host[pxClient].file \in EndsEmpty)
        BY <2>3
      <3>3. usExpectedBlockNumber <= BufferBlocks + 0
        BY <3>1, LimitsAssumption
      <3> QED BY <2>2, <3>1, <3>2, <3>3
    <2>4. CASE srv # "receiving" /\ file_buffer # <<>>
      <3>1. PICK c \in Clients : /\ Asked(c) /\ file_buffer = Whole(host[c].file)
                                 /\ host[c].file \in Fitting
        BY <2>4 DEF Kept, Between
      <3>2. /\ host[c].file \in Files /\ file_buffer = Begun(host[c].file, Blocks[host[c].file])
            /\ Blocks[host[c].file] \in Nat
        BY <3>1, WholeIsBegun DEF Asked
      <3>3. Blocks[host[c].file] <= BufferBlocks + (IF host[c].file \in EndsEmpty THEN 1 ELSE 0)
        BY <3>1 DEF Fitting
      <3> QED BY <2>2, <2>4, <3>2, <3>3
    <2> QED BY <2>1, <2>3, <2>4
  <1>2. /\ \A p \in toServer : p.op \in {"WRQ", "other", "DATA"}
        /\ \A p \in toHosts : p.op \in {"ACK", "ERROR"} /\ p.to \in Clients
    BY DEF Kept, Typed, ToServer, ToHosts
  <1> QED BY <1>1, <1>2 DEF Kept, Typed, Patient, TftpTypeOK

(* Whatever is lost, doubled or late on the way, a transfer ends with the  *)
(* whole file of the client that began it or with nothing: the server and  *)
(* its clients implement FileTransfer (prvReceiveFile,                     *)
(* TFTP_Receive_One_File).                                                 *)
THEOREM TransferCorrect == TftpSpec => WholeOrNothing
  <1>1. TftpInit => Kept
    BY KeptInit
  <1>2. Kept /\ [TftpNext]_tftpVars => Kept'
    BY KeptStep DEF Step, transferVars, tftpVars
  <1>3. TftpInit => Transfer!Init
    BY DEF TftpInit, Transfer!Init, OfferedFile, TakenFile
  <1>4. Kept /\ [TftpNext]_tftpVars => [Transfer!Next]_<<OfferedFile, TakenFile>>
    BY Implements DEF Step, transferVars, tftpVars
  <1> QED BY <1>1, <1>2, <1>3, <1>4, PTL DEF TftpSpec, WholeOrNothing, Transfer!Spec, Transfer!vars

(* The server acknowledges a block before it looks at the room for it; all *)
(* the same the client of a file that fits is told of its last block only  *)
(* when the file is there (prvReceiveFile).                                *)
THEOREM AckedCorrect == TftpSpec => AckedIsKept
  <1>1. TftpInit => Kept
    BY KeptInit
  <1>2. Kept /\ [TftpNext]_tftpVars => Kept'
    BY KeptStep DEF Step, transferVars, tftpVars
  <1>3. Kept /\ [TftpNext]_tftpVars =>
          [\A p \in toHosts' \ toHosts :
              p.op = "ACK" /\ host[p.to].file \in Fitting /\ p.block = Blocks[host[p.to].file]
                 => srv' = "idle" /\ file_buffer' = Whole(host[p.to].file)]_tftpVars
    BY AckKept DEF Step
  <1> QED BY <1>1, <1>2, <1>3, PTL DEF TftpSpec, AckedIsKept

(* The types of the server's variables; no block is stored past the end of *)
(* the receipt buffer (prvReceiveFile).                                    *)
THEOREM TftpTypeCorrect == TftpSpec => []TftpTypeOK
  <1>1. TftpInit => Kept /\ Patient
    BY KeptInit, PatientInit
  <1>2. (Kept /\ Patient) /\ [TftpNext]_tftpVars => (Kept /\ Patient)'
    BY KeptStep, PatientStep DEF Step, transferVars, tftpVars
  <1>3. Kept /\ Patient => TftpTypeOK
    BY TypesOfKept
  <1> QED BY <1>1, <1>2, <1>3, PTL DEF TftpSpec

(***************************************************************************)
(* Part two: the tasks and the file system (module FettServers).           *)
(***************************************************************************)
Tasked ==
    /\ main \in {"boot", "init", "assets", "create", "count", "deleted"}
    /\ ota \in {"off", "create", "ask", "tftp", "next", "lock", "open", "write", "release", "deleted"}
    /\ http \in {"off", "create", "select", "work", "recv", "lock", "send", "more", "release", "drop", "deleted", "crashed"}
    /\ notified \subseteq {"NTK", "HTTP", "OTA"}
    /\ ended \in {"running", "zero", "one"}
    /\ lock \in {"free", "ota", "http"}

(* vMain before there is a page or a task.                                 *)
Early == {"boot", "init", "assets"}

(* The lock is with the task that is at a point between taking it and      *)
(* giving it back; the tasks begin one after the other.                    *)
Owns ==
    /\ lock = "ota" <=> ota \in {"open", "write", "release"}
    /\ lock = "http" <=> http \in {"send", "release", "drop"}
    /\ main \in Early => http = "off"
    /\ main \in Early \union {"create"} => ota = "off"

(* From the verification to the last write the buffer is the signed update.*)
(* The page is that of one file: all of it, or after a failed writing its  *)
(* first pieces.                                                           *)
FirstOf(f, n) == [i \in 1..n |-> f]
Names == Files \union {"asset", "missing"}
PageOfOne ==
    \/ badDisk /\ page = Missing
    \/ \E f \in Updates \union {"asset"} : \E n \in 0..Pieces :
          page = FirstOf(f, n) /\ (n = Pieces \/ badDisk)
Paged ==
    /\ ota # "tftp" => srv = "idle"
    /\ ota \in {"lock", "open", "write"} => \E f \in Updates : file_buffer = Whole(f)
    /\ page \in Seq(Names) /\ Len(page) <= Pieces
    /\ main \in Early => page = Missing
    /\ ota = "write" => \E f \in Updates : /\ file_buffer = Whole(f)
                                          /\ \A i \in 1..Len(page) : page[i] = f
    /\ (main = "create" \/ ota # "off" \/ http # "off") /\ ota # "write" => PageOfOne

(* The list of the clients, and what the server keeps of each.             *)
AtClient == {"recv", "lock", "send", "more", "release", "drop"}
Connection == [st : {"away", "calling", "on", "hungup"}, cmd : {"none", "GET page", "GET nothing", "POST"},
               file : {"NULL", "page"}, left : 0..Pieces, out : Seq(Names \union {"stale"})]
Listed ==
    /\ clients \in Seq(Browsers) /\ ppxClient \in 1..Len(clients) + 1
    /\ http \in AtClient => ppxClient <= Len(clients)
    /\ conn \in [Browsers -> Connection]

(* Under the lock the pieces sent are those of the page.                   *)
Served ==
    /\ http \in {"send", "more"} => conn[pxThis].file # "NULL"
    /\ http = "send" =>
          /\ Len(conn[pxThis].out) + conn[pxThis].left = Len(page)
          /\ \A i \in 1..Len(conn[pxThis].out) : conn[pxThis].out[i] = page[i]
    /\ http = "release" =>
          /\ Len(conn[pxThis].out) <= Len(page)
          /\ \A i \in 1..Len(conn[pxThis].out) : conn[pxThis].out[i] = page[i]

(* Every open file has an FF_FILE of its own; some have nobody any more.   *)
Opened == {b \in Browsers : conn[b].file # "NULL"}
Allocated ==
    /\ FF_FILEs \in 0..MaxFiles
    /\ Cardinality(Opened) + (IF ota = "write" THEN 1 ELSE 0) <= FF_FILEs

(* A task notifies once, when it is over and was asked to stop.            *)
Over == (IF ota = "deleted" THEN 1 ELSE 0) + (IF http = "deleted" THEN 1 ELSE 0)
StopSent == \E c \in Clients : host[c].file \in Stop
Ending ==
    /\ "OTA" \in notified => ota = "deleted"
    /\ "HTTP" \in notified => http = "deleted"
    /\ iNotif \in Nat /\ iNotif + Counted(notified) <= Over
    /\ iNotif + Counted(notified) > 0 => stopRequested
    /\ stopRequested \in BOOLEAN
    /\ stopRequested /\ ended = "running" => StopSent
    /\ ended = "zero" => ota = "deleted" /\ http = "deleted" /\ StopSent

Inductive ==
    /\ Kept /\ Patient
    /\ Tasked /\ Owns /\ Paged /\ Listed /\ Served /\ Allocated /\ Ending

-----------------------------------------------------------------------------
(* The application's steps are those of the TFTP server and its clients,   *)
(* or cost them at most a fault.                                           *)
LEMMA StepsAreTftp == ASSUME Next PROVE Step
  <1> USE DEF Step, transferVars, tftpVars, TftpNext
  <1>1. CASE Main \/ NetworkUp \/ NetworkDown
    BY <1>1 DEF Main, FirstNotification, ff_init, Initialize_HTTP_Assets, CreateHttp, CreateOta, Count,
                NetworkUp, NetworkDown
  <1>2. CASE Ota
    BY <1>2 DEF Ota, vOta, Call, TftpServer, Verify, OtaLock, OtaOpen, OtaWrite, OtaRelease, Ota_Worker
  <1>3. CASE Http
    BY <1>3 DEF Http, FreeRTOS_CreateTCPServer, Select, Work, prvSendFile, xHTTPClientWork, OpenURL,
                Release, TheOthers
  <1>4. CASE Upload
    BY <1>4 DEF Upload
  <1>5. ASSUME NEW b \in Browsers, Browse(b) PROVE Step
    BY <1>5 DEF Browse, TheOthers
  <1> QED BY <1>1, <1>2, <1>3, <1>4, <1>5 DEF Next, Tasks

(* A browser calls, asks or hangs up, and leaves the application alone.    *)
LEMMA BrowseKeeps ==
    ASSUME NEW b \in Browsers, Browse(b)
    PROVE  UNCHANGED <<TheOthers, httpVars, notified, stopRequested, ended, lock, FF_FILEs>>
  BY DEF Browse

LEMMA TaskedStep == ASSUME Tasked, Next PROVE Tasked'
  <1> USE DEF Tasked
  <1>1. CASE Main \/ NetworkUp \/ NetworkDown
    BY <1>1 DEF Main, FirstNotification, ff_init, Initialize_HTTP_Assets, CreateHttp, CreateOta, Count,
                NetworkUp, NetworkDown, exitBesspin, NoExit, AssertOrDelete, otaVars, httpVars, mainVars
  <1>2. CASE Ota
    BY <1>2 DEF Ota, vOta, Call, TftpServer, Verify, OtaLock, OtaOpen, OtaWrite, OtaRelease, Ota_Worker,
                exitBesspin, NoExit, otaVars, httpVars, mainVars
  <1>3. CASE Http
    <2>1. UNCHANGED <<main, ota>>
      BY <1>3 DEF Http, FreeRTOS_CreateTCPServer, Select, Work, prvSendFile, xHTTPClientWork, OpenURL,
                  Release, TheOthers, otaVars, mainVars
    <2>0. ended' \in {"running", "zero", "one"}
      <3>1. NoExit \/ exitBesspin("one")
        BY <1>3 DEF Http, FreeRTOS_CreateTCPServer, Select, Work, prvSendFile, xHTTPClientWork, OpenURL,
                    Release, NoExit
      <3>2. ended' = ended \/ ended' = "one"
        BY <3>1 DEF NoExit, exitBesspin
      <3> QED BY <3>2
    <2>2. CASE FreeRTOS_CreateTCPServer \/ Select
      <3>1. http' \in {"select", "deleted", "work", "crashed"} /\ UNCHANGED <<notified, lock>>
        BY <2>2 DEF FreeRTOS_CreateTCPServer, Select
      <3> QED BY <2>0, <2>1, <3>1
    <2>3. CASE Work \/ Release
      BY <2>1, <2>3 DEF Work, Release
    <2>4. CASE prvSendFile
      BY <2>1, <2>4 DEF prvSendFile, StopSending, SendPiece
    <2>5. CASE xHTTPClientWork \/ OpenURL
      <3>1. http' \in {"work", "lock", "send", "release"} /\ UNCHANGED notified
            /\ lock' \in {lock, "http"}
        BY <2>5 DEF xHTTPClientWork, OpenURL
      <3> QED BY <2>0, <2>1, <3>1
    <2> QED BY <1>3, <2>2, <2>3, <2>4, <2>5 DEF Http
  <1>4. CASE Upload
    BY <1>4 DEF Upload, otaVars, httpVars, mainVars
  <1>5. ASSUME NEW b \in Browsers, Browse(b) PROVE Tasked'
    <2>1. UNCHANGED <<main, ota, http, notified, ended, lock>>
      BY <1>5, BrowseKeeps DEF TheOthers, otaVars, httpVars, mainVars
    <2> QED BY <2>1
  <1> QED BY <1>1, <1>2, <1>3, <1>4, <1>5 DEF Next, Tasks

LEMMA OwnsStep == ASSUME Tasked, Owns, Next PROVE Owns'
  <1> USE DEF Owns, Early
  <1>1. CASE Main \/ NetworkUp \/ NetworkDown
    BY <1>1 DEF Main, FirstNotification, ff_init, Initialize_HTTP_Assets, CreateHttp, CreateOta, Count,
                NetworkUp, NetworkDown, otaVars, httpVars, mainVars
  <1>2. CASE Ota
    BY <1>2 DEF Ota, vOta, Call, TftpServer, Verify, OtaLock, OtaOpen, OtaWrite, OtaRelease, Ota_Worker,
                otaVars, httpVars, mainVars
  <1>3. CASE Http
    BY <1>3 DEF Http, FreeRTOS_CreateTCPServer, Select, Work, prvSendFile, xHTTPClientWork, OpenURL,
                Release, TheOthers, StopSending, SendPiece, otaVars, httpVars, mainVars
  <1>4. CASE Upload
    BY <1>4 DEF Upload, otaVars, httpVars, mainVars
  <1>5. ASSUME NEW b \in Browsers, Browse(b) PROVE Owns'
    BY <1>5, BrowseKeeps DEF TheOthers, otaVars, httpVars, mainVars
  <1> QED BY <1>1, <1>2, <1>3, <1>4, <1>5 DEF Next, Tasks

-----------------------------------------------------------------------------
LEMMA FirstIsSeq ==
    ASSUME NEW f \in Names, NEW n \in 0..Pieces
    PROVE  /\ FirstOf(f, n) \in Seq(Names) /\ Len(FirstOf(f, n)) = n
           /\ \A i \in 1..n : FirstOf(f, n)[i] = f
  <1>1. n \in Nat
    BY SizesAssumption
  <1>2. FirstOf(f, n) \in [1..n -> Names]
    BY DEF FirstOf
  <1>3. FirstOf(f, n) \in Seq(Names)
    BY <1>1, <1>2, SeqDef
  <1>4. Len(FirstOf(f, n)) = n
    BY <1>1, <1>2, <1>3, LenProperties
  <1> QED BY <1>3, <1>4 DEF FirstOf

(* A page whose pieces are all of one file.                                *)
LEMMA OfOneFile ==
    ASSUME NEW f \in Names, page \in Seq(Names),
           \A i \in 1..Len(page) : page[i] = f
    PROVE  page = FirstOf(f, Len(page))
  <1>1. page \in [1..Len(page) -> Names]
    BY LenProperties
  <1>2. page = [i \in 1..Len(page) |-> page[i]]
    BY <1>1
  <1> QED BY <1>2 DEF FirstOf

LEMMA MissingPage == Missing \in Seq(Names) /\ Len(Missing) = 1 /\ Missing[1] = "missing" /\ 1 <= Pieces
  BY SizesAssumption DEF Missing, Names

LEMMA UpdateNames == Updates \subseteq Names /\ "asset" \in Names /\ "stale" \notin Names
  BY SignedAssumption DEF Names

(* Steps that leave the disk and the points of the update task alone.      *)
LEMMA PagedKept ==
    ASSUME Paged, UNCHANGED <<serverVars, page, badDisk, ota>>,
           (main' = "create" \/ ota' # "off" \/ http' # "off") =>
              (main = "create" \/ ota # "off" \/ http # "off"),
           main' \in Early => main \in Early
    PROVE  Paged'
  BY DEF Paged, PageOfOne, Whole, FirstOf, Missing, serverVars

LEMMA PagedStep == ASSUME Kept, Tasked, Owns, Paged, Next PROVE Paged'
  <1>1. ASSUME FirstNotification \/ ff_init \/ CreateHttp \/ Count \/ NetworkUp \/ NetworkDown PROVE Paged'
    BY <1>1, PagedKept DEF FirstNotification, ff_init, CreateHttp, Count, NetworkUp, NetworkDown, Early,
                            otaVars, httpVars, mainVars, tftpVars
  <1>2. CASE Initialize_HTTP_Assets
    <2>0. UNCHANGED <<serverVars, ota, http>> /\ main = "assets" /\ ota = "off" /\ http = "off"
      BY <1>2 DEF Initialize_HTTP_Assets, Owns, Early, httpVars
    <2>1. \/ page' = FirstOf("asset", Pieces)
          \/ badDisk' /\ page' = page
          \/ badDisk' /\ \E n \in 0..Pieces - 1 : page' = FirstOf("asset", n)
      BY <1>2 DEF Initialize_HTTP_Assets, FirstOf
    <2>2. CASE badDisk' /\ page' = page
      <3>1. page' = Missing
        BY <2>0, <2>2 DEF Paged, Early
      <3>2. PageOfOne'
        BY <2>2, <3>1 DEF PageOfOne, Missing
      <3> QED BY <2>0, <2>2, <3>1, <3>2 DEF Paged, serverVars, Missing
    <2>3. ASSUME NEW n \in 0..Pieces, page' = FirstOf("asset", n), n = Pieces \/ badDisk'
          PROVE  Paged'
      <3>1. page' \in Seq(Names) /\ Len(page') <= Pieces
        BY <2>3, FirstIsSeq, UpdateNames, SizesAssumption
      <3>2. PageOfOne'
        BY <2>3 DEF PageOfOne, FirstOf
      <3>3. main' = "create"
        BY <1>2 DEF Initialize_HTTP_Assets
      <3> QED BY <2>0, <3>1, <3>2, <3>3 DEF Paged, Early, serverVars
    <2>4. Pieces \in 0..Pieces /\ 0..Pieces - 1 \subseteq 0..Pieces
      BY SizesAssumption
    <2> QED BY <2>1, <2>2, <2>3, <2>4
  <1>3. CASE CreateOta
    <2>1. /\ UNCHANGED <<serverVars, page, badDisk, http>> /\ main = "create" /\ main' \notin Early
          /\ ota = "off" /\ ota' \in {"off", "create"}
      BY <1>3 DEF CreateOta, Owns, Early, httpVars
    <2> QED BY <2>1 DEF Paged, PageOfOne, FirstOf, Missing, serverVars
  <1>4. CASE vOta \/ Call \/ TftpServer \/ OtaLock \/ OtaRelease \/ Ota_Worker
    <2>1. /\ UNCHANGED <<page, badDisk, http, main>> /\ ota # "off" /\ ota \notin {"write", "open"}
          /\ ota' # "write"
      BY <1>4 DEF vOta, Call, TftpServer, OtaLock, OtaRelease, Ota_Worker, tftpVars, httpVars, mainVars, otaVars
    <2>2. /\ ota' # "tftp" => srv' = "idle"
          /\ ota' \in {"lock", "open"} => \E f \in Updates : file_buffer' = Whole(f)
      BY <1>4 DEF vOta, Call, TftpServer, OtaLock, OtaRelease, Ota_Worker, Paged, serverVars, Listen,
                  tftpVars, httpVars, mainVars, otaVars
    <2> QED BY <2>1, <2>2 DEF Paged, PageOfOne, FirstOf, Missing, Whole
  <1>5. CASE Verify
    <2>1. /\ UNCHANGED <<serverVars, page, badDisk, http, main>> /\ ota = "tftp" /\ srv = "idle"
          /\ ota' = "next" \/ (ota' = "lock" /\ Signed /\ ~\E f \in Stop : file_buffer = Whole(f))
      BY <1>5 DEF Verify, tftpVars, httpVars, mainVars
    <2> QED BY <2>1 DEF Paged, PageOfOne, FirstOf, Missing, serverVars, Signed, Whole
  <1>6. CASE OtaOpen
    <2>1. /\ UNCHANGED <<serverVars, http, main>> /\ ota = "open" /\ ota' \in {"write", "release"}
          /\ main \notin Early
      BY <1>6 DEF OtaOpen, Owns, tftpVars, httpVars, mainVars
    <2>2. CASE ota' = "write"
      <3>1. page' = <<>>
        BY <1>6, <2>2 DEF OtaOpen
      <3> QED BY <2>1, <2>2, <3>1, SizesAssumption DEF Paged, serverVars, Whole
    <2>3. CASE ota' = "release"
      <3>1. UNCHANGED <<page, badDisk>>
        BY <1>6, <2>3 DEF OtaOpen
      <3> QED BY <2>1, <2>3, <3>1 DEF Paged, PageOfOne, FirstOf, Missing, serverVars
    <2> QED BY <2>1, <2>2, <2>3
  <1>7. CASE OtaWrite
    <2>1. /\ UNCHANGED <<serverVars, http, main>> /\ ota = "write" /\ ota' \in {"write", "release"}
          /\ main \notin Early
      BY <1>7 DEF OtaWrite, Owns, httpVars, mainVars
    <2>2. PICK f \in Updates : file_buffer = Whole(f) /\ \A i \in 1..Len(page) : page[i] = f
      BY <2>1 DEF Paged
    <2>3. f \in Names /\ f \in Files
      BY UpdateNames, SignedAssumption
    <2>4. CASE ota' = "write"
      <3>1. Len(page) < Pieces /\ page' = Append(page, f) /\ UNCHANGED badDisk
        BY <1>7, <2>2, <2>3, <2>4, WholeIsBegun DEF OtaWrite
      <3>2. /\ page' \in Seq(Names) /\ Len(page') <= Pieces
            /\ \A i \in 1..Len(page') : page'[i] = f
        BY <2>2, <2>3, <3>1, SizesAssumption DEF Paged
      <3> QED BY <2>1, <2>2, <2>4, <3>2 DEF Paged, serverVars, Whole
    <2>5. CASE ota' = "release"
      <3>1. UNCHANGED page /\ (badDisk' \/ (~(Len(page) < Pieces) /\ UNCHANGED badDisk))
        BY <1>7, <2>4, <2>5 DEF OtaWrite
      <3>2. /\ page = FirstOf(f, Len(page)) /\ Len(page) \in 0..Pieces
            /\ badDisk' \/ Len(page) = Pieces
        BY <2>2, <2>3, <3>1, OfOneFile, SizesAssumption DEF Paged
      <3>3. PageOfOne'
        BY <3>1, <3>2 DEF PageOfOne, FirstOf
      <3> QED BY <2>1, <2>5, <3>1, <3>3 DEF Paged, serverVars
    <2> QED BY <2>1, <2>4, <2>5
  <1>8. CASE Http
    <2>1. UNCHANGED TheOthers /\ http # "off"
      BY <1>8 DEF Http, FreeRTOS_CreateTCPServer, Select, Work, prvSendFile, xHTTPClientWork, OpenURL, Release
    <2> QED BY <2>1, PagedKept DEF TheOthers, otaVars, mainVars
  <1>9. ASSUME NEW b \in Browsers, Browse(b) PROVE Paged'
    BY <1>9, BrowseKeeps, PagedKept DEF TheOthers, otaVars, mainVars, httpVars
  <1>10. CASE Upload
    BY <1>10, WorldStep, PagedKept DEF Upload, WorldKeeps, otaVars, mainVars, httpVars
  <1> QED BY <1>1, <1>2, <1>3, <1>4, <1>5, <1>6, <1>7, <1>8, <1>9, <1>10
          DEF Next, Tasks, Main, Ota

-----------------------------------------------------------------------------
(* The client whose turn it is.                                            *)
LEMMA ThisClient ==
    ASSUME Listed, http \in AtClient
    PROVE  pxThis \in Browsers /\ conn[pxThis] \in Connection /\ ppxClient \in 1..Len(clients)
  <1>1. ppxClient \in 1..Len(clients)
    BY DEF Listed
  <1>2. clients[ppxClient] \in Browsers
    BY <1>1 DEF Listed
  <1> QED BY <1>1, <1>2 DEF Listed, pxThis

LEMMA GoneConnection == Gone \in Connection /\ Gone.file = "NULL"
  <1>1. 0 \in 0..Pieces
    BY SizesAssumption
  <1>2. <<>> \in Seq(Names \union {"stale"})
    OBVIOUS
  <1> QED BY <1>1, <1>2 DEF Gone, Connection

(* One connection changes.                                                 *)
Changes(b, r) == b \in Browsers /\ r \in Connection /\ conn' = [conn EXCEPT ![b] = r]
LEMMA ListedAfterChange ==
    ASSUME Listed, NEW b, NEW r, Changes(b, r), UNCHANGED <<clients, ppxClient>>,
           http' \in AtClient => http \in AtClient
    PROVE  Listed'
  BY DEF Listed, Changes

(* A client leaves the list: the next one takes its place.                 *)
LEMMA Deleted ==
    ASSUME Listed, http \in AtClient, http' = "work", vHTTPClientDelete, UNCHANGED ppxClient
    PROVE  Listed' /\ Changes(pxThis, Gone)
  <1> DEFINE n == Len(clients)
             left == [i \in 1..n - 1 |-> clients[IF i < ppxClient THEN i ELSE i + 1]]
  <1>1. /\ clients \in Seq(Browsers) /\ n \in Nat /\ ppxClient \in 1..n /\ clients' = left
        /\ pxThis \in Browsers
    BY ThisClient DEF Listed, vHTTPClientDelete
  <1>2. n - 1 \in Nat
    BY <1>1
  <1>3. \A i \in 1..n - 1 : clients[IF i < ppxClient THEN i ELSE i + 1] \in Browsers
    <2> TAKE i \in 1..n - 1
    <2>1. (IF i < ppxClient THEN i ELSE i + 1) \in 1..n
      BY <1>1
    <2>2. \A j \in 1..n : clients[j] \in Browsers
      BY <1>1
    <2> QED BY <2>1, <2>2
  <1>4. left \in [1..n - 1 -> Browsers]
    BY <1>3, Zenon
  <1>5. left \in Seq(Browsers) /\ Len(left) = n - 1
    <2> HIDE DEF left, n
    <2>1. left \in Seq(Browsers)
      BY <1>2, <1>4, SeqDef
    <2>2. DOMAIN left = 1..Len(left) /\ DOMAIN left = 1..n - 1 /\ Len(left) \in Nat
      BY <1>4, <2>1, LenProperties
    <2> QED BY <1>2, <2>1, <2>2
  <1>6. Changes(pxThis, Gone)
    BY <1>1, GoneConnection DEF Changes, vHTTPClientDelete
  <1>7. clients' \in Seq(Browsers) /\ ppxClient' \in 1..Len(clients') + 1
    <2> HIDE DEF left, n
    <2> QED BY <1>1, <1>5
  <1>8. conn' \in [Browsers -> Connection]
    BY <1>6, GoneConnection DEF Changes, Listed
  <1> QED BY <1>6, <1>7, <1>8 DEF Listed, AtClient

(* The pieces that the web server finds are names or old bytes.            *)
LEMMA PieceNamed ==
    ASSUME Paged, NEW n
    PROVE  Piece(n) \in Names \union {"stale"}
  <1>1. page \in Seq(Names)
    BY DEF Paged
  <1>2. \A k \in DOMAIN page : page[k] \in Names
    BY <1>1
  <1> QED BY <1>2 DEF Piece

LEMMA Piecewise ==
    ASSUME Paged, Listed, http \in {"send", "more"}, SendPiece
    PROVE  \E r \in Connection :
              /\ Changes(pxThis, r)
              /\ r.st = "on" /\ r.file = conn[pxThis].file
              /\ conn[pxThis].left \in 1..Pieces
              /\ r.left = conn[pxThis].left - 1
              /\ r.out = Append(conn[pxThis].out, Piece(Len(conn[pxThis].out) + 1))
  <1> DEFINE c == conn[pxThis]
             r == [c EXCEPT !.left = @ - 1, !.out = Append(@, Piece(Len(@) + 1))]
  <1>1. pxThis \in Browsers /\ c \in Connection
    BY ThisClient DEF AtClient
  <1>2. c.left \in 1..Pieces /\ c.st = "on" /\ conn' = [conn EXCEPT ![pxThis] = r]
    <2>1. conn' = [conn EXCEPT ![pxThis] = r] /\ c.left > 0 /\ c.st = "on"
      BY DEF SendPiece
    <2>2. c.left \in 0..Pieces
      BY <1>1 DEF Connection
    <2> HIDE DEF c, r
    <2> QED BY <2>1, <2>2, SizesAssumption
  <1>3. c.left - 1 \in 0..Pieces
    BY <1>2, SizesAssumption
  <1>4. Append(c.out, Piece(Len(c.out) + 1)) \in Seq(Names \union {"stale"})
    <2>1. c.out \in Seq(Names \union {"stale"})
      BY <1>1 DEF Connection
    <2>2. Piece(Len(c.out) + 1) \in Names \union {"stale"}
      BY PieceNamed
    <2> HIDE DEF c
    <2> QED BY <2>1, <2>2
  <1>5. /\ r \in Connection /\ r.st = "on" /\ r.file = c.file
        /\ r.left = c.left - 1 /\ r.out = Append(c.out, Piece(Len(c.out) + 1))
    <2> HIDE DEF c
    <2> QED BY <1>1, <1>2, <1>3, <1>4 DEF Connection
  <1> HIDE DEF r
  <1> QED BY <1>1, <1>2, <1>5 DEF Changes

(* The end of prvSendFile.                                                 *)
LEMMA Stopped ==
    ASSUME Listed, http \in {"send", "more"}, NEW next, StopSending(next)
    PROVE  /\ http' = next
           /\ \/ UNCHANGED <<conn, FF_FILEs>>
              \/ \E r \in Connection :
                    /\ Changes(pxThis, r) /\ FF_FILEs' = FF_FILEs - 1
                    /\ r.st = conn[pxThis].st /\ r.file = "NULL" /\ r.out = conn[pxThis].out
  <1> DEFINE c == conn[pxThis]
             r == [c EXCEPT !.file = "NULL"]
  <1>1. pxThis \in Browsers /\ c \in Connection
    BY ThisClient DEF AtClient
  <1>2. r \in Connection /\ r.st = c.st /\ r.file = "NULL" /\ r.out = c.out
    BY <1>1 DEF Connection
  <1>3. conn' = [conn EXCEPT ![pxThis].file = "NULL"] => conn' = [conn EXCEPT ![pxThis] = r]
    OBVIOUS
  <1> HIDE DEF r
  <1> QED BY <1>1, <1>2, <1>3 DEF Changes, StopSending

(* What a request becomes when the page is looked for.                     *)
LEMMA Looked ==
    ASSUME Paged, Listed, OpenURL
    PROVE  \E r \in Connection :
              /\ Changes(pxThis, r) /\ r.st = conn[pxThis].st /\ r.out = <<>>
              /\ \/ http' = "send" /\ r.file = "page" /\ r.left = Len(page) /\ FF_FILEs < MaxFiles
                 \/ http' = "release" /\ r.file = "NULL"
              /\ FF_FILEs' = IF FF_FILEs < MaxFiles THEN FF_FILEs + 1 ELSE FF_FILEs
  <1> DEFINE c == conn[pxThis]
             found == [c EXCEPT !.cmd = "none", !.out = <<>>, !.file = "page", !.left = Len(page)]
             missed == [c EXCEPT !.cmd = "none", !.out = <<>>, !.file = "NULL"]
  <1>1. pxThis \in Browsers /\ c \in Connection
    BY ThisClient DEF OpenURL, AtClient
  <1>2. Len(page) \in 0..Pieces /\ <<>> \in Seq(Names \union {"stale"})
    BY SizesAssumption DEF Paged
  <1>3. /\ found \in Connection /\ found.st = c.st /\ found.out = <<>>
        /\ found.file = "page" /\ found.left = Len(page)
    <2> HIDE DEF c
    <2> QED BY <1>1, <1>2 DEF Connection
  <1>4. missed \in Connection /\ missed.st = c.st /\ missed.out = <<>> /\ missed.file = "NULL"
    <2> HIDE DEF c
    <2> QED BY <1>1, <1>2 DEF Connection
  <1>5. /\ \/ conn' = [conn EXCEPT ![pxThis] = found] /\ http' = "send" /\ FF_FILEs < MaxFiles
           \/ conn' = [conn EXCEPT ![pxThis] = missed] /\ http' = "release"
        /\ FF_FILEs' = IF FF_FILEs < MaxFiles THEN FF_FILEs + 1 ELSE FF_FILEs
    BY DEF OpenURL
  <1> HIDE DEF found, missed
  <1> QED BY <1>1, <1>3, <1>4, <1>5 DEF Changes

LEMMA Browsed ==
    ASSUME Listed, NEW b \in Browsers, Browse(b)
    PROVE  \E r \in Connection :
              /\ Changes(b, r)
              /\ r.file = conn[b].file /\ r.left = conn[b].left /\ r.out = conn[b].out
  <1> DEFINE c == conn[b]
             calls == [c EXCEPT !.st = "calling"]
             hangsUp == [c EXCEPT !.st = "hungup"]
             asks(cmd) == [c EXCEPT !.cmd = cmd]
  <1>1. c \in Connection
    BY DEF Listed
  <1>2. CASE c.st = "away" /\ conn' = [conn EXCEPT ![b] = calls]
    <2>1. calls \in Connection /\ calls.file = c.file /\ calls.left = c.left /\ calls.out = c.out
      BY <1>1 DEF Connection
    <2> HIDE DEF calls
    <2> QED BY <1>2, <2>1 DEF Changes
  <1>3. CASE conn' = [conn EXCEPT ![b] = hangsUp]
    <2>1. /\ hangsUp \in Connection /\ hangsUp.file = c.file /\ hangsUp.left = c.left
          /\ hangsUp.out = c.out /\ hangsUp.st = "hungup"
      BY <1>1 DEF Connection
    <2> HIDE DEF hangsUp
    <2> QED BY <1>3, <2>1 DEF Changes
  <1>4. ASSUME NEW cmd \in {"GET page", "GET nothing", "POST"}, conn' = [conn EXCEPT ![b] = asks(cmd)]
        PROVE  \E r \in Connection :
              /\ Changes(b, r)
              /\ r.file = conn[b].file /\ r.left = conn[b].left /\ r.out = conn[b].out
    <2> DEFINE r == asks(cmd)
    <2>1. /\ r \in Connection /\ r.file = c.file /\ r.left = c.left
          /\ r.out = c.out /\ r.st = c.st
      BY <1>1 DEF Connection
    <2>2. conn' = [conn EXCEPT ![b] = r]
      BY <1>4
    <2> HIDE DEF r
    <2> QED BY <2>1, <2>2 DEF Changes
  <1>5. \/ c.st = "away" /\ conn' = [conn EXCEPT ![b].st = "calling"]
        \/ conn' = [conn EXCEPT ![b].st = "hungup"]
        \/ \E cmd \in {"GET page", "GET nothing", "POST"} : conn' = [conn EXCEPT ![b].cmd = cmd]
    BY DEF Browse
  <1> QED BY <1>2, <1>3, <1>4, <1>5

(* Everything but the web server and the browsers leaves the list alone.   *)
LEMMA ListKept ==
    ASSUME Main \/ NetworkUp \/ NetworkDown \/ Ota \/ Upload
    PROVE  /\ UNCHANGED <<clients, ppxClient, conn>>
           /\ http' # http => http' = "create"
  <1>1. CASE Main \/ NetworkUp \/ NetworkDown
    BY <1>1 DEF Main, FirstNotification, ff_init, Initialize_HTTP_Assets, CreateHttp, CreateOta, Count,
                NetworkUp, NetworkDown, httpVars, webVars
  <1>2. CASE Ota \/ Upload
    BY <1>2 DEF Ota, vOta, Call, TftpServer, Verify, OtaLock, OtaOpen, OtaWrite, OtaRelease, Ota_Worker,
                Upload, httpVars, webVars
  <1> QED BY <1>1, <1>2

LEMMA Accepted ==
    ASSUME Listed, NEW b \in Browsers, clients' = <<b>> \o clients, ppxClient' = 1, http' = "work",
           conn' = [conn EXCEPT ![b] = [Gone EXCEPT !.st = "on", !.cmd = conn[b].cmd]]
    PROVE  Listed'
  <1> DEFINE r == [Gone EXCEPT !.st = "on", !.cmd = conn[b].cmd]
  <1>1. r \in Connection /\ r.st = "on"
    <2>1. conn[b].cmd \in {"none", "GET page", "GET nothing", "POST"}
      BY DEF Listed, Connection
    <2> HIDE DEF Listed
    <2> QED BY <2>1, GoneConnection DEF Connection
  <1>2. conn' \in [Browsers -> Connection]
    <2> HIDE DEF r
    <2>1. conn' = [conn EXCEPT ![b] = r]
      BY DEF r
    <2> QED BY <1>1, <2>1 DEF Listed
  <1>3. clients' \in Seq(Browsers) /\ Len(clients') \in Nat
    <2>1. <<b>> \in Seq(Browsers) /\ clients \in Seq(Browsers)
      BY DEF Listed
    <2> QED BY <2>1, ConcatProperties, LenProperties
  <1>4. ppxClient' \in 1..Len(clients') + 1
    BY <1>3
  <1> QED BY <1>2, <1>3, <1>4 DEF Listed, AtClient

LEMMA ListedStep == ASSUME Paged, Listed, Next PROVE Listed'
  <1>1. CASE Main \/ NetworkUp \/ NetworkDown \/ Ota \/ Upload
    BY <1>1, ListKept DEF Listed, AtClient
  <1>2. ASSUME NEW b \in Browsers, Browse(b) PROVE Listed'
    <2>1. UNCHANGED <<http, clients, ppxClient>>
      BY <1>2, BrowseKeeps DEF httpVars
    <2>2. PICK r \in Connection : Changes(b, r)
      BY <1>2, Browsed
    <2> QED BY <2>1, <2>2, ListedAfterChange
  <1>3. CASE FreeRTOS_CreateTCPServer \/ Work
    BY <1>3 DEF FreeRTOS_CreateTCPServer, Work, Listed, AtClient, webVars
  <1>4. CASE Select
    <2>1. CASE UNCHANGED <<clients, conn>>
      <3>1. ppxClient' = 1 /\ http' \notin AtClient
        BY <1>4 DEF Select, AtClient
      <3>2. Len(clients) \in Nat
        BY DEF Listed
      <3> QED BY <2>1, <3>1, <3>2 DEF Listed
    <2> QED BY <1>4, <2>1, Accepted DEF Select
  <1>5. CASE prvSendFile
    <2>1. UNCHANGED <<clients, ppxClient>> /\ http \in {"send", "more"} /\ http \in AtClient
      BY <1>5 DEF prvSendFile, AtClient
    <2>2. CASE SendPiece
      <3>1. PICK r \in Connection : Changes(pxThis, r)
        BY <2>1, <2>2, Piecewise
      <3> QED BY <2>1, <3>1, ListedAfterChange
    <2>3. ASSUME NEW next \in {"release", "drop", "recv"}, StopSending(next) PROVE Listed'
      <3>1. CASE UNCHANGED conn
        BY <2>1, <3>1 DEF Listed
      <3>2. CASE ~UNCHANGED conn
        <4>1. PICK r \in Connection : Changes(pxThis, r)
          BY <2>1, <2>3, <3>2, Stopped
        <4> QED BY <2>1, <4>1, ListedAfterChange
      <3> QED BY <3>1, <3>2
    <2> QED BY <1>5, <2>2, <2>3 DEF prvSendFile
  <1>6. CASE xHTTPClientWork
    <2>1. http \in AtClient /\ UNCHANGED lock
      BY <1>6 DEF xHTTPClientWork, AtClient
    <2>2. CASE http' = "work" /\ vHTTPClientDelete /\ UNCHANGED ppxClient
      BY <2>1, <2>2, Deleted
    <2>3. CASE UNCHANGED <<clients, ppxClient, conn>>
      BY <2>1, <2>3 DEF Listed
    <2>4. CASE /\ conn[pxThis].st = "on" /\ http' = "work" /\ ppxClient' = ppxClient + 1
               /\ conn' = [conn EXCEPT ![pxThis].cmd = "none"] /\ UNCHANGED clients
      <3> DEFINE r == [conn[pxThis] EXCEPT !.cmd = "none"]
      <3>1. pxThis \in Browsers /\ conn[pxThis] \in Connection /\ ppxClient \in 1..Len(clients)
        BY <2>1, ThisClient
      <3>2. r \in Connection /\ r.st = "on" /\ conn' = [conn EXCEPT ![pxThis] = r]
        BY <2>4, <3>1 DEF Connection
      <3> HIDE DEF r
      <3>3. conn' \in [Browsers -> Connection]
        BY <3>1, <3>2 DEF Listed
      <3>4. clients' \in Seq(Browsers) /\ ppxClient' \in 1..Len(clients') + 1
        BY <2>4, <3>1 DEF Listed
      <3> QED BY <2>4, <3>3, <3>4 DEF Listed, AtClient
    <2> QED BY <1>6, <2>2, <2>3, <2>4 DEF xHTTPClientWork
  <1>7. CASE OpenURL
    <2>1. UNCHANGED <<clients, ppxClient>> /\ http \in AtClient /\ conn[pxThis] \in Connection
      BY <1>7, ThisClient DEF OpenURL, AtClient
    <2>2. PICK r \in Connection : Changes(pxThis, r)
      BY <1>7, Looked
    <2> QED BY <1>7, <2>1, <2>2, ListedAfterChange
  <1>8. CASE Release
    <2>1. http \in AtClient /\ http' = "work"
      BY <1>8 DEF Release, AtClient
    <2>2. CASE vHTTPClientDelete /\ UNCHANGED ppxClient
      BY <2>1, <2>2, Deleted
    <2>3. CASE ppxClient' = ppxClient + 1 /\ UNCHANGED <<conn, clients>>
      <3>1. ppxClient \in 1..Len(clients)
        BY <2>1, ThisClient
      <3> QED BY <2>1, <2>3, <3>1 DEF Listed, AtClient
    <2> QED BY <1>8, <2>2, <2>3 DEF Release
  <1> QED BY <1>1, <1>2, <1>3, <1>4, <1>5, <1>6, <1>7, <1>8 DEF Next, Tasks, Http

-----------------------------------------------------------------------------
(* While the web server has the lock the page stays as it is.              *)
LEMMA PageStays ==
    ASSUME Owns, http \in {"send", "release"}, Next
    PROVE  UNCHANGED <<page, badDisk>>
  <1>1. ota \notin {"open", "write"} /\ main \notin Early
    BY DEF Owns, Early
  <1>2. CASE Main \/ NetworkUp \/ NetworkDown
    BY <1>1, <1>2 DEF Main, Early, FirstNotification, ff_init, Initialize_HTTP_Assets, CreateHttp, CreateOta, Count,
                NetworkUp, NetworkDown, otaVars
  <1>3. CASE Ota \/ Upload
    BY <1>1, <1>3 DEF Ota, vOta, Call, TftpServer, Verify, OtaLock, OtaOpen, OtaWrite, OtaRelease, Ota_Worker,
                Upload, otaVars
  <1>4. CASE Http
    BY <1>4 DEF Http, FreeRTOS_CreateTCPServer, Select, Work, prvSendFile, xHTTPClientWork, OpenURL,
                Release, TheOthers, otaVars
  <1>5. ASSUME NEW b \in Browsers, Browse(b) PROVE UNCHANGED <<page, badDisk>>
    BY <1>5, BrowseKeeps DEF TheOthers, otaVars
  <1> QED BY <1>2, <1>3, <1>4, <1>5 DEF Next, Tasks

(* With the lock, the page is that of one file.                            *)
LEMMA PageIsOne ==
    ASSUME Owns, Paged, lock = "http", http # "off"
    PROVE  \E f \in Names : \A i \in 1..Len(page) : page[i] = f
  <1>1. PageOfOne
    BY DEF Owns, Paged
  <1>2. CASE page = Missing
    BY <1>2, MissingPage DEF Names
  <1>3. CASE \E f \in Updates \union {"asset"} : \E n \in 0..Pieces : page = FirstOf(f, n)
    <2>1. PICK f \in Updates \union {"asset"} : \E n \in 0..Pieces : page = FirstOf(f, n)
      BY <1>3
    <2>2. PICK n \in 0..Pieces : page = FirstOf(f, n)
      BY <2>1
    <2>3. f \in Names
      BY UpdateNames
    <2>4. Len(page) = n /\ \A i \in 1..n : page[i] = f
      BY <2>2, <2>3, FirstIsSeq
    <2> QED BY <2>3, <2>4
  <1> QED BY <1>1, <1>2, <1>3 DEF PageOfOne

LEMMA ServedKept ==
    ASSUME Served, UNCHANGED <<http, clients, ppxClient>>,
           http \in {"send", "release"} => UNCHANGED <<page, badDisk>>,
           conn'[pxThis].file = conn[pxThis].file, conn'[pxThis].left = conn[pxThis].left,
           conn'[pxThis].out = conn[pxThis].out
    PROVE  Served'
  BY DEF Served, pxThis

LEMMA ServedStep == ASSUME Tasked, Owns, Paged, Listed, Served, Next PROVE Served'
  <1>1. CASE Main \/ NetworkUp \/ NetworkDown \/ Ota \/ Upload
    <2>1. UNCHANGED <<clients, ppxClient, conn>> /\ (http' # http => http' = "create")
      BY <1>1, ListKept
    <2>2. CASE http' = "create"
      BY <2>2 DEF Served
    <2>3. CASE http' = http
      BY <2>1, <2>3, PageStays, ServedKept
    <2> QED BY <2>1, <2>2, <2>3
  <1>2. ASSUME NEW b \in Browsers, Browse(b) PROVE Served'
    <2>1. UNCHANGED <<http, clients, ppxClient>>
      BY <1>2, BrowseKeeps DEF httpVars
    <2>2. PICK r \in Connection : Changes(b, r)
              /\ r.file = conn[b].file /\ r.left = conn[b].left /\ r.out = conn[b].out
      BY <1>2, Browsed
    <2>3. CASE http \in AtClient
      <3>1. pxThis \in Browsers
        BY <2>3, ThisClient
      <3>2. /\ conn'[pxThis].file = conn[pxThis].file /\ conn'[pxThis].left = conn[pxThis].left
            /\ conn'[pxThis].out = conn[pxThis].out
        BY <2>2, <3>1 DEF Changes, Listed
      <3> QED BY <2>1, <3>2, PageStays, ServedKept
    <2>4. CASE http \notin AtClient
      BY <2>1, <2>4 DEF Served, AtClient
    <2> QED BY <2>3, <2>4
  <1>3. CASE FreeRTOS_CreateTCPServer \/ Select \/ xHTTPClientWork \/ Release
    <2>1. http' \notin {"send", "more", "release"}
      BY <1>3 DEF FreeRTOS_CreateTCPServer, Select, xHTTPClientWork, Release
    <2> QED BY <2>1 DEF Served
  <1>4. CASE Work
    <2>1. UNCHANGED <<clients, ppxClient, conn>> /\ http' \in {"deleted", "select", "more", "recv"}
          /\ (http' = "more" => conn[pxThis].file # "NULL")
      BY <1>4 DEF Work, webVars
    <2> QED BY <2>1 DEF Served, pxThis
  <1>5. CASE prvSendFile
    <2>1. /\ UNCHANGED <<clients, ppxClient, page, badDisk>> /\ http \in {"send", "more"}
          /\ pxThis' = pxThis
      BY <1>5 DEF prvSendFile, pxThis, TheOthers, otaVars
    <2>2. CASE SendPiece
      <3>0. UNCHANGED http
        BY <2>2 DEF SendPiece
      <3> DEFINE c == conn[pxThis]
                 p == Piece(Len(c.out) + 1)
      <3>1. PICK r \in Connection :
              /\ Changes(pxThis, r)
              /\ r.file = c.file /\ c.left \in 1..Pieces
              /\ r.left = c.left - 1 /\ r.out = Append(c.out, p)
        BY <2>1, <2>2, Piecewise
      <3>2. conn'[pxThis] = r /\ pxThis \in Browsers
        BY <3>1 DEF Changes, Listed
      <3>3. CASE http = "more"
        BY <2>1, <3>0, <3>1, <3>2, <3>3 DEF Served
      <3>4. CASE http = "send"
        <4>1. Len(page) \in Nat /\ page \in Seq(Names)
          BY DEF Paged
        <4>2. /\ c.out \in Seq(Names \union {"stale"})
              /\ Len(c.out) + c.left = Len(page) /\ \A i \in 1..Len(c.out) : c.out[i] = page[i]
          <5>1. pxThis \in Browsers /\ c \in Connection
            BY <3>4, ThisClient DEF AtClient
          <5> QED BY <3>4, <5>1 DEF Served, Connection
        <4>3. p = page[Len(c.out) + 1] /\ p \in Names \union {"stale"}
          <5> HIDE DEF c
          <5>1. c.left \in Nat \ {0}
            BY <3>1, SizesAssumption
          <5>2. Len(c.out) + 1 \in 1..Len(page)
            BY <4>1, <4>2, <5>1
          <5>3. DOMAIN page = 1..Len(page) /\ \A i \in 1..Len(page) : page[i] \in Names
            BY <4>1
          <5> QED BY <5>2, <5>3 DEF Piece
        <4> HIDE DEF p, c
        <4>4. /\ Len(r.out) = Len(c.out) + 1
              /\ \A i \in 1..Len(r.out) : r.out[i] = page[i]
          BY <3>1, <4>2, <4>3
        <4>5. Len(r.out) + r.left = Len(page)
          BY <3>1, <4>1, <4>2, <4>4, SizesAssumption
        <4>6. r.file # "NULL"
          BY <3>1, <3>4 DEF Served, c
        <4> QED BY <2>1, <3>0, <3>2, <3>4, <4>4, <4>5, <4>6 DEF Served
      <3> QED BY <2>1, <3>3, <3>4
    <2>3. ASSUME NEW next \in {"drop", "recv"}, StopSending(next) PROVE Served'
      BY <2>3 DEF StopSending, Served
    <2>4. CASE http = "send" /\ StopSending("release")
      <3>1. http' = "release"
        BY <2>4 DEF StopSending
      <3>2. conn'[pxThis].out = conn[pxThis].out
        <4>1. pxThis \in Browsers
          BY <2>1, ThisClient DEF AtClient
        <4>2. CASE UNCHANGED conn
          BY <4>2
        <4>3. CASE ~UNCHANGED conn
          <5>1. PICK r \in Connection : Changes(pxThis, r) /\ r.out = conn[pxThis].out
            BY <2>1, <2>4, <4>3, Stopped
          <5> QED BY <4>1, <5>1 DEF Changes, Listed
        <4> QED BY <4>2, <4>3
      <3>3. /\ Len(conn[pxThis].out) <= Len(page)
            /\ \A i \in 1..Len(conn[pxThis].out) : conn[pxThis].out[i] = page[i]
        <4>1. pxThis \in Browsers /\ conn[pxThis] \in Connection
          BY <2>1, ThisClient DEF AtClient
        <4>2. /\ Len(conn[pxThis].out) \in Nat /\ conn[pxThis].left \in Nat /\ Len(page) \in Nat
          <5>1. conn[pxThis].out \in Seq(Names \union {"stale"}) /\ conn[pxThis].left \in 0..Pieces
            BY <4>1 DEF Connection
          <5>2. page \in Seq(Names)
            BY DEF Paged
          <5> QED BY <5>1, <5>2, SizesAssumption, LenProperties
        <4>3. /\ Len(conn[pxThis].out) + conn[pxThis].left = Len(page)
              /\ \A i \in 1..Len(conn[pxThis].out) : conn[pxThis].out[i] = page[i]
          BY <2>4 DEF Served
        <4> DEFINE n == Len(conn[pxThis].out)
                   k == conn[pxThis].left
                   l == Len(page)
        <4>4. n <= l
          <5>1. n \in Nat /\ k \in Nat /\ l \in Nat /\ n + k = l
            BY <4>2, <4>3
          <5> HIDE DEF n, k, l
          <5> QED BY <5>1
        <4> QED BY <4>3, <4>4
      <3> QED BY <2>1, <3>1, <3>2, <3>3 DEF Served
    <2> QED BY <1>5, <2>2, <2>3, <2>4 DEF prvSendFile
  <1>6. CASE OpenURL
    <2>1. /\ UNCHANGED <<clients, ppxClient, page, badDisk>> /\ pxThis' = pxThis /\ pxThis \in Browsers
          /\ http # "off" /\ lock = "free"
      BY <1>6, ThisClient DEF OpenURL, pxThis, TheOthers, otaVars, AtClient
    <2>2. PICK r \in Connection :
              /\ Changes(pxThis, r) /\ r.out = <<>>
              /\ \/ http' = "send" /\ r.file = "page" /\ r.left = Len(page)
                 \/ http' = "release" /\ r.file = "NULL"
      BY <1>6, Looked
    <2>3. conn'[pxThis] = r /\ Len(r.out) = 0
      BY <2>1, <2>2 DEF Changes, Listed
    <2>4. CASE http' = "release"
      <3>1. Len(page) \in Nat
        BY DEF Paged
      <3> QED BY <2>1, <2>3, <2>4, <3>1 DEF Served
    <2>5. CASE http' = "send"
      <3>1. Len(page) \in Nat
        BY DEF Paged
      <3> QED BY <2>1, <2>2, <2>3, <2>5, <3>1 DEF Served
    <2> QED BY <2>2, <2>4, <2>5
  <1> QED BY <1>1, <1>2, <1>3, <1>4, <1>5, <1>6 DEF Next, Tasks, Http

-----------------------------------------------------------------------------
LEMMA OpenedFinite == IsFiniteSet(Opened) /\ Cardinality(Opened) \in Nat
  <1>1. IsFiniteSet(Browsers) /\ Opened \subseteq Browsers
    BY SizesAssumption DEF Opened
  <1> QED BY <1>1, FS_Subset, FS_CardinalityType

(* One connection gets a file, loses it or keeps it.                       *)
LEMMA OpenedAfterChange ==
    ASSUME Listed, NEW b, NEW r, Changes(b, r)
    PROVE  /\ Cardinality(Opened)' \in Nat
           /\ Cardinality(Opened)' <= Cardinality(Opened) + 1
           /\ r.file = "NULL" \/ r.file = conn[b].file => Cardinality(Opened)' <= Cardinality(Opened)
           /\ r.file = "NULL" /\ conn[b].file # "NULL" => Cardinality(Opened)' = Cardinality(Opened) - 1
  <1>1. b \in Browsers /\ \A d \in Browsers : conn'[d] = IF d = b THEN r ELSE conn[d]
    BY DEF Changes, Listed
  <1>2. IsFiniteSet(Opened) /\ Cardinality(Opened) \in Nat
    BY OpenedFinite
  <1>3. CASE r.file = "NULL"
    <2>1. Opened' = Opened \ {b}
      BY <1>1, <1>3 DEF Opened
    <2>2. Cardinality(Opened \ {b}) = IF b \in Opened THEN Cardinality(Opened) - 1 ELSE Cardinality(Opened)
      BY <1>2, FS_RemoveElement
    <2>3. IsFiniteSet(Opened \ {b}) /\ Cardinality(Opened \ {b}) \in Nat
      BY <1>2, FS_Subset, FS_CardinalityType
    <2>4. b \in Opened <=> conn[b].file # "NULL"
      BY <1>1 DEF Opened
    <2>5. Cardinality(Opened)' = Cardinality(Opened \ {b})
      BY <2>1
    <2> QED BY <1>2, <1>3, <2>2, <2>3, <2>4, <2>5
  <1>4. CASE r.file # "NULL"
    <2>1. Opened' = Opened \union {b}
      BY <1>1, <1>4 DEF Opened
    <2>2. /\ IsFiniteSet(Opened \union {b})
          /\ Cardinality(Opened \union {b}) = IF b \in Opened THEN Cardinality(Opened) ELSE Cardinality(Opened) + 1
      BY <1>2, FS_AddElement
    <2>3. b \in Opened <=> conn[b].file # "NULL"
      BY <1>1 DEF Opened
    <2>4. Cardinality(Opened)' = Cardinality(Opened \union {b})
      BY <2>1
    <2> QED BY <1>2, <1>4, <2>2, <2>3, <2>4
  <1> QED BY <1>3, <1>4

LEMMA AllocatedStep == ASSUME Owns, Paged, Listed, Served, Allocated, Next PROVE Allocated'
  <1> DEFINE k == Cardinality(Opened)
  <1>0. k \in Nat /\ FF_FILEs \in 0..MaxFiles /\ MaxFiles \in Nat
        /\ k + (IF ota = "write" THEN 1 ELSE 0) <= FF_FILEs
    BY OpenedFinite, SizesAssumption DEF Allocated
  <1>1. CASE Main \/ NetworkUp \/ NetworkDown \/ Ota \/ Upload
    <2>1. Opened' = Opened
      BY <1>1, ListKept DEF Opened
    <2>2. k' = k
      BY <2>1
    <2> HIDE DEF k
    <2>3. \/ ota' = ota /\ FF_FILEs' = FF_FILEs
          \/ ota' # "write" /\ FF_FILEs' = FF_FILEs
          \/ ota # "write" /\ ota' = "write" /\ FF_FILEs' = FF_FILEs + 1 /\ FF_FILEs < MaxFiles
          \/ ota' # "write" /\ FF_FILEs' = FF_FILEs + 1 /\ FF_FILEs < MaxFiles
          \/ ota = "write" /\ ota' # "write" /\ FF_FILEs' = FF_FILEs - 1
      <3>1. CASE Main \/ NetworkUp \/ NetworkDown
        <4>1. CASE Initialize_HTTP_Assets
          <5>1. ota' = ota /\ ota = "off"
            BY <4>1 DEF Initialize_HTTP_Assets, Owns, Early
          <5>2. FF_FILEs' = FF_FILEs \/ (FF_FILEs' = FF_FILEs + 1 /\ FF_FILEs < MaxFiles)
            BY <4>1 DEF Initialize_HTTP_Assets
          <5> QED BY <5>1, <5>2
        <4> QED BY <3>1, <4>1 DEF Main, FirstNotification, ff_init, CreateHttp, CreateOta, Count,
                    NetworkUp, NetworkDown, otaVars
      <3>2. CASE Ota \/ Upload
        BY <3>2 DEF Ota, vOta, Call, TftpServer, Verify, OtaLock, OtaOpen, OtaWrite, OtaRelease, Ota_Worker,
                    Upload, otaVars
      <3> QED BY <1>1, <3>1, <3>2
    <2>4. /\ FF_FILEs' \in 0..MaxFiles
          /\ k' + (IF ota' = "write" THEN 1 ELSE 0) <= FF_FILEs'
      BY <1>0, <2>2, <2>3
    <2> QED BY <2>4 DEF Allocated, k
  <1>2. ASSUME UNCHANGED ota, k' \in Nat,
               \/ k' <= k /\ FF_FILEs' = FF_FILEs
               \/ k' = k - 1 /\ FF_FILEs' = FF_FILEs - 1
               \/ k' <= k + 1 /\ FF_FILEs' = FF_FILEs + 1 /\ FF_FILEs < MaxFiles
        PROVE  Allocated'
    <2> HIDE DEF k
    <2>1. /\ FF_FILEs' \in 0..MaxFiles
          /\ k' + (IF ota' = "write" THEN 1 ELSE 0) <= FF_FILEs'
      BY <1>0, <1>2
    <2> QED BY <2>1 DEF Allocated, k
  <1>3. ASSUME NEW b \in Browsers, Browse(b) PROVE Allocated'
    <2>1. UNCHANGED <<ota, FF_FILEs>>
      BY <1>3, BrowseKeeps DEF TheOthers, otaVars
    <2>2. PICK r \in Connection : Changes(b, r) /\ r.file = conn[b].file
      BY <1>3, Browsed
    <2>3. k' \in Nat /\ k' <= k
      BY <2>2, OpenedAfterChange
    <2> QED BY <1>2, <2>1, <2>3
  <1>4. CASE Http
    <2>0. UNCHANGED ota
      BY <1>4 DEF Http, FreeRTOS_CreateTCPServer, Select, Work, prvSendFile, xHTTPClientWork, OpenURL,
                  Release, TheOthers, otaVars
    <2>1. CASE UNCHANGED <<conn, FF_FILEs>>
      <3>1. k' = k
        BY <2>1 DEF Opened
      <3> HIDE DEF k
      <3> QED BY <1>0, <1>2, <2>0, <2>1, <3>1
    <2>2. ASSUME NEW b \in Browsers, UNCHANGED FF_FILEs,
                 conn' = [conn EXCEPT ![b] = [Gone EXCEPT !.st = "on", !.cmd = conn[b].cmd]]
          PROVE  Allocated'
      <3> DEFINE r == [Gone EXCEPT !.st = "on", !.cmd = conn[b].cmd]
      <3>1. r \in Connection /\ r.file = "NULL"
        <4>1. conn[b].cmd \in {"none", "GET page", "GET nothing", "POST"}
          BY DEF Listed, Connection
        <4> QED BY <4>1, GoneConnection DEF Connection
      <3>2. Changes(b, r)
        BY <2>2, <3>1 DEF Changes
      <3> HIDE DEF r
      <3>3. k' \in Nat /\ k' <= k
        BY <3>1, <3>2, OpenedAfterChange
      <3> QED BY <1>2, <2>0, <2>2, <3>3
    <2>3. CASE Select
      BY <2>1, <2>2, <2>3 DEF Select
    <2>4. CASE FreeRTOS_CreateTCPServer \/ Work
      BY <2>1, <2>4 DEF FreeRTOS_CreateTCPServer, Work, webVars
    <2>5. ASSUME http \in AtClient, vHTTPClientDelete PROVE Allocated'
      <3>1. Changes(pxThis, Gone)
        BY <2>5, ThisClient, GoneConnection DEF Changes, vHTTPClientDelete
      <3>2. FF_FILEs' = FF_FILEs - (IF conn[pxThis].file # "NULL" THEN 1 ELSE 0)
        BY <2>5 DEF vHTTPClientDelete
      <3>3. /\ k' \in Nat /\ k' <= k
            /\ conn[pxThis].file # "NULL" => k' = k - 1
        BY <3>1, GoneConnection, OpenedAfterChange
      <3>4. CASE conn[pxThis].file # "NULL"
        BY <1>2, <2>0, <3>2, <3>3, <3>4
      <3>5. CASE conn[pxThis].file = "NULL"
        <4>1. FF_FILEs' = FF_FILEs
          BY <1>0, <3>2, <3>5
        <4> QED BY <1>2, <2>0, <3>3, <4>1
      <3> QED BY <3>4, <3>5
    <2>6. CASE prvSendFile
      <3>1. http \in {"send", "more"} /\ http \in AtClient
        BY <2>6 DEF prvSendFile, AtClient
      <3>2. CASE SendPiece
        <4>1. UNCHANGED FF_FILEs
          BY <3>2 DEF SendPiece
        <4>2. PICK r \in Connection : Changes(pxThis, r) /\ r.file = conn[pxThis].file
          BY <3>1, <3>2, Piecewise
        <4>3. k' \in Nat /\ k' <= k
          BY <4>2, OpenedAfterChange
        <4> QED BY <1>2, <2>0, <4>1, <4>3
      <3>3. ASSUME NEW next, StopSending(next) PROVE Allocated'
        <4>1. CASE ~UNCHANGED <<conn, FF_FILEs>>
          <5>1. PICK r \in Connection : Changes(pxThis, r) /\ FF_FILEs' = FF_FILEs - 1 /\ r.file = "NULL"
            BY <3>1, <3>3, <4>1, Stopped
          <5>2. conn[pxThis].file # "NULL"
            BY <3>1 DEF Served
          <5>3. k' \in Nat /\ k' = k - 1
            BY <5>1, <5>2, OpenedAfterChange
          <5> QED BY <1>2, <2>0, <5>1, <5>3
        <4> QED BY <2>1, <4>1
      <3> QED BY <2>6, <3>2, <3>3 DEF prvSendFile
    <2>7. CASE xHTTPClientWork
      <3>1. http \in AtClient
        BY <2>7 DEF xHTTPClientWork, AtClient
      <3>2. CASE conn' = [conn EXCEPT ![pxThis].cmd = "none"] /\ UNCHANGED FF_FILEs
        <4> DEFINE r == [conn[pxThis] EXCEPT !.cmd = "none"]
        <4>1. pxThis \in Browsers /\ conn[pxThis] \in Connection
          BY <3>1, ThisClient
        <4>2. r \in Connection /\ r.file = conn[pxThis].file /\ conn' = [conn EXCEPT ![pxThis] = r]
          BY <3>2, <4>1 DEF Connection
        <4> HIDE DEF r
        <4>3. Changes(pxThis, r)
          BY <4>1, <4>2 DEF Changes
        <4>4. k' \in Nat /\ k' <= k
          BY <4>2, <4>3, OpenedAfterChange
        <4> QED BY <1>2, <2>0, <3>2, <4>4
      <3> QED BY <2>1, <2>5, <2>7, <3>1, <3>2 DEF xHTTPClientWork
    <2>8. CASE OpenURL
      <3>1. PICK r \in Connection :
              /\ Changes(pxThis, r)
              /\ (FF_FILEs < MaxFiles /\ FF_FILEs' = FF_FILEs + 1) \/ (FF_FILEs' = FF_FILEs /\ r.file = "NULL")
        BY <2>8, Looked
      <3>2. k' \in Nat /\ k' <= k + 1 /\ (r.file = "NULL" => k' <= k)
        BY <3>1, OpenedAfterChange
      <3> QED BY <1>2, <2>0, <3>1, <3>2
    <2>9. CASE Release
      <3>1. http \in AtClient
        BY <2>9 DEF Release, AtClient
      <3> QED BY <2>1, <2>5, <2>9, <3>1 DEF Release
    <2> QED BY <1>4, <2>3, <2>4, <2>6, <2>7, <2>8, <2>9 DEF Http
  <1> QED BY <1>1, <1>3, <1>4 DEF Next, Tasks

-----------------------------------------------------------------------------
(* A client's file stays what it is.                                       *)
LEMMA StopStaysSent == ASSUME Kept, Next PROVE StopSent => StopSent'
  <1>1. UNCHANGED host \/ World
    <2>1. Step
      BY StepsAreTftp
    <2> QED BY <2>1 DEF Step, transferVars, TftpNext, Listen, Server, BadRequest, WriteRequest,
                        NoReceivingSocket, Data, Timeout, ReceiveFails
  <1>2. UNCHANGED host \/ WorldKeeps
    BY <1>1, WorldStep
  <1>3. ASSUME NEW c \in Clients, host[c].file \in Stop PROVE host'[c].file \in Stop
    <2>1. host[c].file # "none"
      BY <1>3, SignedAssumption, NamesAssumption
    <2>2. host[c].st # "away"
      BY <2>1 DEF Kept, KeepsFile
    <2> QED BY <1>2, <1>3, <2>2 DEF WorldKeeps
  <1> QED BY <1>3 DEF StopSent

(* What is verified as the STOP message is a client's.                     *)
LEMMA VerifiedIsSent ==
    ASSUME Kept, srv = "idle", NEW f \in Stop, file_buffer = Whole(f)
    PROVE  StopSent
  <1>1. f \in Files /\ file_buffer # <<>> /\ file_buffer[1][1] = f
    BY SignedAssumption, WholeIsBegun
  <1>2. PICK c \in Clients : Asked(c) /\ file_buffer = Whole(host[c].file)
    BY <1>1 DEF Kept, Between
  <1>3. file_buffer[1][1] = host[c].file
    BY <1>2, WholeIsBegun DEF Asked
  <1> QED BY <1>1, <1>2, <1>3 DEF StopSent

LEMMA CountedBits ==
    ASSUME NEW bits
    PROVE  /\ Counted(bits) \in 0..2
           /\ Counted(bits) = 0 <=> ("HTTP" \notin bits /\ "OTA" \notin bits)
           /\ Counted({}) = 0
  BY DEF Counted

LEMMA OverBounds == Over \in 0..2 /\ (Over = 2 <=> ota = "deleted" /\ http = "deleted")
  BY DEF Over

(* Steps that end nothing well.                                            *)
StayOver == (ota = "deleted" => ota' = "deleted") /\ (http = "deleted" => http' = "deleted")
ExitsBadly == NoExit \/ exitBesspin("one")
LEMMA ExitKeeps ==
    ASSUME Ending, StopSent => StopSent', StayOver, ExitsBadly
    PROVE  /\ stopRequested => stopRequested'
           /\ stopRequested' \in BOOLEAN
           /\ stopRequested' /\ ended' = "running" => StopSent'
           /\ ended' = "zero" => ota' = "deleted" /\ http' = "deleted" /\ StopSent'
  <1>1. CASE NoExit
    <2>1. stopRequested' = stopRequested /\ ended' = ended
      BY <1>1 DEF NoExit
    <2> QED BY <2>1, Zenon DEF Ending, StayOver
  <1>2. CASE exitBesspin("one")
    <2>1. stopRequested' = TRUE /\ ended' # "running" /\ (ended' = "zero" => ended = "zero")
      BY <1>2 DEF exitBesspin
    <2> QED BY <2>1, Zenon DEF Ending, StayOver
  <1> QED BY <1>1, <1>2 DEF ExitsBadly

LEMMA OverStays == ASSUME StayOver PROVE Over <= Over'
  BY DEF StayOver, Over

LEMMA EndingKept ==
    ASSUME Ending, StopSent => StopSent', StayOver, ExitsBadly, UNCHANGED iNotif,
           notified' \ {"NTK"} = notified \ {"NTK"} \/ notified' = {}
    PROVE  Ending'
  <1> DEFINE n == Counted(notified)
             m == Counted(notified')
  <1>1. /\ stopRequested => stopRequested'
        /\ stopRequested' \in BOOLEAN
        /\ stopRequested' /\ ended' = "running" => StopSent'
        /\ ended' = "zero" => ota' = "deleted" /\ http' = "deleted" /\ StopSent'
    BY ExitKeeps
  <1>2. /\ "OTA" \in notified' => "OTA" \in notified
        /\ "HTTP" \in notified' => "HTTP" \in notified
    <2>1. "OTA" # "NTK" /\ "HTTP" # "NTK"
      OBVIOUS
    <2> QED BY <2>1, Zenon
  <1>3. m <= n /\ m \in 0..2 /\ n \in 0..2
    BY <1>2 DEF Counted
  <1>4. Over <= Over' /\ Over \in 0..2 /\ Over' \in 0..2
    BY OverStays, OverBounds DEF Over
  <1>5. ("OTA" \in notified' => ota' = "deleted") /\ ("HTTP" \in notified' => http' = "deleted")
    BY <1>2 DEF Ending, StayOver
  <1>6. iNotif \in Nat /\ iNotif + n <= Over /\ iNotif' = iNotif
    BY DEF Ending
  <1>7. iNotif' \in Nat /\ iNotif' + m <= Over' /\ (iNotif' + m > 0 => iNotif + n > 0)
    <2> HIDE DEF n, m
    <2> QED BY <1>3, <1>4, <1>6
  <1>8. iNotif' + m > 0 => stopRequested'
    <2>1. iNotif + n > 0 => stopRequested
      BY DEF Ending
    <2> QED BY <1>1, <1>7, <2>1, Zenon
  <1>9. m = Counted(notified)'
    OBVIOUS
  <1> HIDE DEF n, m
  <1> QED BY <1>1, <1>5, <1>7, <1>8, <1>9 DEF Ending

(* A task that was asked to stop is over and notifies.                     *)
LEMMA Notifies ==
    ASSUME Ending, StopSent => StopSent', NoExit, UNCHANGED iNotif, stopRequested,
           \/ /\ notified' = notified \union {"OTA"}
              /\ ota # "deleted" /\ ota' = "deleted" /\ UNCHANGED http
           \/ /\ notified' = notified \union {"HTTP"}
              /\ http # "deleted" /\ http' = "deleted" /\ UNCHANGED ota
    PROVE  Ending'
  <1> DEFINE n == Counted(notified)
             m == Counted(notified')
  <1>1. StayOver
    BY DEF StayOver
  <1>2. /\ stopRequested'
        /\ stopRequested' \in BOOLEAN
        /\ stopRequested' /\ ended' = "running" => StopSent'
        /\ ended' = "zero" => ota' = "deleted" /\ http' = "deleted" /\ StopSent'
    BY <1>1, ExitKeeps DEF ExitsBadly
  <1>3. m = n + 1 /\ n \in 0..2 /\ m \in 0..2
    BY DEF Counted, Ending
  <1>4. Over' = Over + 1 /\ Over \in 0..2
    BY DEF Over
  <1>5. ("OTA" \in notified' => ota' = "deleted") /\ ("HTTP" \in notified' => http' = "deleted")
    BY DEF Ending
  <1>6. iNotif' \in Nat /\ iNotif' + m <= Over'
    <2>1. iNotif \in Nat /\ iNotif + n <= Over /\ iNotif' = iNotif
      BY DEF Ending
    <2> HIDE DEF n, m
    <2> QED BY <1>3, <1>4, <2>1
  <1>7. m = Counted(notified)'
    OBVIOUS
  <1> HIDE DEF n, m
  <1> QED BY <1>2, <1>5, <1>6, <1>7 DEF Ending

LEMMA CountEnding == ASSUME Tasked, Ending, StopSent => StopSent', Count PROVE Ending'
  <1> DEFINE n == Counted(notified)
  <1>1. /\ notified' = {} /\ iNotif' = iNotif + n /\ UNCHANGED <<ota, http>>
        /\ NoExit \/ exitBesspin("one") \/ (~(iNotif' < 2) /\ exitBesspin("zero"))
    BY DEF Count, otaVars, httpVars
  <1>2. StayOver /\ Over' = Over
    BY <1>1 DEF StayOver, Over
  <1>3. /\ n \in 0..2 /\ iNotif \in Nat /\ iNotif + n <= Over /\ Over \in 0..2
        /\ Counted(notified)' = 0
    BY <1>1, CountedBits, OverBounds DEF Ending
  <1>4. iNotif' \in Nat /\ iNotif' + Counted(notified)' <= Over' /\ iNotif' + Counted(notified)' = iNotif + n
    <2> HIDE DEF n
    <2> QED BY <1>1, <1>2, <1>3
  <1>5. iNotif + n > 0 => stopRequested
    BY DEF Ending
  <1>6. CASE ExitsBadly
    <2>1. /\ stopRequested => stopRequested'
          /\ stopRequested' \in BOOLEAN
          /\ stopRequested' /\ ended' = "running" => StopSent'
          /\ ended' = "zero" => ota' = "deleted" /\ http' = "deleted" /\ StopSent'
      BY <1>2, <1>6, ExitKeeps
    <2>2. iNotif' + Counted(notified)' > 0 => stopRequested'
      <3> HIDE DEF n
      <3> QED BY <1>4, <1>5, <2>1
    <2> HIDE DEF n
    <2> QED BY <1>1, <1>4, <2>1, <2>2 DEF Ending
  <1>7. CASE ~(iNotif' < 2) /\ exitBesspin("zero")
    <2>1. iNotif + n >= 2 /\ Over = 2
      <3> HIDE DEF n
      <3> QED BY <1>1, <1>3, <1>7
    <2>2. ota' = "deleted" /\ http' = "deleted"
      BY <1>1, <2>1, OverBounds
    <2>3. stopRequested
      <3> HIDE DEF n
      <3> QED BY <1>3, <1>5, <2>1
    <2>4. stopRequested' = TRUE /\ ended' # "running" /\ ended' = (IF ended = "running" THEN "zero" ELSE ended)
      BY <1>7 DEF exitBesspin
    <2>5. ended' = "zero" => StopSent'
      <3>1. ended = "running" \/ ended = "zero" => StopSent
        BY <2>3, Zenon DEF Ending
      <3> QED BY <2>4, <3>1
    <2>6. stopRequested' \in BOOLEAN /\ (stopRequested' /\ ended' = "running" => StopSent')
      BY <2>4
    <2> HIDE DEF n
    <2> QED BY <1>1, <1>4, <2>2, <2>4, <2>5, <2>6 DEF Ending
  <1> QED BY <1>1, <1>6, <1>7 DEF ExitsBadly

LEMMA EndingStep == ASSUME Kept, Tasked, Owns, Ending, Next PROVE Ending'
  <1>0. StopSent => StopSent'
    BY StopStaysSent
  <1>1. ASSUME UNCHANGED iNotif, notified' \ {"NTK"} = notified \ {"NTK"} \/ notified' = {},
               StayOver, ExitsBadly
        PROVE  Ending'
    BY <1>0, <1>1, EndingKept
  <1>2. CASE FirstNotification \/ ff_init \/ Initialize_HTTP_Assets \/ CreateHttp \/ CreateOta \/ NetworkUp \/ NetworkDown
    <2>1. StayOver
      BY <1>2 DEF FirstNotification, ff_init, Initialize_HTTP_Assets, CreateHttp, CreateOta, NetworkUp, NetworkDown,
                  Owns, StayOver, otaVars, httpVars
    <2>2. ExitsBadly
      BY <1>2 DEF FirstNotification, ff_init, Initialize_HTTP_Assets, CreateHttp, CreateOta, NetworkUp, NetworkDown,
                  AssertOrDelete, ExitsBadly, NoExit
    <2>3. UNCHANGED iNotif /\ (notified' \ {"NTK"} = notified \ {"NTK"} \/ notified' = {})
      BY <1>2 DEF FirstNotification, ff_init, Initialize_HTTP_Assets, CreateHttp, CreateOta, NetworkUp, NetworkDown, mainVars
    <2> QED BY <1>1, <2>1, <2>2, <2>3
  <1>3. CASE Count
    BY <1>0, <1>3, CountEnding
  <1>4. CASE vOta \/ Call \/ TftpServer \/ OtaLock \/ OtaOpen \/ OtaWrite \/ OtaRelease \/ Upload
    <2>1. StayOver /\ UNCHANGED <<iNotif, notified>>
      BY <1>4 DEF vOta, Call, TftpServer, OtaLock, OtaOpen, OtaWrite, OtaRelease, Upload,
                  StayOver, mainVars, httpVars, otaVars
    <2>2. ExitsBadly
      BY <1>4 DEF vOta, Call, TftpServer, OtaLock, OtaOpen, OtaWrite, OtaRelease, Upload, ExitsBadly, NoExit
    <2> QED BY <1>1, <2>1, <2>2
  <1>5. CASE Verify
    <2>1. /\ UNCHANGED <<iNotif, notified, ended, http>> /\ ota = "tftp" /\ srv = "idle" /\ ota' # "deleted"
          /\ \/ UNCHANGED stopRequested
             \/ stopRequested' = TRUE /\ \E f \in Stop : file_buffer = Whole(f)
      BY <1>5 DEF Verify, mainVars, httpVars
    <2>2. StayOver
      BY <2>1 DEF StayOver
    <2>3. CASE UNCHANGED stopRequested
      BY <1>1, <2>1, <2>2, <2>3 DEF ExitsBadly, NoExit
    <2>4. CASE stopRequested' = TRUE /\ \E f \in Stop : file_buffer = Whole(f)
      <3>1. StopSent'
        BY <1>0, <2>1, <2>4, VerifiedIsSent
      <3>2. /\ ended' = "zero" => ended = "zero" /\ ota = "deleted"
            /\ Over' = Over /\ Counted(notified)' = Counted(notified)
        BY <2>1 DEF Ending, Over
      <3>3. ended' # "zero" /\ stopRequested' \in BOOLEAN /\ stopRequested'
        BY <2>1, <2>4, <3>2
      <3>4. iNotif' \in Nat /\ iNotif' + Counted(notified)' <= Over'
        BY <2>1, <3>2 DEF Ending
      <3>5. ("OTA" \in notified' => ota' = "deleted") /\ ("HTTP" \in notified' => http' = "deleted")
        BY <2>1 DEF Ending
      <3> QED BY <3>1, <3>3, <3>4, <3>5 DEF Ending
    <2> QED BY <2>1, <2>3, <2>4
  <1>6. CASE Ota_Worker
    <2>1. UNCHANGED <<iNotif, http>> /\ NoExit /\ ota = "next"
      BY <1>6 DEF Ota_Worker, NoExit, mainVars, httpVars
    <2>2. CASE stopRequested
      BY <1>0, <1>6, <2>1, <2>2, Notifies DEF Ota_Worker
    <2>3. CASE ~stopRequested
      <3>1. UNCHANGED notified /\ ota' = "ask"
        BY <1>6, <2>3 DEF Ota_Worker
      <3> QED BY <1>1, <2>1, <3>1 DEF StayOver, ExitsBadly
    <2> QED BY <2>2, <2>3
  <1>7. CASE Work
    <2>1. UNCHANGED <<iNotif, ota>> /\ NoExit /\ http = "work"
      BY <1>7 DEF Work, NoExit, TheOthers, mainVars, otaVars
    <2>2. CASE http' = "deleted"
      <3>1. stopRequested
        BY <1>7, <2>2 DEF Work
      <3> QED BY <1>0, <1>7, <2>1, <2>2, <3>1, Notifies DEF Work
    <2>3. CASE http' # "deleted"
      <3>1. UNCHANGED notified
        BY <1>7, <2>3 DEF Work
      <3> QED BY <1>1, <2>1, <3>1 DEF StayOver, ExitsBadly
    <2> QED BY <2>2, <2>3
  <1>8. CASE FreeRTOS_CreateTCPServer \/ Select \/ prvSendFile \/ xHTTPClientWork \/ OpenURL \/ Release
    <2>1. UNCHANGED <<iNotif, notified, ota>> /\ http # "deleted"
      BY <1>8 DEF FreeRTOS_CreateTCPServer, Select, prvSendFile, xHTTPClientWork, OpenURL, Release,
                  TheOthers, mainVars, otaVars
    <2>2. ExitsBadly
      BY <1>8 DEF FreeRTOS_CreateTCPServer, Select, prvSendFile, xHTTPClientWork, OpenURL, Release,
                  ExitsBadly, NoExit
    <2> QED BY <1>1, <2>1, <2>2 DEF StayOver
  <1>9. ASSUME NEW b \in Browsers, Browse(b) PROVE Ending'
    <2>1. UNCHANGED <<iNotif, notified, ota, http>> /\ NoExit
      BY <1>9, BrowseKeeps DEF TheOthers, mainVars, otaVars, httpVars, NoExit
    <2> QED BY <1>1, <2>1 DEF StayOver, ExitsBadly
  <1> QED BY <1>2, <1>3, <1>4, <1>5, <1>6, <1>7, <1>8, <1>9 DEF Next, Tasks, Main, Ota, Http

-----------------------------------------------------------------------------
LEMMA InductiveInit == Init => Inductive
  <1> SUFFICES ASSUME Init PROVE Inductive
    OBVIOUS
  <1> USE DEF Init
  <1>1. Kept /\ Patient
    BY KeptInit, PatientInit
  <1>2. Tasked /\ Owns
    BY DEF Tasked, Owns, Early
  <1>3. Paged
    BY MissingPage DEF Paged, TftpInit, Early
  <1>4. Listed
    <2>1. clients \in Seq(Browsers) /\ Len(clients) = 0
      OBVIOUS
    <2> QED BY <2>1, GoneConnection DEF Listed, AtClient
  <1>5. Served
    BY DEF Served
  <1>6. Allocated
    <2>1. Opened = {}
      BY DEF Opened, Gone
    <2> QED BY <2>1, FS_EmptySet, SizesAssumption DEF Allocated
  <1>7. Ending
    <2>1. notified = {} /\ Counted(notified) = 0 /\ Over = 0 /\ iNotif = 0
      BY DEF Counted, Over
    <2>2. stopRequested \in BOOLEAN /\ ~stopRequested
      BY Zenon
    <2>3. ended # "zero"
      OBVIOUS
    <2>4. iNotif \in Nat /\ iNotif + Counted(notified) <= Over /\ ~(iNotif + Counted(notified) > 0)
      BY <2>1
    <2>5. "OTA" \notin notified /\ "HTTP" \notin notified
      BY <2>1
    <2> HIDE DEF Init
    <2> QED BY <2>2, <2>3, <2>4, <2>5, Zenon DEF Ending
  <1> QED BY <1>1, <1>2, <1>3, <1>4, <1>5, <1>6, <1>7 DEF Inductive

LEMMA InductiveStep == Inductive /\ [Next]_vars => Inductive'
  <1> SUFFICES ASSUME Inductive, [Next]_vars PROVE Inductive'
    OBVIOUS
  <1>1. CASE Next
    <2>1. Kept' /\ Patient'
      BY <1>1, StepsAreTftp, KeptStep, PatientStep DEF Inductive
    <2>2. Tasked' /\ Owns' /\ Paged' /\ Listed'
      BY <1>1, TaskedStep, OwnsStep, PagedStep, ListedStep DEF Inductive
    <2>3. Served' /\ Allocated' /\ Ending'
      BY <1>1, ServedStep, AllocatedStep, EndingStep DEF Inductive
    <2> QED BY <2>1, <2>2, <2>3 DEF Inductive
  <1>2. CASE UNCHANGED vars
    <2> USE <1>2 DEF Inductive, vars, mainVars, otaVars, httpVars, webVars, tftpVars, serverVars
    <2>1. Kept' /\ Patient'
      BY KeptStep, PatientStep DEF Step, transferVars
    <2>2. Tasked' /\ Owns' /\ Paged'
      BY DEF Tasked, Owns, Paged, PageOfOne, FirstOf, Missing, Whole
    <2>3. Listed' /\ Served'
      BY DEF Listed, Served, pxThis
    <2>4. Opened' = Opened
      BY DEF Opened
    <2>5. Allocated'
      BY <2>4 DEF Allocated
    <2>6. Ending'
      BY DEF Ending, Over, StopSent
    <2> QED BY <2>1, <2>2, <2>3, <2>5, <2>6
  <1> QED BY <1>1, <1>2

LEMMA InductiveImplies == Inductive => ServersInv
  <1> SUFFICES ASSUME Inductive PROVE ServersInv
    OBVIOUS
  <1> USE DEF Inductive
  <1>1. TypeOK
    <2>1. TftpTypeOK
      BY TypesOfKept
    <2>2. iNotif \in 0..2
      <3>1. iNotif \in Nat /\ Counted(notified) \in 0..2 /\ Over \in 0..2 /\ iNotif + Counted(notified) <= Over
        BY CountedBits, OverBounds DEF Ending
      <3> QED BY <3>1
    <2>3. /\ \A i \in 1..Len(clients) : clients[i] \in Browsers
          /\ \A b \in Browsers : conn[b].left \in 0..Pieces
      <3>1. \A i \in 1..Len(clients) : clients[i] \in Browsers
        BY DEF Listed
      <3>2. \A b \in Browsers : conn[b] \in Connection
        BY DEF Listed
      <3> QED BY <3>1, <3>2 DEF Connection
    <2>4. stopRequested \in BOOLEAN /\ FF_FILEs \in 0..MaxFiles
      BY DEF Ending, Allocated
    <2>5. /\ ppxClient \in 1..Len(clients) + 1
          /\ http \in {"recv", "lock", "send", "more", "release", "drop"} => ppxClient <= Len(clients)
      BY DEF Listed, AtClient
    <2> QED BY <2>1, <2>2, <2>3, <2>4, <2>5 DEF Tasked, TypeOK
  <1>2. PageIsSigned
    <2> SUFFICES ASSUME lock # "ota", ota # "off" PROVE PageOfOne
      BY DEF PageIsSigned, PageOfOne, FirstOf
    <2> QED BY DEF Paged, Owns
  <1>3. OneVersion
    <2> SUFFICES ASSUME http = "release"
                 PROVE  \A i \in DOMAIN conn[pxThis].out :
                           conn[pxThis].out[i] = conn[pxThis].out[1] /\ conn[pxThis].out[i] # "stale"
      BY DEF OneVersion
    <2> DEFINE out == conn[pxThis].out
    <2>1. lock = "http" /\ http # "off"
      BY DEF Owns
    <2>2. PICK f \in Names : \A i \in 1..Len(page) : page[i] = f
      BY <2>1, PageIsOne
    <2>3. out \in Seq(Names \union {"stale"})
      <3>1. conn[pxThis] \in Connection
        BY ThisClient DEF AtClient
      <3> QED BY <3>1 DEF Connection
    <2>4. Len(out) <= Len(page) /\ \A i \in 1..Len(out) : out[i] = page[i]
      BY DEF Served
    <2> HIDE DEF out
    <2>5. Len(page) \in Nat
      BY DEF Paged
    <2>6. \A i \in 1..Len(out) : out[i] = f /\ i >= 1
      BY <2>2, <2>3, <2>4, <2>5
    <2>7. DOMAIN out = 1..Len(out) /\ f # "stale"
      BY <2>3, UpdateNames
    <2>8. \A i \in DOMAIN out : out[i] = out[1] /\ out[i] # "stale"
      BY <2>3, <2>6, <2>7
    <2> QED BY <2>8 DEF out
  <1>4. EndsWell
    <2> SUFFICES ASSUME ended = "zero"
                 PROVE  ota = "deleted" /\ http = "deleted" /\ lock = "free" /\ StopSent
      BY DEF EndsWell, StopSent
    <2>1. ota = "deleted" /\ http = "deleted" /\ StopSent
      BY DEF Ending
    <2>2. lock = "free"
      BY <2>1 DEF Owns, Tasked
    <2> QED BY <2>1, <2>2
  <1> QED BY <1>1, <1>2, <1>3, <1>4 DEF ServersInv

(* The two tasks over one file system: the lock is given back on every     *)
(* path, the page is a signed one, an answer finished under the lock is of *)
(* one version, an FF_FILE that is freed was allocated, and the end is a   *)
(* good one only after a STOP message and with both tasks over (ota.c,     *)
(* http_server.c, tcp_server.c, main_besspin.c).                           *)
THEOREM ServersCorrect == Spec => []ServersInv
  <1> QED BY InductiveInit, InductiveStep, InductiveImplies, PTL DEF Spec

(* What the TFTP server promises by itself it promises inside the          *)
(* application, whose update task calls it and reads its buffer (ota.c).   *)
THEOREM TransferInServers == Spec => WholeOrNothing
  <1>1. Init => Transfer!Init
    BY DEF Init, TftpInit, Transfer!Init, OfferedFile, TakenFile
  <1>2. Inductive /\ [Next]_vars => [Transfer!Next]_<<OfferedFile, TakenFile>>
    BY Implements, StepsAreTftp DEF Inductive, vars, tftpVars, Step, transferVars
  <1> QED BY <1>1, <1>2, InductiveInit, InductiveStep, PTL DEF Spec, WholeOrNothing, Transfer!Spec, Transfer!vars

=============================================================================
