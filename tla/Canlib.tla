------------------------------- MODULE Canlib -------------------------------
(***************************************************************************)
(* The C CAN library of the demonstrator (besspin/cyberPhys/canlib/lib):   *)
(* messages of up to eight bytes travel in one CAN frame, longer ones as a *)
(* J1939 announcement (BAM) and data transfer frames (DT) in one datagram. *)
(*                                                                         *)
(* A message is a sequence of bytes, a datagram a record of its size and   *)
(* its frames, a CAN ID a record of its top byte and the other three (TLC  *)
(* has no 32-bit unsigned integers).  Memory nobody wrote is Junk.         *)
(***************************************************************************)
EXTENDS Integers, Sequences

Junk == -1
SizeOfFrame == 13
RECV_BUFF_SIZE == 512
MAX_MESSAGE_SIZE == 1785
PGN_BAM == 60416
PGN_DT == 60160
PgnMask == 262144

uint8(n) == n % 256
uint16(n) == n % 65536

(***************************************************************************)
(* Identifiers.                                                            *)
(***************************************************************************)
CanId(top, low) == [top |-> top, low |-> low]

(* (pgn & 0x3FFFF) << 7, with 0xAA in the top byte: bit 17 of the PGN is    *)
(* the lowest bit of that byte.                                            *)
id_from_pgn(pgn) ==
    LET p == pgn % PgnMask
    IN  CanId(170 + p \div 131072, (p % 131072) * 128)

pgn_from_id(id) == (id.top % 2) * 131072 + id.low \div 128

test_pgn(pgn) == IF pgn >= PgnMask THEN "INVALID_PGN" ELSE "SUCCESS"

(***************************************************************************)
(* Frames.                                                                 *)
(***************************************************************************)
packet_bam(nbytes, pgn) ==
    [id |-> id_from_pgn(PGN_BAM), dlc |-> 8,
     nbytes |-> uint16(nbytes),
     npackets |-> uint8(uint16(nbytes) \div 7 + (IF nbytes % 7 = 0 THEN 0 ELSE 1)),
     pgn |-> pgn]

packet_dt(index, chunk) ==
    [id |-> id_from_pgn(PGN_DT), dlc |-> uint8(Len(chunk) + 1), index |-> uint8(index),
     data |-> chunk]

\* A changed form of the next definition: the last frame is one byte short.
ChunkShort(n, i) == LET left == uint8(n - (i - 1) * 7) IN IF left >= 7 THEN 7 ELSE left - 1

(* The bytes of frame i in a message of n: what is left, seen through a     *)
(* uint8_t, seven at most.                                                 *)
ChunkLen(n, i) == LET left == uint8(n - (i - 1) * 7) IN IF left >= 7 THEN 7 ELSE left

(* rnpackets of data_to_bam_can_frames, the announcement included.         *)
PacketCount(n) == uint8(uint8(n \div 7) + (IF n % 7 = 0 THEN 0 ELSE 1) + 1)

data_to_bam_can_frames(pgn, message) ==
    LET n == Len(message)
    IN  [i \in 1 .. PacketCount(n) |->
            IF i = 1 THEN packet_bam(n, pgn)
            ELSE packet_dt(i - 1, SubSeq(message, 7 * (i - 2) + 1,
                                         7 * (i - 2) + ChunkLen(n, i - 1)))]

(* Byte k of the message comes from the last frame that holds it; frame i   *)
(* of the code is packets[i + 1].                                          *)
HoldsByte(packets, nbytes, i, k) ==
    LET start == (packets[i + 1].index - 1) * 7
    IN  start < k /\ k <= start + ChunkLen(nbytes, packets[i + 1].index)

ByteOf(frame, j) == IF j <= Len(frame.data) THEN frame.data[j] ELSE Junk

bam_can_frames_to_data(packets) ==
    LET nbytes == packets[1].nbytes
        holders(k) == {i \in 1 .. packets[1].npackets : HoldsByte(packets, nbytes, i, k)}
    IN  [k \in 1 .. nbytes |->
            IF holders(k) = {} THEN Junk
            ELSE LET i == CHOOSE i \in holders(k) : \A j \in holders(k) : j <= i
                 IN  ByteOf(packets[i + 1], k - (packets[i + 1].index - 1) * 7)]

(***************************************************************************)
(* Messages.  Results are a status and, when it is SUCCESS, what was sent   *)
(* or received.                                                            *)
(***************************************************************************)
(* The multi-frame send passes the size of one frame more than there is.   *)
(* A canframe_sendto() that fails (ERR_SEND) puts nothing on the wire.      *)
send_can_message(pgnOrId, message) ==
    LET n == Len(message)
    IN  IF n > MAX_MESSAGE_SIZE THEN [status |-> "INVALID_BUFF_SIZE"]
        ELSE IF n <= 8
        THEN [status |-> "SUCCESS",
              wire |-> [size |-> 5 + n,
                        frames |-> <<[id |-> pgnOrId, dlc |-> n, data |-> message]>>]]
        ELSE IF test_pgn(pgnOrId) # "SUCCESS" THEN [status |-> "INVALID_PGN"]
        ELSE LET packets == data_to_bam_can_frames(pgnOrId, message)
             IN  [status |-> "SUCCESS",
                  wire |-> [size |-> SizeOfFrame * (Len(packets) + 1), frames |-> packets]]

(* A datagram longer than the buffer is cut: ours are not (see Lengths in   *)
(* the modules that send).  A canframe_recvfrom() that fails gives a        *)
(* negative size and takes nothing off the wire.                           *)
recv_can_message(wire) ==
    LET frame == Head(wire.frames)
    IN  IF wire.size = 0 THEN [status |-> "EMPTY_RECV"]
        ELSE IF wire.size < 0 THEN [status |-> "ERR_RECV"]
        ELSE IF wire.size <= SizeOfFrame
        THEN IF frame.dlc # wire.size - 5 THEN [status |-> "INVALID_LEN"]
             ELSE IF frame.id.top # 170 THEN [status |-> "INVALID_ID"]
             ELSE [status |-> "SUCCESS", id |-> frame.id, message |-> frame.data]
        ELSE IF pgn_from_id(frame.id) = PGN_BAM
             THEN [status |-> "SUCCESS", id |-> CanId(0, PGN_BAM),
                   message |-> bam_can_frames_to_data(wire.frames)]
             ELSE [status |-> "UNKNOWN_RECV"]
=============================================================================
