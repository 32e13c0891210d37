---------------------------- MODULE FileTransfer ----------------------------
(***************************************************************************)
(* What the TFTP server promises the update task: of the file that a       *)
(* client offers it takes all or nothing, and only a file that fits.       *)
(***************************************************************************)
CONSTANTS
    Files,      \* the files that clients may offer
    Fitting     \* those for which the receipt buffer has room

VARIABLES
    offered,    \* the file that is being received, or "none"
    taken       \* the file in the receipt buffer, or "nothing"

vars == <<offered, taken>>

Init == offered = "none" /\ taken = "nothing"

Offer(f) == /\ offered = "none"
            /\ offered' = f /\ taken' = "nothing"
Take == /\ offered \in Fitting
        /\ taken' = offered /\ offered' = "none"
Drop == /\ offered # "none"
        /\ offered' = "none" /\ taken' = "nothing"
Clear == /\ offered = "none"
         /\ taken' = "nothing" /\ UNCHANGED offered

Next == (\E f \in Files : Offer(f)) \/ Take \/ Drop \/ Clear

Spec == Init /\ [][Next]_vars
=============================================================================
