-------------------------- MODULE ThreadPerTarget --------------------------
(***************************************************************************)
(* runThreadPerTarget: how <cyberPhys> mode runs a function on every       *)
(* target at once.  The main thread fills ONE dictionary of keyword        *)
(* arguments, hands a reference to it to a new thread, starts the thread,  *)
(* and goes on to fill the same dictionary for the next target.  A started *)
(* thread unpacks the dictionary when it is scheduled.                     *)
(*                                                                         *)
(* The module follows the calls of a session in their order.  A call gives *)
(* its threads a targetId, or the target's targetObj setting.  The two     *)
(* calls that make a single thread (the heartbeat and the shell) have no   *)
(* per-target argument and are not in this module.                         *)
(***************************************************************************)
EXTENDS Naturals, Sequences

CONSTANTS
    NTargets,    \* the `nTargets` setting
    PipeTheUart  \* the `pipeTheUart` setting

ASSUME NTargetsAssumption == NTargets \in Nat \ {0}

VARIABLES
    call,       \* index in Calls of the call under way; Len(Calls)+1: none
    place,      \* where the main thread is in runThreadPerTarget
    iTarget,    \* its loop variable
    tKwargs,    \* call -> the target its dictionary names, 0: none yet
    thread,     \* <<call, i>> -> state of the i-th thread
    got,        \* <<call, i>> -> the target the i-th thread works on
    targetObj,  \* target -> whether its `targetObj` setting exists
    ended       \* logAndExit was called

callVars == <<call, place, iTarget, tKwargs, thread, got, targetObj, ended>>

TargetId == 1 .. NTargets

\* startCyberPhys (launch, handover of the TTYs) and endCyberPhys.
Calls == << "startBesspin",
            IF PipeTheUart THEN "startUartPiping" ELSE "startTtyLogging",
            "endUartPiping", "stopTtyLogging", "endBesspin" >>

Call == 1 .. Len(Calls)

\* endBesspin is given mapTargetSettingsToKwargs=[('xTarget','targetObj')]
\* and addTargetIdToKwargs=False; the other calls only take a targetId.  Either
\* way a call uses one key of its dictionary.
Maps(c) == Calls[c] = "endBesspin"

CallsTypeOK ==
    /\ call \in 1 .. Len(Calls) + 1
    /\ place \in {"fill", "start", "join"}
    /\ iTarget \in 1 .. NTargets + 1
    /\ tKwargs \in [Call -> 0 .. NTargets]
    /\ thread \in [Call \X TargetId -> {"none", "started", "running", "finished"}]
    /\ got \in [Call \X TargetId -> 0 .. NTargets]
    /\ targetObj \in [TargetId -> BOOLEAN]
    /\ ended \in BOOLEAN

CallsInit ==
    /\ call = 1
    /\ place = "fill"
    /\ iTarget = 1
    /\ tKwargs = [c \in Call |-> 0]
    /\ thread = [job \in Call \X TargetId |-> "none"]
    /\ got = [job \in Call \X TargetId |-> 0]
    /\ targetObj = [i \in TargetId |-> FALSE]
    /\ ended = FALSE

------------------------------------------------------------------------------
(* The main thread                                                         *)

\* A changed form of the next definition: the index is one behind.
FillEarlier ==
    /\ call \in Call
    /\ place = "fill"
    /\ tKwargs' = [tKwargs EXCEPT ![call] = iTarget - 1]
    /\ place' = "start"
    /\ UNCHANGED <<call, iTarget, thread, got, targetObj, ended>>

\* A changed form of the next definition: a missing setting goes unnoticed.
FillAnyway ==
    /\ call \in Call
    /\ place = "fill"
    /\ tKwargs' = [tKwargs EXCEPT ![call] = iTarget]
    /\ place' = "start"
    /\ UNCHANGED <<call, iTarget, thread, got, targetObj, ended>>

\* The kwargs of this iteration; a setting that does not exist ends the tool.
Fill ==
    /\ call \in Call
    /\ place = "fill"
    /\ IF Maps(call) /\ ~targetObj[iTarget]
       THEN /\ ended' = TRUE
            /\ UNCHANGED <<place, tKwargs>>
       ELSE /\ tKwargs' = [tKwargs EXCEPT ![call] = iTarget]
            /\ place' = "start"
            /\ UNCHANGED ended
    /\ UNCHANGED <<call, iTarget, thread, got, targetObj>>

\* A changed form of the next definition: the loop runs once too often.
StartOneMore ==
    /\ call \in Call
    /\ place = "start"
    /\ thread' = [thread EXCEPT ![<<call, iTarget>>] = "started"]
    /\ iTarget' = iTarget + 1
    /\ place' = IF iTarget > NTargets THEN "join" ELSE "fill"
    /\ UNCHANGED <<call, tKwargs, got, targetObj, ended>>

\* Thread(kwargs=tKwargs), throwThread, start(), append.
Start ==
    /\ call \in Call
    /\ place = "start"
    /\ thread' = [thread EXCEPT ![<<call, iTarget>>] = "started"]
    /\ iTarget' = iTarget + 1
    /\ place' = IF iTarget = NTargets THEN "join" ELSE "fill"
    /\ UNCHANGED <<call, tKwargs, got, targetObj, ended>>

\* A changed form of the next definition: onlyStart, nothing is joined.
JoinNothing ==
    /\ call \in Call
    /\ place = "join"
    /\ call' = call + 1
    /\ place' = "fill"
    /\ iTarget' = 1
    /\ UNCHANGED <<tKwargs, thread, got, targetObj, ended>>

\* Every thread is joined; the next call starts with a dictionary of its own.
Join ==
    /\ call \in Call
    /\ place = "join"
    /\ \A i \in TargetId : thread[<<call, i>>] = "finished"
    /\ call' = call + 1
    /\ place' = "fill"
    /\ iTarget' = 1
    /\ UNCHANGED <<tKwargs, thread, got, targetObj, ended>>

------------------------------------------------------------------------------
(* The threads                                                             *)

\* Thread.run: func(**kwargs) unpacks the dictionary the main thread shares.
Unpack(c, i) ==
    /\ thread[<<c, i>>] = "started"
    /\ thread' = [thread EXCEPT ![<<c, i>>] = "running"]
    /\ got' = [got EXCEPT ![<<c, i>>] = tKwargs[c]]
    /\ UNCHANGED <<call, place, iTarget, tKwargs, targetObj, ended>>

\* The function returns.  startBesspin stores the target object it made; the
\* TTY functions read that setting first and exit when it is missing.
Work(c, i) ==
    /\ thread[<<c, i>>] = "running"
    /\ IF Calls[c] # "startBesspin" /\ ~targetObj[got[<<c, i>>]]
       THEN /\ ended' = TRUE
            /\ UNCHANGED <<thread, targetObj>>
       ELSE /\ thread' = [thread EXCEPT ![<<c, i>>] = "finished"]
            /\ targetObj' = [targetObj EXCEPT ![got[<<c, i>>]] = TRUE]
            /\ UNCHANGED ended
    /\ UNCHANGED <<call, place, iTarget, tKwargs, got>>

Main == Fill \/ Start \/ Join

CallsStopped == (ended \/ call \notin Call) /\ UNCHANGED callVars

CallsNext ==
    \/ ~ended /\ (Main \/ \E c \in Call, i \in TargetId : Unpack(c, i) \/ Work(c, i))
    \/ CallsStopped

CallsSpec == CallsInit /\ [][CallsNext]_callVars

------------------------------------------------------------------------------
(* Properties                                                              *)

\* The i-th thread never works on a target before the i-th: the dictionary is
\* filled before the thread starts, and only ever for later targets after it.
\* The last thread always serves the last target.
NeverEarlier ==
    \A c \in Call, i \in TargetId :
        thread[<<c, i>>] \in {"running", "finished"} =>
            got[<<c, i>>] \in i .. NTargets

\* The calls of a session do not overlap: a thread of one call (a boot, a
\* handover, a shutdown) only runs when every thread of the earlier calls has
\* finished, because each call joins its threads.
CallsDoNotOverlap ==
    \A c \in Call : (\E i \in TargetId : thread[<<c, i>>] # "none") =>
        \A b \in Call, i \in TargetId : b < c => thread[<<b, i>>] = "finished"

\* A session that ends in order has launched every target: one that no
\* startBesspin thread worked on has no targetObj setting, and the session then
\* ends at the exit that reports it, at the latest in the last call.
EndsInOrderOnlyWithAllTargets ==
    call \notin Call => \A i \in TargetId : targetObj[i]

\* What is left to rely on although the threads share their arguments
\* (cyberPhys/launch.py:154-176): calls that do not overlap, no thread on an
\* earlier target, and no orderly end with a target nobody launched.
CallsInv ==
    /\ CallsTypeOK
    /\ NeverEarlier
    /\ CallsDoNotOverlap
    /\ EndsInOrderOnlyWithAllTargets
==============================================================================
