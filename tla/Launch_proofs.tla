--------------------------- MODULE Launch_proofs ----------------------------
(***************************************************************************)
(* How cyberPhys mode starts and ends its targets, proved in two parts.    *)
(*                                                                         *)
(* ThreadPerTarget: what the per-target calls of a session guarantee although*)
(* their threads share a dictionary, for every number of targets and either*)
(* kind of handover.                                                       *)
(*                                                                         *)
(* VcuBoards, for any number of targets and boards and every setting and   *)
(* limit: the type invariant; that two targets never drive one board and each*)
(* has its board's UART; that nobody starts before the power cycle; that   *)
(* openocdLock is never taken twice and only given back by who holds it; and,*)
(* when gdb does not fail during the search for a UART, that it protects.  *)
(* The inductive invariants are Owned (boards), Cycled (power cycle) and   *)
(* Locked with Served (lock); Locked needs Owned, because a search that lost*)
(* the lock must not find a UART.                                          *)
(***************************************************************************)
EXTENDS ThreadPerTarget, VcuBoards, FiniteSetTheorems, SequenceTheorems, TLAPS

(* The calls for every target                                              *)

(* The loop variable and the place in the loop agree.                      *)
Looped ==
    /\ place = "join" <=> iTarget = NTargets + 1
    /\ call \notin Call => place = "fill" /\ iTarget = 1

(* What the loop has done so far: every thread of an earlier call is over, *)
(* those of this call are started up to the loop variable, and the         *)
(* dictionary has moved at least as far as the threads.                    *)
Ordered ==
    \A c \in Call, i \in TargetId :
        /\ c < call => thread[<<c, i>>] = "finished"
        /\ c = call => (thread[<<c, i>>] # "none" <=> i < iTarget)
        /\ c > call => thread[<<c, i>>] = "none"
        /\ thread[<<c, i>>] # "none" => i <= tKwargs[c]

(* The dictionary a thread is about to be given is its own target's.       *)
Filled == call \in Call /\ place = "start" => tKwargs[call] = iTarget

(* The last call has seen the object of every target it went past.         *)
Seen ==
    \A i \in TargetId :
        \/ call = 5 /\ (i < iTarget \/ (i = iTarget /\ place # "fill"))
        \/ call = 6
        => targetObj[i]

Inductive == CallsTypeOK /\ Looped /\ Ordered /\ Filled /\ NeverEarlier /\ Seen

(* There are five calls, and the last one looks the objects up.            *)
LEMMA FiveCalls == Call = 1 .. 5 /\ Len(Calls) = 5 /\ Maps(5)
  <1>1. Len(Calls) = 5
    BY DEF Calls
  <1>2. Calls[5] = "endBesspin"
    BY DEF Calls
  <1> QED BY <1>1, <1>2 DEF Call, Maps

LEMMA InitInductive == CallsInit => Inductive
  <1> SUFFICES ASSUME CallsInit PROVE Inductive
    OBVIOUS
  <1>0. call = 1 /\ place = "fill" /\ iTarget = 1 /\ NTargets \in Nat /\ NTargets >= 1
    BY NTargetsAssumption DEF CallsInit
  <1>1. CallsTypeOK
    <2>1. /\ call \in 1 .. Len(Calls) + 1
          /\ place \in {"fill", "start", "join"}
          /\ iTarget \in 1 .. NTargets + 1
      BY <1>0, FiveCalls
    <2>2. /\ tKwargs \in [Call -> 0 .. NTargets]
          /\ got \in [Call \X TargetId -> 0 .. NTargets]
      BY <1>0 DEF CallsInit
    <2>3. thread \in [Call \X TargetId -> {"none", "started", "running", "finished"}]
      BY DEF CallsInit
    <2>4. targetObj \in [TargetId -> BOOLEAN] /\ ended \in BOOLEAN
      BY Zenon DEF CallsInit
    <2> QED BY <2>1, <2>2, <2>3, <2>4 DEF CallsTypeOK
  <1>2. Looped
    BY <1>0, FiveCalls DEF Looped
  <1>3. \A c \in Call, i \in TargetId : thread[<<c, i>>] = "none"
    BY DEF CallsInit
  <1>4. Ordered
    BY <1>0, <1>3, FiveCalls DEF Ordered, TargetId
  <1>5. Filled
    BY <1>0 DEF Filled
  <1>6. NeverEarlier
    BY <1>3 DEF NeverEarlier
  <1>7. Seen
    BY <1>0 DEF Seen
  <1> QED BY <1>1, <1>2, <1>4, <1>5, <1>6, <1>7 DEF Inductive

(* The types as facts about one target and one call.                       *)
LEMMA TypesUsed ==
    ASSUME Inductive
    PROVE  /\ call \in 1 .. 6 /\ iTarget \in 1 .. NTargets + 1 /\ NTargets \in Nat \ {0}
           /\ TargetId = 1 .. NTargets
           /\ \A c \in Call : tKwargs[c] \in 0 .. NTargets
           /\ call \in Call /\ place # "join" => iTarget \in TargetId
  BY FiveCalls, NTargetsAssumption DEF Inductive, CallsTypeOK, Looped, TargetId

LEMMA FillKeeps ==
    ASSUME Inductive, Fill
    PROVE  Inductive'
  <1>0. /\ call \in Call /\ place = "fill" /\ iTarget \in TargetId
        /\ UNCHANGED <<call, iTarget, thread, got, targetObj>>
    BY TypesUsed DEF Fill
  <1>1. CASE ended' = TRUE /\ UNCHANGED <<place, tKwargs>>
    <2>1. CallsTypeOK'
      BY <1>0, <1>1 DEF Inductive, CallsTypeOK
    <2>2. Looped' /\ Filled'
      BY <1>0, <1>1 DEF Inductive, Looped, Filled
    <2>3. Ordered'
      BY <1>0, <1>1 DEF Inductive, Ordered
    <2>4. NeverEarlier' /\ Seen'
      BY <1>0, <1>1 DEF Inductive, NeverEarlier, Seen
    <2> QED BY <2>1, <2>2, <2>3, <2>4 DEF Inductive
  <1>2. CASE /\ ~(Maps(call) /\ ~targetObj[iTarget])
             /\ tKwargs' = [tKwargs EXCEPT ![call] = iTarget]
             /\ place' = "start" /\ UNCHANGED ended
    <2>0. /\ NTargets \in Nat \ {0} /\ TargetId = 1 .. NTargets
          /\ tKwargs'[call] = iTarget
          /\ \A c \in Call : c # call => tKwargs'[c] = tKwargs[c]
      BY <1>0, <1>2, TypesUsed DEF Inductive, CallsTypeOK
    <2>1. CallsTypeOK'
      <3>1. tKwargs' \in [Call -> 0 .. NTargets]
        BY <1>0, <1>2, <2>0 DEF Inductive, CallsTypeOK
      <3> QED BY <1>0, <1>2, <3>1 DEF Inductive, CallsTypeOK
    <2>2. Looped'
      BY <1>0, <1>2, <2>0 DEF Inductive, Looped
    <2>3. Filled'
      BY <1>0, <2>0 DEF Filled
    <2>4. Ordered'
      <3> SUFFICES ASSUME NEW c \in Call, NEW i \in TargetId
                   PROVE  /\ c < call => thread[<<c, i>>] = "finished"
                          /\ c = call => (thread[<<c, i>>] # "none" <=> i < iTarget)
                          /\ c > call => thread[<<c, i>>] = "none"
                          /\ thread[<<c, i>>] # "none" => i <= tKwargs'[c]
        BY <1>0 DEF Ordered
      <3>1. /\ c < call => thread[<<c, i>>] = "finished"
            /\ c = call => (thread[<<c, i>>] # "none" <=> i < iTarget)
            /\ c > call => thread[<<c, i>>] = "none"
            /\ thread[<<c, i>>] # "none" => i <= tKwargs[c]
        BY DEF Inductive, Ordered
      <3>2. thread[<<c, i>>] # "none" => i <= tKwargs'[c]
        <4>1. CASE c = call
          BY <3>1, <4>1, <2>0, <1>0
        <4>2. CASE c # call
          BY <3>1, <4>2, <2>0
        <4> QED BY <4>1, <4>2
      <3> QED BY <3>1, <3>2
    <2>5. NeverEarlier'
      BY <1>0 DEF Inductive, NeverEarlier
    <2>6. Seen'
      <3> SUFFICES ASSUME NEW i \in TargetId,
                          \/ call = 5 /\ (i < iTarget \/ i = iTarget)
                          \/ call = 6
                   PROVE  targetObj[i]
        BY <1>0, Zenon DEF Seen
      <3>1. CASE call = 5 /\ i = iTarget
        BY <1>2, <3>1, FiveCalls
      <3>2. CASE call = 5 /\ i < iTarget
        BY <3>2, Zenon DEF Inductive, Seen
      <3>3. CASE call = 6
        BY <3>3 DEF Inductive, Seen
      <3> QED BY <3>1, <3>2, <3>3
    <2> QED BY <2>1, <2>2, <2>3, <2>4, <2>5, <2>6 DEF Inductive
  <1> QED BY <1>1, <1>2 DEF Fill

LEMMA StartKeeps ==
    ASSUME Inductive, Start
    PROVE  Inductive'
  <1>0. /\ call \in Call /\ place = "start" /\ iTarget \in TargetId
        /\ NTargets \in Nat \ {0} /\ TargetId = 1 .. NTargets
        /\ call \in 1 .. 6
        /\ iTarget' = iTarget + 1
        /\ place' = IF iTarget = NTargets THEN "join" ELSE "fill"
        /\ thread' = [thread EXCEPT ![<<call, iTarget>>] = "started"]
        /\ UNCHANGED <<call, tKwargs, got, targetObj, ended>>
    BY TypesUsed DEF Start
  <1>1. /\ thread'[<<call, iTarget>>] = "started"
        /\ \A c \in Call, i \in TargetId :
              ~(c = call /\ i = iTarget) => thread'[<<c, i>>] = thread[<<c, i>>]
    BY <1>0 DEF Inductive, CallsTypeOK
  <1>2. CallsTypeOK'
    <2>1. thread' \in [Call \X TargetId -> {"none", "started", "running", "finished"}]
      BY <1>0 DEF Inductive, CallsTypeOK
    <2>2. iTarget' \in 1 .. NTargets + 1 /\ place' \in {"fill", "start", "join"}
      BY <1>0
    <2> QED BY <1>0, <2>1, <2>2 DEF Inductive, CallsTypeOK
  <1>3. Looped' /\ Filled'
    BY <1>0 DEF Looped, Filled
  <1>4. Ordered'
    <2> SUFFICES ASSUME NEW c \in Call, NEW i \in TargetId
                 PROVE  /\ c < call => thread'[<<c, i>>] = "finished"
                        /\ c = call => (thread'[<<c, i>>] # "none" <=> i < iTarget + 1)
                        /\ c > call => thread'[<<c, i>>] = "none"
                        /\ thread'[<<c, i>>] # "none" => i <= tKwargs[c]
      BY <1>0 DEF Ordered
    <2>0. c \in 1 .. 5 /\ i \in 1 .. NTargets
      BY <1>0, FiveCalls
    <2>1. /\ c < call => thread[<<c, i>>] = "finished"
          /\ c = call => (thread[<<c, i>>] # "none" <=> i < iTarget)
          /\ c > call => thread[<<c, i>>] = "none"
          /\ thread[<<c, i>>] # "none" => i <= tKwargs[c]
      BY DEF Inductive, Ordered
    <2>2. CASE c = call /\ i = iTarget
      <3>1. tKwargs[call] = iTarget
        BY <1>0 DEF Inductive, Filled
      <3> QED BY <1>0, <1>1, <2>0, <2>2, <3>1
    <2>3. CASE ~(c = call /\ i = iTarget)
      BY <1>0, <1>1, <2>0, <2>1, <2>3
    <2> QED BY <2>2, <2>3
  <1>5. NeverEarlier'
    <2> SUFFICES ASSUME NEW c \in Call, NEW i \in TargetId,
                        thread'[<<c, i>>] \in {"running", "finished"}
                 PROVE  got[<<c, i>>] \in i .. NTargets
      BY <1>0 DEF NeverEarlier
    <2>1. thread[<<c, i>>] \in {"running", "finished"}
      BY <1>1
    <2> QED BY <2>1 DEF Inductive, NeverEarlier
  <1>6. Seen'
    <2> SUFFICES ASSUME NEW i \in TargetId,
                        \/ call = 5 /\ (i < iTarget + 1 \/ (i = iTarget + 1 /\ place' # "fill"))
                        \/ call = 6
                 PROVE  targetObj[i]
      BY <1>0, Zenon DEF Seen
    <2>1. call = 6 \/ (call = 5 /\ (i < iTarget \/ i = iTarget))
      BY <1>0
    <2>2. place # "fill"
      BY <1>0
    <2> QED BY <2>1, <2>2 DEF Inductive, Seen
  <1> QED BY <1>2, <1>3, <1>4, <1>5, <1>6 DEF Inductive

LEMMA JoinKeeps ==
    ASSUME Inductive, Join
    PROVE  Inductive'
  <1>0. /\ call \in Call /\ place = "join" /\ iTarget = NTargets + 1
        /\ NTargets \in Nat \ {0} /\ TargetId = 1 .. NTargets
        /\ call \in 1 .. 5 /\ Call = 1 .. 5 /\ Len(Calls) = 5
        /\ call' = call + 1 /\ place' = "fill" /\ iTarget' = 1
        /\ UNCHANGED <<tKwargs, thread, got, targetObj, ended>>
    BY TypesUsed, FiveCalls DEF Join, Inductive, Looped
  <1>1. \A i \in TargetId : thread[<<call, i>>] = "finished"
    BY DEF Join
  <1>2. CallsTypeOK'
    <2>1. call' \in 1 .. Len(Calls) + 1 /\ iTarget' \in 1 .. NTargets + 1
      BY <1>0
    <2> QED BY <1>0, <2>1 DEF Inductive, CallsTypeOK
  <1>3. Looped' /\ Filled'
    BY <1>0 DEF Looped, Filled
  <1>4. Ordered'
    <2> SUFFICES ASSUME NEW c \in Call, NEW i \in TargetId
                 PROVE  /\ c < call + 1 => thread[<<c, i>>] = "finished"
                        /\ c = call + 1 => (thread[<<c, i>>] # "none" <=> i < 1)
                        /\ c > call + 1 => thread[<<c, i>>] = "none"
                        /\ thread[<<c, i>>] # "none" => i <= tKwargs[c]
      BY <1>0 DEF Ordered
    <2>1. /\ c < call => thread[<<c, i>>] = "finished"
          /\ c > call => thread[<<c, i>>] = "none"
          /\ thread[<<c, i>>] # "none" => i <= tKwargs[c]
      BY DEF Inductive, Ordered
    <2>2. c = call => thread[<<c, i>>] = "finished"
      BY <1>1
    <2> QED BY <1>0, <2>1, <2>2
  <1>5. NeverEarlier'
    BY <1>0 DEF Inductive, NeverEarlier
  <1>6. Seen'
    <2> SUFFICES ASSUME NEW i \in TargetId,
                        \/ call + 1 = 5 /\ (i < 1 \/ (i = 1 /\ place' # "fill"))
                        \/ call + 1 = 6
                 PROVE  targetObj[i]
      BY <1>0, Zenon DEF Seen
    <2>1. call = 5 /\ i < iTarget
      BY <1>0
    <2> QED BY <2>1, Zenon DEF Inductive, Seen
  <1> QED BY <1>2, <1>3, <1>4, <1>5, <1>6 DEF Inductive

LEMMA UnpackKeeps ==
    ASSUME Inductive, NEW d \in Call, NEW j \in TargetId, Unpack(d, j)
    PROVE  Inductive'
  <1>0. /\ thread[<<d, j>>] = "started"
        /\ thread' = [thread EXCEPT ![<<d, j>>] = "running"]
        /\ got' = [got EXCEPT ![<<d, j>>] = tKwargs[d]]
        /\ UNCHANGED <<call, place, iTarget, tKwargs, targetObj, ended>>
    BY DEF Unpack
  <1>1. /\ thread'[<<d, j>>] = "running" /\ got'[<<d, j>>] = tKwargs[d]
        /\ \A c \in Call, i \in TargetId :
              ~(c = d /\ i = j) => thread'[<<c, i>>] = thread[<<c, i>>] /\ got'[<<c, i>>] = got[<<c, i>>]
    BY <1>0 DEF Inductive, CallsTypeOK
  <1>2. NTargets \in Nat \ {0} /\ tKwargs[d] \in 0 .. NTargets /\ j \in 1 .. NTargets
    BY TypesUsed
  <1>3. CallsTypeOK'
    <2>1. thread' \in [Call \X TargetId -> {"none", "started", "running", "finished"}]
      BY <1>0 DEF Inductive, CallsTypeOK
    <2>2. got' \in [Call \X TargetId -> 0 .. NTargets]
      BY <1>0, <1>2 DEF Inductive, CallsTypeOK
    <2> QED BY <1>0, <2>1, <2>2 DEF Inductive, CallsTypeOK
  <1>4. Looped' /\ Filled'
    BY <1>0 DEF Inductive, Looped, Filled
  <1>5. \A c \in Call, i \in TargetId : thread'[<<c, i>>] = "none" <=> thread[<<c, i>>] = "none"
    BY <1>0, <1>1
  <1>6. \A c \in Call, i \in TargetId : thread[<<c, i>>] = "finished" => thread'[<<c, i>>] = "finished"
    BY <1>0, <1>1
  <1>7. Ordered'
    <2> SUFFICES ASSUME NEW c \in Call, NEW i \in TargetId
                 PROVE  /\ c < call => thread'[<<c, i>>] = "finished"
                        /\ c = call => (thread'[<<c, i>>] # "none" <=> i < iTarget)
                        /\ c > call => thread'[<<c, i>>] = "none"
                        /\ thread'[<<c, i>>] # "none" => i <= tKwargs[c]
      BY <1>0 DEF Ordered
    <2> QED BY <1>5, <1>6 DEF Inductive, Ordered
  <1>8. NeverEarlier'
    <2> SUFFICES ASSUME NEW c \in Call, NEW i \in TargetId,
                        thread'[<<c, i>>] \in {"running", "finished"}
                 PROVE  got'[<<c, i>>] \in i .. NTargets
      BY DEF NeverEarlier
    <2>1. CASE c = d /\ i = j
      <3>1. j <= tKwargs[d]
        BY <1>0 DEF Inductive, Ordered
      <3> QED BY <1>1, <1>2, <2>1, <3>1
    <2>2. CASE ~(c = d /\ i = j)
      BY <1>1, <2>2 DEF Inductive, NeverEarlier
    <2> QED BY <2>1, <2>2
  <1>9. Seen'
    BY <1>0 DEF Inductive, Seen
  <1> QED BY <1>3, <1>4, <1>7, <1>8, <1>9 DEF Inductive

LEMMA WorkKeeps ==
    ASSUME Inductive, NEW d \in Call, NEW j \in TargetId, Work(d, j)
    PROVE  Inductive'
  <1>0. /\ thread[<<d, j>>] = "running"
        /\ UNCHANGED <<call, place, iTarget, tKwargs, got>>
    BY DEF Work
  <1>1. CASE ended' = TRUE /\ UNCHANGED <<thread, targetObj>>
    <2>1. CallsTypeOK'
      BY <1>0, <1>1 DEF Inductive, CallsTypeOK
    <2>2. Looped' /\ Filled'
      BY <1>0 DEF Inductive, Looped, Filled
    <2>3. Ordered'
      BY <1>0, <1>1 DEF Inductive, Ordered
    <2>4. NeverEarlier' /\ Seen'
      BY <1>0, <1>1 DEF Inductive, NeverEarlier, Seen
    <2> QED BY <2>1, <2>2, <2>3, <2>4 DEF Inductive
  <1>2. CASE /\ thread' = [thread EXCEPT ![<<d, j>>] = "finished"]
             /\ targetObj' = [targetObj EXCEPT ![got[<<d, j>>]] = TRUE]
             /\ UNCHANGED ended
    <2>1. /\ thread'[<<d, j>>] = "finished"
          /\ \A c \in Call, i \in TargetId :
                ~(c = d /\ i = j) => thread'[<<c, i>>] = thread[<<c, i>>]
      BY <1>2 DEF Inductive, CallsTypeOK
    <2>2. \A i \in TargetId : targetObj[i] => targetObj'[i]
      BY <1>2, Zenon DEF Inductive, CallsTypeOK
    <2>3. CallsTypeOK'
      <3>1. thread' \in [Call \X TargetId -> {"none", "started", "running", "finished"}]
        BY <1>2 DEF Inductive, CallsTypeOK
      <3>2. targetObj' \in [TargetId -> BOOLEAN]
        BY <1>2, Zenon DEF Inductive, CallsTypeOK
      <3> QED BY <1>0, <1>2, <3>1, <3>2 DEF Inductive, CallsTypeOK
    <2>4. Looped' /\ Filled'
      BY <1>0 DEF Inductive, Looped, Filled
    <2>5. \A c \in Call, i \in TargetId : thread'[<<c, i>>] = "none" <=> thread[<<c, i>>] = "none"
      BY <1>0, <2>1
    <2>6. \A c \in Call, i \in TargetId : thread[<<c, i>>] = "finished" => thread'[<<c, i>>] = "finished"
      BY <2>1
    <2>7. Ordered'
      <3> SUFFICES ASSUME NEW c \in Call, NEW i \in TargetId
                   PROVE  /\ c < call => thread'[<<c, i>>] = "finished"
                          /\ c = call => (thread'[<<c, i>>] # "none" <=> i < iTarget)
                          /\ c > call => thread'[<<c, i>>] = "none"
                          /\ thread'[<<c, i>>] # "none" => i <= tKwargs[c]
        BY <1>0 DEF Ordered
      <3> QED BY <2>5, <2>6 DEF Inductive, Ordered
    <2>8. NeverEarlier'
      <3> SUFFICES ASSUME NEW c \in Call, NEW i \in TargetId,
                          thread'[<<c, i>>] \in {"running", "finished"}
                   PROVE  got[<<c, i>>] \in i .. NTargets
        BY <1>0 DEF NeverEarlier
      <3>1. thread[<<c, i>>] \in {"running", "finished"}
        BY <1>0, <2>1
      <3> QED BY <3>1 DEF Inductive, NeverEarlier
    <2>9. Seen'
      <3> SUFFICES ASSUME NEW i \in TargetId,
                          \/ call = 5 /\ (i < iTarget \/ (i = iTarget /\ place # "fill"))
                          \/ call = 6
                   PROVE  targetObj'[i]
        BY <1>0, Zenon DEF Seen
      <3>1. targetObj[i]
        BY DEF Inductive, Seen
      <3> QED BY <2>2, <3>1, Zenon
    <2> QED BY <2>3, <2>4, <2>7, <2>8, <2>9 DEF Inductive
  <1> QED BY <1>1, <1>2 DEF Work

(* Every step keeps the invariant.                                         *)
LEMMA StepInductive == Inductive /\ [CallsNext]_callVars => Inductive'
  <1> SUFFICES ASSUME Inductive, [CallsNext]_callVars PROVE Inductive'
    OBVIOUS
  <1>1. CASE UNCHANGED callVars
    <2>1. UNCHANGED <<call, place, iTarget, tKwargs, thread, got, targetObj, ended>>
      BY <1>1 DEF callVars
    <2>2. CallsTypeOK' /\ Looped' /\ Filled'
      BY <2>1 DEF Inductive, CallsTypeOK, Looped, Filled
    <2>3. Ordered' /\ NeverEarlier' /\ Seen'
      BY <2>1 DEF Inductive, Ordered, NeverEarlier, Seen
    <2> QED BY <2>2, <2>3 DEF Inductive
  <1>2. CASE Fill
    BY <1>2, FillKeeps
  <1>3. CASE Start
    BY <1>3, StartKeeps
  <1>4. CASE Join
    BY <1>4, JoinKeeps
  <1>5. CASE \E c \in Call, i \in TargetId : Unpack(c, i) \/ Work(c, i)
    BY <1>5, UnpackKeeps, WorkKeeps
  <1> QED BY <1>1, <1>2, <1>3, <1>4, <1>5 DEF CallsNext, Main, CallsStopped

(* A thread that exists is of this call or an earlier one, and before this *)
(* call every thread is over.                                              *)
LEMMA NoOverlap == Inductive => CallsDoNotOverlap
  <1> SUFFICES ASSUME Inductive,
                      NEW c \in Call, NEW k \in TargetId, thread[<<c, k>>] # "none",
                      NEW b \in Call, NEW i \in TargetId, b < c
               PROVE  thread[<<b, i>>] = "finished"
    BY DEF CallsDoNotOverlap
  <1>1. c \in 1 .. 5 /\ b \in 1 .. 5 /\ call \in 1 .. 6
    BY FiveCalls, TypesUsed
  <1>2. ~(c > call)
    BY DEF Inductive, Ordered
  <1>3. b < call
    BY <1>1, <1>2
  <1> QED BY <1>3 DEF Inductive, Ordered

LEMMA AllLaunched == Inductive => EndsInOrderOnlyWithAllTargets
  <1> SUFFICES ASSUME Inductive, call \notin Call, NEW i \in TargetId
               PROVE  targetObj[i]
    BY DEF EndsInOrderOnlyWithAllTargets
  <1>1. call = 6
    BY FiveCalls, TypesUsed
  <1> QED BY <1>1 DEF Inductive, Seen

(* With any number of targets, whatever the threads find in the dictionary *)
(* they share (cyberPhys/launch.py:154-176): the calls of a session do not *)
(* overlap, no thread works on a target before its own, and a session that *)
(* ends in order has launched every target.                                *)
THEOREM CallsCorrect == CallsSpec => []CallsInv
  <1>1. Inductive => CallsInv
    BY NoOverlap, AllLaunched DEF Inductive, CallsInv
  <1> QED BY InitInductive, StepInductive, <1>1, PTL DEF CallsSpec

-----------------------------------------------------------------------------
(* The boards                                                              *)

\* That the last UART may be taken unseen rests on its last part: every UART
\* that is gone is used by some target, hence by the one that drives its board.
Owned ==
    /\ \A t, s \in Target : hwTarget[t] = hwTarget[s] /\ hwTarget[t] # NoBoard => t = s
    /\ \A t \in Target : hwTarget[t] \notin hwPool
    /\ \A t \in Target : pc[t] \notin {"prepare", "preparing"} => hwTarget[t] # NoBoard
    /\ \A u \in Board : uartHwIdMap[u] \in {u, NoBoard}
    /\ \A t \in Target : uart[t] \in {hwTarget[t], NoBoard}
    /\ \A u \in Board \ uartPool : \E t \in Target : uart[t] = u

\* The points after programBitfile.
Started == {"start", "openocd", "uart", "smoke", "search", "gdb", "connect", "load",
            "boot", "network", "booted"}

\* The event is set by the thread that counted up to the number of targets, and
\* the points of Started are reached through it or from one another.
Cycled ==
    /\ \A t \in Target : pc[t] \in Started => flashEvent
    /\ \A t \in Target : pc[t] = "askUser" => flashCount >= Cardinality(Target)
    /\ flashEvent => flashCount >= Cardinality(Target)

\* From the search for the UART on, a target that was started has one, and what
\* a target has is no longer in the pool.
Served ==
    /\ \A t \in Target : pc[t] \in {"gdb", "connect", "load", "boot"} => uart[t] # NoBoard
    /\ \A t \in Target : uart[t] \notin uartPool

\* Who is inside the region holds the lock, and who holds it is inside.  Only a
\* search that was resumed after a reload is without it, and then the start
\* inside the reload got the target its UART.
Locked ==
    /\ \A t \in Target : pc[t] \in Protected \ {"search"} => openocdLock = t
    /\ \A t \in Target : pc[t] = "search" =>
         openocdLock = t \/ uart[t] # NoBoard
    /\ \A t \in Target : openocdLock = t => pc[t] \in Protected

\* activateEthernet counts up to the limit and then goes on: the type of
\* ntkRetries depends on where the thread is.
NtkBounded == \A t \in Target : pc[t] # "booted" => ntkRetries[t] < NtkRetriesMax

Step(t) == Programs(t) \/ Starts(t) \/ Resets(t)

------------------------------------------------------------------------------
(* Types                                                                   *)

LEMMA LimitTypes ==
    /\ StartRetriesMax \in Nat /\ StartRetriesMax > 0
    /\ ProgAttempts \in Nat /\ ProgAttempts > 0
    /\ BootAttemptsMax \in Nat /\ BootAttemptsMax > 0
    /\ NtkRetriesMax \in Nat /\ NtkRetriesMax > 0
    /\ MaxResets \in Nat
    /\ Cardinality(Target) \in Nat
  BY TargetAssumption, SettingsAssumption, FS_CardinalityType

LEMMA ExitType == TypeOK /\ Exit => TypeOK'
  BY DEF Exit, TypeOK, counters, boards, uarts, flash

\* A step of t moves t alone.
LEMMA GotoMoves ==
    ASSUME TypeOK, NEW t \in Target, NEW p, Goto(t, p)
    PROVE  pc'[t] = p /\ \A s \in Target \ {t} : pc'[s] = pc[s]
  BY DEF Goto, TypeOK

LEMMA GotoType ==
    ASSUME TypeOK, NEW t \in Target, NEW p \in Point, Goto(t, p)
    PROVE  pc' \in [Target -> Point]
  BY DEF Goto, TypeOK

\* Reloading puts the frame in front of those that are there ...
LEMMA ReloadStack ==
    ASSUME NEW S, stack \in [Target -> Seq(S)], NEW t \in Target,
           NEW frames \in Seq(S), Reload(t, frames)
    PROVE  stack' \in [Target -> Seq(S)]
<1>1. frames \o stack[t] \in Seq(S)
  BY ConcatProperties
<1> QED
  BY <1>1 DEF Reload

\* ... and returning takes the first one off, and goes there.
LEMMA ReturnStack ==
    ASSUME NEW S, stack \in [Target -> Seq(S)], NEW t \in Target, Return(t)
    PROVE  /\ stack' \in [Target -> Seq(S)]
           /\ \E p \in S \cup {"network", "booted"} : Goto(t, p)
<1>1. CASE stack[t] = <<>>
  <2>1. /\ Goto(t, IF NetworkCheck THEN "network" ELSE "booted")
        /\ stack' = stack
    BY <1>1 DEF Return
  <2>2. (IF NetworkCheck THEN "network" ELSE "booted") \in {"network", "booted"}
    OBVIOUS
  <2> QED
    BY <2>1, <2>2
<1>2. CASE stack[t] # <<>>
  <2>1. /\ Goto(t, Head(stack[t]))
        /\ stack' = [stack EXCEPT ![t] = Tail(stack[t])]
    BY <1>2 DEF Return
  <2>2. Head(stack[t]) \in S /\ Tail(stack[t]) \in Seq(S)
    BY <1>2, HeadTailProperties
  <2> QED
    BY <2>1, <2>2
<1> QED
  BY <1>1, <1>2

LEMMA InitType == Init => TypeOK
<1> SUFFICES ASSUME Init PROVE TypeOK
  OBVIOUS
<1> USE LimitTypes, TargetAssumption DEF Init
<1>1. /\ openocdLock \in Target \cup {Nobody}
      /\ pc \in [Target -> Point]
      /\ stack \in [Target -> Seq(Frame)]
  BY DEF Point, Acquiring
<1>2. /\ startRetries \in [Target -> 0 .. StartRetriesMax]
      /\ attempts \in [Target -> 0 .. ProgAttempts - 1]
      /\ bootAttempts \in [Target -> 0 .. BootAttemptsMax - 1]
      /\ ntkRetries \in [Target -> 0 .. NtkRetriesMax]
  <2>1. /\ 0 \in 0 .. StartRetriesMax /\ 0 \in 0 .. NtkRetriesMax
        /\ 0 \in 0 .. BootAttemptsMax - 1
        /\ ProgAttempts - 1 \in 0 .. ProgAttempts - 1
    OBVIOUS
  <2> QED
    BY <2>1
<1>3. /\ hwTarget \in [Target -> Board \cup {NoBoard}]
      /\ hwPool \subseteq Board
      /\ uart \in [Target -> Board \cup {NoBoard}]
      /\ uartPool \subseteq Board
      /\ uartHwIdMap \in [Board -> Board \cup {NoBoard}]
  OBVIOUS
<1>4. flashCount \in Nat /\ resets \in 0 .. MaxResets
  OBVIOUS
<1>5. flashEvent \in BOOLEAN /\ exited \in BOOLEAN /\ banner \in [Target -> BOOLEAN]
  <2>1. FALSE \in BOOLEAN
    OBVIOUS
  <2> QED
    BY <2>1, Zenon
<1> QED
  BY <1>1, <1>2, <1>3, <1>4, <1>5 DEF TypeOK

LEMMA ProgramsType ==
    ASSUME TypeOK, NEW t \in Target, Programs(t)
    PROVE  TypeOK'
<1> USE LimitTypes
<1>1. CASE PrepareAcquires(t)
  BY <1>1 DEF PrepareAcquires, At, Acquire, Goto, TypeOK, Point, Protected, counters, boards, uarts, flash
<1>2. CASE Prepares(t)
  <2>1. CASE hwTarget[t] = NoBoard /\ ~Exit
    <3>1. PICK b \in hwPool : /\ hwTarget' = [hwTarget EXCEPT ![t] = b]
                              /\ hwPool' = hwPool \ {b}
      BY <1>2, <2>1 DEF Prepares
    <3> QED
      BY <1>2, <2>1, <3>1 DEF Prepares, Release, Goto, TypeOK, Point, Acquiring, counters, uarts, flash
  <2>2. CASE hwTarget[t] # NoBoard
    BY <1>2, <2>2 DEF Prepares, Release, Goto, TypeOK, Point, Acquiring, counters, boards, uarts, flash
  <2> QED
    BY <2>1, <2>2, ExitType
<1>3. CASE ChecksUartKnown(t)
  BY <1>3 DEF ChecksUartKnown, At, Goto, Exit, TypeOK, Point, Protected, Acquiring, counters, boards, uarts, flash
<1>4. CASE ProgramAcquires(t)
  BY <1>4 DEF ProgramAcquires, At, Acquire, Goto, TypeOK, Point, Protected, counters, boards, uarts, flash
<1>5. CASE ProgramSucceeds(t)
  BY SMTT(60), <1>5 DEF ProgramSucceeds, At, Release, Goto, TypeOK, Point, Protected, Acquiring, counters, boards, uarts, flash
<1>6. CASE ProgramFails(t)
  <2>1. CASE attempts[t] > 0
    <3>1. attempts' = [attempts EXCEPT ![t] = @ - 1]
      BY <1>6, <2>1 DEF ProgramFails
    <3>2. attempts' \in [Target -> 0 .. ProgAttempts - 1]
      BY SMTT(60), <2>1, <3>1 DEF TypeOK
    <3> QED
      BY <1>6, <2>1, <3>2 DEF ProgramFails, Release, Goto, TypeOK, Point, Acquiring, boards, uarts, flash
  <2>2. CASE ~(attempts[t] > 0)
    BY <1>6, <2>2, ExitType DEF ProgramFails
  <2> QED
    BY <2>1, <2>2
<1>7. CASE IncAndCheck(t)
  BY SMTT(60), <1>7 DEF IncAndCheck, At, Goto, TypeOK, Point, Protected, Acquiring, counters, boards, uarts, flash
<1>8. CASE WaitForEverything(t)
  BY <1>8 DEF WaitForEverything, At, Goto, TypeOK, Point, Protected, Acquiring, counters, boards, uarts, flash
<1>9. CASE UserIsReady(t)
  BY <1>9 DEF UserIsReady, At, Goto, TypeOK, Point, Protected, Acquiring, counters, boards, uarts, flash
<1> QED
  BY <1>1, <1>2, <1>3, <1>4, <1>5, <1>6, <1>7, <1>8, <1>9 DEF Programs

\* A failed start that is tried again, at a point where it may be.
LEMMA RetryType ==
    ASSUME TypeOK, NEW t \in Target, NEW frames \in Seq(Frame), Release,
           startRetries[t] < StartRetriesMax, RetryStart(t, frames)
    PROVE  TypeOK'
<1>1. startRetries' \in [Target -> 0 .. StartRetriesMax]
  BY LimitTypes DEF TypeOK, RetryStart
<1>2. stack' \in [Target -> Seq(Frame)]
  BY ReloadStack DEF RetryStart, TypeOK
<1>3. pc' \in [Target -> Point]
  BY DEF RetryStart, Reload, Goto, TypeOK, Point, Acquiring
<1> QED
  BY <1>1, <1>2, <1>3 DEF TypeOK, RetryStart, Release, boards, uarts, flash

LEMMA TakeUartType ==
    ASSUME TypeOK, NEW t \in Target, NEW u \in Board, TakeUart(t, u)
    PROVE  TypeOK'
<1>1. uart' \in [Target -> Board \cup {NoBoard}] /\ uartPool' \subseteq Board
  BY DEF TypeOK, TakeUart
<1>2. uartHwIdMap' \in [Board -> Board \cup {NoBoard}]
  BY DEF TypeOK, TakeUart
<1>3. pc' \in [Target -> Point]
  BY DEF TakeUart, Goto, TypeOK, Point, Protected
<1> QED
  BY <1>1, <1>2, <1>3 DEF TypeOK, TakeUart, counters, boards, flash

\* What SetsUpUart can do: one of the five branches.
LEMMA SetsUpUartCases ==
    ASSUME NEW t \in Target, SetsUpUart(t), TypeOK
    PROVE  \/ Goto(t, "gdb") /\ UNCHANGED <<openocdLock, stack, counters, boards,
                                            uarts, flash, banner, resets, exited>>
           \/ Goto(t, "smoke") /\ UNCHANGED <<openocdLock, stack, counters, boards,
                                              uarts, flash, banner, resets, exited>>
           \/ Exit
           \/ /\ uart[t] = NoBoard
              /\ \E u \in uartPool : /\ uartPool = {u} \/ uartHwIdMap[u] = hwTarget[t]
                                     /\ TakeUart(t, u)
<1>1. CASE \E u \in uartPool : uartPool = {u} /\ TakeUart(t, u) /\ uart[t] = NoBoard
  BY <1>1
<1>2. CASE \E u \in UartKnownFor(t) : /\ uart[t] = NoBoard
                                      /\ IF u \in uartPool THEN TakeUart(t, u) ELSE Exit
  BY <1>2 DEF UartKnownFor
<1> QED
  BY <1>1, <1>2 DEF SetsUpUart

LEMMA StartsType ==
    ASSUME TypeOK, NtkBounded, NEW t \in Target, Starts(t)
    PROVE  TypeOK'
<1> USE LimitTypes
<1>f. <<>> \in Seq(Frame) /\ <<"search">> \in Seq(Frame) /\ <<"boot">> \in Seq(Frame)
      /\ <<"network">> \in Seq(Frame)
  BY DEF Frame
<1>1. CASE StartAcquires(t)
  BY <1>1 DEF StartAcquires, Acquire, Goto, TypeOK, Point, Protected, counters, boards, uarts, flash
<1>2. CASE OpenocdStarts(t)
  BY <1>2 DEF OpenocdStarts, Goto, TypeOK, Point, Protected, counters, boards, uarts, flash
<1>3. CASE OpenocdFails(t)
  <2>1. startRetries[t] < StartRetriesMax - 1 => startRetries[t] < StartRetriesMax
    BY DEF TypeOK
  <2> QED
    BY <1>3, <1>f, <2>1, RetryType, ExitType DEF OpenocdFails
<1>4. CASE SetsUpUart(t)
  <2>1. CASE \E p \in {"gdb", "smoke"} : Goto(t, p) /\ UNCHANGED <<openocdLock, stack,
               counters, boards, uarts, flash, banner, resets, exited>>
    BY <2>1 DEF Goto, TypeOK, Point, Protected, counters, boards, uarts, flash
  <2>2. CASE \E u \in uartPool : TakeUart(t, u)
    BY <2>2, TakeUartType DEF TypeOK
  <2> QED
    BY <1>4, <2>1, <2>2, SetsUpUartCases, ExitType
<1>5. CASE SmokeStarts(t)
  BY <1>5 DEF SmokeStarts, Goto, TypeOK, Point, Protected, counters, boards, uarts, flash
<1>6. CASE SmokeFailsToStart(t)
  BY <1>6, <1>f, RetryType, ExitType DEF SmokeFailsToStart
<1>7. CASE SearchFinds(t)
  BY <1>7, TakeUartType DEF SearchFinds, TypeOK
<1>8. CASE SearchFindsNothing(t)
  BY <1>8, ExitType DEF SearchFindsNothing
<1>9. CASE GdbStarts(t)
  BY <1>9 DEF GdbStarts, Goto, TypeOK, Point, Protected, counters, boards, uarts, flash
<1>10. CASE GdbFails(t)
  BY <1>10, <1>f, RetryType, ExitType DEF GdbFails
<1>11. CASE Connects(t)
  <2>1. CASE Release /\ Goto(t, "load") /\ UNCHANGED <<stack, counters, boards, uarts,
                                                      flash, banner, resets, exited>>
    BY <2>1 DEF Release, Goto, TypeOK, Point, counters, boards, uarts, flash
  <2> QED
    BY <1>11, <2>1, ExitType DEF Connects
<1>12. CASE Loads(t)
  <2>1. CASE ~Exit
    <3>1. PICK seen \in BOOLEAN : banner' = [banner EXCEPT ![t] = seen]
      BY <1>12, <2>1 DEF Loads
    <3>2. banner' \in [Target -> BOOLEAN]
      BY <3>1 DEF TypeOK
    <3> QED
      BY <1>12, <2>1, <3>2 DEF Loads, Goto, TypeOK, Point, Protected, counters, boards, uarts, flash
  <2> QED
    BY <2>1, ExitType
<1>13. CASE ChecksBoot(t)
  <2>1. CASE banner[t] \/ ~BootCheck
    <3>1. banner' = [banner EXCEPT ![t] = FALSE] /\ Return(t)
          /\ UNCHANGED <<openocdLock, counters, boards, uarts, flash, resets, exited>>
      BY <1>13, <2>1 DEF ChecksBoot
    <3>2. banner' \in [Target -> BOOLEAN]
      BY <3>1 DEF TypeOK
    <3>3. stack' \in [Target -> Seq(Frame)] /\ pc' \in [Target -> Point]
      <4>1. PICK p \in Frame \cup {"network", "booted"} : Goto(t, p)
        BY <3>1, ReturnStack DEF TypeOK
      <4>2. p \in Point
        BY <4>1 DEF Frame, Point, Protected
      <4> QED
        BY <3>1, <4>1, <4>2, ReturnStack, GotoType DEF TypeOK
    <3> QED
      BY <3>1, <3>2, <3>3 DEF TypeOK, counters, boards, uarts, flash
  <2>2. CASE ~(banner[t] \/ ~BootCheck) /\ bootAttempts[t] < BootAttemptsMax - 1
    <3>1. bootAttempts' = [bootAttempts EXCEPT ![t] = @ + 1]
      BY <1>13, <2>2 DEF ChecksBoot
    <3>2. bootAttempts[t] + 1 \in 0 .. BootAttemptsMax - 1
      BY SMTT(60), <2>2 DEF TypeOK
    <3>3. bootAttempts' \in [Target -> 0 .. BootAttemptsMax - 1]
      BY <3>1, <3>2 DEF TypeOK
    <3> QED
      BY <1>13, <2>2, <3>3 DEF ChecksBoot, Goto, TypeOK, Point, Acquiring, boards, uarts, flash
  <2>3. CASE ~(banner[t] \/ ~BootCheck) /\ ~(bootAttempts[t] < BootAttemptsMax - 1)
    BY <1>13, <2>3, ExitType DEF ChecksBoot
  <2> QED
    BY <2>1, <2>2, <2>3
<1>14. CASE ChecksNetwork(t)
  <2>1. ntkRetries[t] < NtkRetriesMax
    BY <1>14 DEF ChecksNetwork, At, NtkBounded
  <2>2. CASE ~Exit
    <3>1. ntkRetries' = [ntkRetries EXCEPT ![t] = @ + 1]
      BY <1>14, <2>2 DEF ChecksNetwork
    <3>2. ntkRetries' \in [Target -> 0 .. NtkRetriesMax]
      <4>1. ntkRetries[t] + 1 \in 0 .. NtkRetriesMax
        BY SMTT(60), <2>1 DEF TypeOK
      <4> QED
        BY <3>1, <4>1 DEF TypeOK
    <3>3. CASE Goto(t, "booted") /\ UNCHANGED stack
      BY <1>14, <2>2, <3>2, <3>3 DEF ChecksNetwork, Reload, Goto, TypeOK, Point, boards, uarts, flash
    <3>4. CASE Reload(t, <<"network">>)
      <4>1. stack' \in [Target -> Seq(Frame)]
        BY <1>f, <3>4, ReloadStack DEF TypeOK
      <4>2. pc' \in [Target -> Point]
        BY <3>4 DEF Reload, Goto, TypeOK, Point, Acquiring
      <4> QED
        BY <1>14, <2>2, <3>2, <4>1, <4>2 DEF ChecksNetwork, TypeOK, boards, uarts, flash
    <3> QED
      BY <1>14, <2>2, <3>3, <3>4 DEF ChecksNetwork
  <2> QED
    BY <2>2, ExitType
<1> QED
  BY <1>1, <1>2, <1>3, <1>4, <1>5, <1>6, <1>7, <1>8, <1>9, <1>10, <1>11, <1>12, <1>13, <1>14 DEF Starts
LEMMA ResetsType ==
    ASSUME TypeOK, NEW t \in Target, Resets(t)
    PROVE  TypeOK'
<1> USE LimitTypes
<1>1. /\ startRetries' \in [Target -> 0 .. StartRetriesMax]
      /\ bootAttempts' \in [Target -> 0 .. BootAttemptsMax - 1]
      /\ ntkRetries' \in [Target -> 0 .. NtkRetriesMax]
  <2>1. /\ 0 \in 0 .. StartRetriesMax /\ 0 \in 0 .. NtkRetriesMax
        /\ 0 \in 0 .. BootAttemptsMax - 1
    OBVIOUS
  <2> QED
    BY <2>1 DEF TypeOK, Resets
<1>2. pc' \in [Target -> Point] /\ resets' \in 0 .. MaxResets
  BY DEF TypeOK, Resets, Goto, Point, Acquiring
<1> QED
  BY <1>1, <1>2 DEF TypeOK, Resets, boards, uarts, flash

------------------------------------------------------------------------------
(* What a step of one target leaves alone of the others                    *)

LEMMA RetryOthers ==
    ASSUME TypeOK, NEW t \in Target, NEW frames, RetryStart(t, frames)
    PROVE  /\ \A s \in Target \ {t} : pc'[s] = pc[s]
           /\ pc'[t] = "prepare"
           /\ UNCHANGED <<ntkRetries, hwTarget, uart>>
  BY DEF RetryStart, Reload, Goto, TypeOK, boards, uarts

LEMMA ReturnOthers ==
    ASSUME TypeOK, NEW t \in Target, Return(t)
    PROVE  /\ \A s \in Target \ {t} : pc'[s] = pc[s]
           /\ pc'[t] \in Frame \cup {"booted"}
<1>1. PICK p \in Frame \cup {"network", "booted"} : Goto(t, p)
  BY ReturnStack DEF TypeOK
<1> QED
  BY <1>1, GotoMoves DEF Frame

LEMMA OthersStay ==
    ASSUME TypeOK, NEW t \in Target, Step(t)
    PROVE  \A s \in Target \ {t} :
             /\ pc'[s] = pc[s] /\ ntkRetries'[s] = ntkRetries[s]
             /\ hwTarget'[s] = hwTarget[s] /\ uart'[s] = uart[s]
<1> USE DEF TypeOK, Goto, counters, boards, uarts, Exit
<1>1. CASE Programs(t)
  BY <1>1 DEF Programs, PrepareAcquires, Prepares, ChecksUartKnown, ProgramAcquires,
       ProgramSucceeds, ProgramFails, IncAndCheck, WaitForEverything, UserIsReady
<1>2. CASE Resets(t)
  BY <1>2 DEF Resets
<1>3. CASE OpenocdFails(t) \/ SmokeFailsToStart(t) \/ GdbFails(t)
  BY <1>3, RetryOthers DEF OpenocdFails, SmokeFailsToStart, GdbFails
<1>4. CASE SetsUpUart(t) \/ SearchFinds(t)
  BY <1>4 DEF SetsUpUart, SearchFinds, TakeUart
<1>5. CASE ChecksBoot(t)
  BY <1>5, ReturnOthers DEF ChecksBoot
<1>6. CASE ChecksNetwork(t)
  BY <1>6 DEF ChecksNetwork, Reload
<1>7. CASE StartAcquires(t) \/ OpenocdStarts(t) \/ SmokeStarts(t) \/ GdbStarts(t)
             \/ Connects(t) \/ Loads(t) \/ SearchFindsNothing(t)
  BY <1>7 DEF StartAcquires, OpenocdStarts, SmokeStarts, GdbStarts, Connects, Loads,
       SearchFindsNothing
<1> QED
  BY <1>1, <1>2, <1>3, <1>4, <1>5, <1>6, <1>7 DEF Step, Starts

LEMMA NtkStep ==
    ASSUME TypeOK, NtkBounded, NEW t \in Target, Step(t)
    PROVE  NtkBounded'
<1>1. pc'[t] # "booted" => ntkRetries'[t] < NtkRetriesMax
  <2> USE DEF TypeOK, Goto, counters, Exit, NtkBounded, At
  <2>1. CASE Programs(t)
    BY <2>1 DEF Programs, PrepareAcquires, Prepares, ChecksUartKnown, ProgramAcquires,
         ProgramSucceeds, ProgramFails, IncAndCheck, WaitForEverything, UserIsReady
  <2>2. CASE Resets(t)
    BY <2>2, LimitTypes DEF Resets
  <2>3. CASE OpenocdFails(t) \/ SmokeFailsToStart(t) \/ GdbFails(t)
    BY <2>3, RetryOthers DEF OpenocdFails, SmokeFailsToStart, GdbFails
  <2>4. CASE SetsUpUart(t) \/ SearchFinds(t)
    BY <2>4 DEF SetsUpUart, SearchFinds, TakeUart
  <2>5. CASE ChecksBoot(t)
    BY <2>5, ReturnOthers DEF ChecksBoot
  <2>6. CASE ChecksNetwork(t)
    BY <2>6 DEF ChecksNetwork, Reload
  <2>7. CASE StartAcquires(t) \/ OpenocdStarts(t) \/ SmokeStarts(t) \/ GdbStarts(t)
               \/ Connects(t) \/ Loads(t) \/ SearchFindsNothing(t)
    BY <2>7 DEF StartAcquires, OpenocdStarts, SmokeStarts, GdbStarts, Connects, Loads,
         SearchFindsNothing
  <2> QED
    BY <2>1, <2>2, <2>3, <2>4, <2>5, <2>6, <2>7 DEF Step, Starts
<1> QED
  BY <1>1, OthersStay DEF NtkBounded

LEMMA StepType ==
    ASSUME TypeOK, NtkBounded, [Next]_vars
    PROVE  TypeOK' /\ NtkBounded'
<1>1. CASE \E t \in Target : Step(t)
  BY <1>1, ProgramsType, StartsType, ResetsType, NtkStep DEF Step
<1>2. CASE UNCHANGED vars
  BY <1>2 DEF vars, counters, boards, uarts, flash, TypeOK, NtkBounded
<1> QED
  BY <1>1, <1>2 DEF Next, Stopped, Step

\* The type invariant, with any number of targets and boards and any limits:
\* no index of a retry passes the limit it is compared with.
THEOREM TypeCorrect == Spec => [](TypeOK /\ NtkBounded)
<1>1. Init => TypeOK /\ NtkBounded
  BY InitType, LimitTypes DEF Init, NtkBounded
<1> QED
  BY <1>1, StepType, PTL DEF Spec

------------------------------------------------------------------------------
(* One board each, and its UART                                            *)

\* A step that touches neither boards nor UARTs, of a target that has a board
\* or is about to take one.
LEMMA OwnedSame ==
    ASSUME TypeOK, Owned, NEW t \in Target, UNCHANGED <<boards, uarts>>,
           \A s \in Target \ {t} : pc'[s] = pc[s],
           pc'[t] \in {"prepare", "preparing"} \/ hwTarget[t] # NoBoard
    PROVE  Owned'
  BY DEF Owned, boards, uarts

LEMMA OwnedExit == Owned /\ Exit => Owned'
  BY DEF Owned, Exit, boards, uarts

\* A target without a board takes one that nobody has.
LEMMA OwnedBoard ==
    ASSUME TypeOK, Owned, NEW t \in Target, NEW b \in hwPool, hwTarget[t] = NoBoard,
           hwTarget' = [hwTarget EXCEPT ![t] = b], hwPool' = hwPool \ {b},
           UNCHANGED uarts, \A s \in Target \ {t} : pc'[s] = pc[s]
    PROVE  Owned'
<1>1. /\ hwTarget'[t] = b /\ b # NoBoard
      /\ \A s \in Target \ {t} : hwTarget'[s] = hwTarget[s] /\ hwTarget[s] # b
  BY SMTT(60), TargetAssumption DEF TypeOK, Owned
<1>2. /\ \A s, r \in Target : hwTarget'[s] = hwTarget'[r] /\ hwTarget'[s] # NoBoard
           => s = r
      /\ \A s \in Target : hwTarget'[s] \notin hwPool'
      /\ \A s \in Target : pc'[s] \notin {"prepare", "preparing"} => hwTarget'[s] # NoBoard
  <2>1. \A s, r \in Target : hwTarget'[s] = hwTarget'[r] /\ hwTarget'[s] # NoBoard
           => s = r
    BY <1>1 DEF Owned
  <2>2. \A s \in Target : hwTarget'[s] \notin hwPool'
    BY <1>1 DEF Owned
  <2>3. \A s \in Target : pc'[s] \notin {"prepare", "preparing"} => hwTarget'[s] # NoBoard
    BY <1>1 DEF Owned
  <2> QED
    BY <2>1, <2>2, <2>3
<1>3. \A s \in Target : uart'[s] \in {hwTarget'[s], NoBoard}
  BY <1>1 DEF Owned, uarts
<1>4. /\ \A u \in Board : uartHwIdMap'[u] \in {u, NoBoard}
      /\ \A u \in Board \ uartPool' : \E s \in Target : uart'[s] = u
  BY DEF Owned, uarts
<1> QED
  BY <1>2, <1>3, <1>4 DEF Owned

\* The UART of the target's own board leaves the pool.
LEMMA OwnedUart ==
    ASSUME TypeOK, Owned, NEW t \in Target, hwTarget[t] # NoBoard,
           TakeUart(t, hwTarget[t])
    PROVE  Owned'
<1>1. /\ uart'[t] = hwTarget[t] /\ \A s \in Target \ {t} : uart'[s] = uart[s]
      /\ \A s \in Target \ {t} : pc'[s] = pc[s]
      /\ hwTarget' = hwTarget /\ hwPool' = hwPool
  BY DEF TypeOK, TakeUart, Goto, boards
<1>2. /\ \A s, r \in Target : hwTarget'[s] = hwTarget'[r] /\ hwTarget'[s] # NoBoard
           => s = r
      /\ \A s \in Target : hwTarget'[s] \notin hwPool'
      /\ \A s \in Target : pc'[s] \notin {"prepare", "preparing"} => hwTarget'[s] # NoBoard
  BY <1>1 DEF Owned
<1>3. \A s \in Target : uart'[s] \in {hwTarget'[s], NoBoard}
  BY <1>1 DEF Owned
<1>4. \A u \in Board : uartHwIdMap'[u] \in {u, NoBoard}
  BY DEF Owned, TakeUart, TypeOK
<1>5. \A u \in Board \ uartPool' : \E s \in Target : uart'[s] = u
  <2> SUFFICES ASSUME NEW u \in Board \ uartPool'
               PROVE  \E s \in Target : uart'[s] = u
    OBVIOUS
  <2>1. CASE u = hwTarget[t]
    BY <1>1, <2>1
  <2>2. CASE u # hwTarget[t]
    <3>1. PICK s \in Target : uart[s] = u
      BY <2>2 DEF Owned, TakeUart
    <3>2. u # NoBoard
      BY TargetAssumption
    <3>3. s # t
      BY <2>2, <3>1, <3>2 DEF Owned
    <3> QED
      BY <1>1, <3>1, <3>3
  <2> QED
    BY <2>1, <2>2
<1> QED
  BY <1>2, <1>3, <1>4, <1>5 DEF Owned

\* The UART setupUart takes is the one of the board: the saved associations are
\* right, and the last UART in the pool cannot be another board's.
LEMMA TakesOwnUart ==
    ASSUME TypeOK, Owned, NEW t \in Target, uart[t] = NoBoard, hwTarget[t] # NoBoard,
           NEW u \in uartPool, uartPool = {u} \/ uartHwIdMap[u] = hwTarget[t]
    PROVE  u = hwTarget[t]
<1>1. CASE uartHwIdMap[u] = hwTarget[t]
  BY <1>1 DEF Owned, TypeOK
<1>2. CASE uartPool = {u} /\ hwTarget[t] # u
  <2>1. hwTarget[t] \in Board \ uartPool
    BY <1>2 DEF TypeOK
  <2>2. PICK s \in Target : uart[s] = hwTarget[t]
    BY <2>1 DEF Owned
  <2>3. hwTarget[s] = hwTarget[t]
    BY <2>2 DEF Owned
  <2>4. s = t
    BY <2>3 DEF Owned
  <2> QED
    BY <2>2, <2>4
<1> QED
  BY <1>1, <1>2

LEMMA OwnedStep ==
    ASSUME TypeOK, Owned, NEW t \in Target, Step(t)
    PROVE  Owned'
<1>0. \A s \in Target \ {t} : pc'[s] = pc[s]
  BY OthersStay
<1>1. CASE Exit
  BY <1>1, OwnedExit
<1>2. CASE Prepares(t) /\ ~Exit
  <2>1. CASE hwTarget[t] = NoBoard
    BY <1>0, <1>2, <2>1, OwnedBoard DEF Prepares, uarts
  <2>2. CASE hwTarget[t] # NoBoard
    BY <1>0, <1>2, <2>2, OwnedSame DEF Prepares
  <2> QED
    BY <2>1, <2>2
<1>3. CASE SetsUpUart(t) /\ ~Exit
  <2>1. hwTarget[t] # NoBoard
    BY <1>3 DEF SetsUpUart, At, Owned
  <2>2. CASE UNCHANGED <<boards, uarts>>
    BY <1>0, <2>1, <2>2, OwnedSame
  <2>3. CASE ~UNCHANGED <<boards, uarts>>
    <3>1. /\ uart[t] = NoBoard
          /\ \E u \in uartPool : /\ uartPool = {u} \/ uartHwIdMap[u] = hwTarget[t]
                                 /\ TakeUart(t, u)
      BY <1>3, <2>3, SetsUpUartCases
    <3> QED
      BY <2>1, <3>1, TakesOwnUart, OwnedUart
  <2> QED
    BY <2>2, <2>3
<1>4. CASE SearchFinds(t)
  <2>1. hwTarget[t] # NoBoard
    BY <1>4 DEF SearchFinds, At, Owned
  <2> QED
    BY <1>4, <2>1, OwnedUart DEF SearchFinds
<1>5. CASE ~Exit /\ ~Prepares(t) /\ ~SetsUpUart(t) /\ ~SearchFinds(t)
  <2>1. CASE PrepareAcquires(t)
    <3>1. pc'[t] = "preparing" /\ UNCHANGED <<boards, uarts>>
      BY <2>1 DEF PrepareAcquires, Goto, TypeOK
    <3> QED
      BY <1>0, <3>1, OwnedSame
  <2>2. CASE ~PrepareAcquires(t)
    <3>1. pc[t] \notin {"prepare", "preparing"} /\ UNCHANGED <<boards, uarts>>
      <4>1. CASE Programs(t)
        BY <1>5, <2>2, <4>1 DEF Programs, ChecksUartKnown, ProgramAcquires,
             ProgramSucceeds, ProgramFails, IncAndCheck, WaitForEverything, UserIsReady, At
      <4>2. CASE Resets(t)
        BY <4>2 DEF Resets, At
      <4>3. CASE Starts(t)
        BY <1>5, <4>3 DEF Starts, StartAcquires, OpenocdStarts, OpenocdFails, SmokeStarts,
             SmokeFailsToStart, SearchFindsNothing, GdbStarts, GdbFails, Connects, Loads,
             ChecksBoot, ChecksNetwork, RetryStart, At
      <4> QED
        BY <4>1, <4>2, <4>3 DEF Step
    <3>2. hwTarget[t] # NoBoard
      BY <3>1 DEF Owned
    <3> QED
      BY <1>0, <3>1, <3>2, OwnedSame
  <2> QED
    BY <2>1, <2>2
<1> QED
  BY <1>1, <1>2, <1>3, <1>4, <1>5

LEMMA OwnedInit == Init => Owned
  BY TargetAssumption DEF Init, Owned

\* Two targets never drive the same board and each uses its board's UART, with
\* any number of boards plugged in and any associations saved.
THEOREM OwnBoardOwnUartCorrect == Spec => []OwnBoardOwnUart
<1>1. Init => Owned
  BY OwnedInit
<1>2. TypeOK /\ NtkBounded /\ Owned /\ [Next]_vars => Owned'
  <2>1. CASE \E t \in Target : Step(t)
    BY <2>1, OwnedStep
  <2>2. CASE UNCHANGED vars
    BY <2>2 DEF vars, boards, uarts, Owned
  <2> QED
    BY <2>1, <2>2 DEF Next, Stopped, Step
<1>3. Owned => OwnBoardOwnUart
  BY DEF Owned, OwnBoardOwnUart
<1> QED
  BY <1>1, <1>2, <1>3, TypeCorrect, PTL DEF Spec

------------------------------------------------------------------------------
(* Nobody starts before the power cycle                                    *)

LEMMA FlashStays ==
    ASSUME NEW t \in Target, Step(t), ~IncAndCheck(t), ~UserIsReady(t)
    PROVE  UNCHANGED flash
<1> USE DEF flash, Exit
<1>1. CASE Programs(t)
  BY <1>1 DEF Programs, PrepareAcquires, Prepares, ChecksUartKnown, ProgramAcquires,
       ProgramSucceeds, ProgramFails, WaitForEverything
<1>2. CASE Resets(t)
  BY <1>2 DEF Resets
<1>3. CASE SetsUpUart(t) \/ SearchFinds(t)
  BY <1>3 DEF SetsUpUart, SearchFinds, TakeUart
<1>4. CASE OpenocdFails(t) \/ SmokeFailsToStart(t) \/ GdbFails(t)
  BY <1>4 DEF OpenocdFails, SmokeFailsToStart, GdbFails, RetryStart
<1>5. CASE StartAcquires(t) \/ OpenocdStarts(t) \/ SmokeStarts(t) \/ GdbStarts(t)
           \/ SearchFindsNothing(t)
  BY <1>5 DEF StartAcquires, OpenocdStarts, SmokeStarts, GdbStarts, SearchFindsNothing
<1>6. CASE Connects(t) \/ Loads(t) \/ ChecksBoot(t) \/ ChecksNetwork(t)
  BY <1>6 DEF Connects, Loads, ChecksBoot, ChecksNetwork
<1> QED
  BY <1>1, <1>2, <1>3, <1>4, <1>5, <1>6 DEF Step, Starts

LEMMA CycledStep ==
    ASSUME TypeOK, Cycled, Mode = "flashProgramAndBoot", NEW t \in Target, Step(t)
    PROVE  Cycled'
<1>1. \A s \in Target \ {t} : pc'[s] = pc[s]
  BY OthersStay
<1>2. flashCount' >= flashCount /\ (flashEvent => flashEvent')
  <2>1. CASE IncAndCheck(t)
    BY <2>1 DEF IncAndCheck, TypeOK
  <2>2. CASE UserIsReady(t)
    BY <2>2 DEF UserIsReady, TypeOK
  <2>3. CASE ~IncAndCheck(t) /\ ~UserIsReady(t)
    BY <2>3, FlashStays DEF TypeOK, flash
  <2> QED
    BY <2>1, <2>2, <2>3
<1>3. pc'[t] \in Started => flashEvent'
  <2> USE DEF Cycled, Started, TypeOK, Goto, At, flash, Exit
  <2>1. CASE Programs(t)
    BY <2>1 DEF Programs, PrepareAcquires, Prepares, ChecksUartKnown, ProgramAcquires,
         ProgramSucceeds, ProgramFails, IncAndCheck, WaitForEverything, UserIsReady
  <2>2. CASE Starts(t) \/ Resets(t)
    <3>1. pc[t] \in Started
      BY <2>2 DEF Starts, Resets, StartAcquires, OpenocdStarts, OpenocdFails, SetsUpUart,
           SmokeStarts, SmokeFailsToStart, SearchFinds, SearchFindsNothing, GdbStarts,
           GdbFails, Connects, Loads, ChecksBoot, ChecksNetwork
    <3> QED
      BY <1>2, <3>1
  <2> QED
    BY <2>1, <2>2 DEF Step
<1>4. pc'[t] = "askUser" =>
        \/ flashCount' = Cardinality(Target)
        \/ pc[t] = "askUser"
  <2> USE DEF Goto, TypeOK, Exit
  <2>1. CASE Programs(t)
    BY <2>1 DEF Programs, PrepareAcquires, Prepares, ChecksUartKnown, ProgramAcquires,
         ProgramSucceeds, ProgramFails, IncAndCheck, WaitForEverything, UserIsReady
  <2>2. CASE Starts(t) \/ Resets(t)
    <3>1. pc[t] \in Started
      BY <2>2 DEF Starts, Resets, StartAcquires, OpenocdStarts, OpenocdFails, SetsUpUart,
           SmokeStarts, SmokeFailsToStart, SearchFinds, SearchFindsNothing, GdbStarts,
           GdbFails, Connects, Loads, ChecksBoot, ChecksNetwork, At, Started
    <3>2. CASE Resets(t)
      BY <3>2 DEF Resets
    <3>3. CASE OpenocdFails(t) \/ SmokeFailsToStart(t) \/ GdbFails(t)
      BY <3>3, RetryOthers DEF OpenocdFails, SmokeFailsToStart, GdbFails
    <3>4. CASE SetsUpUart(t) \/ SearchFinds(t)
      BY <3>4 DEF SetsUpUart, SearchFinds, TakeUart
    <3>5. CASE ChecksBoot(t)
      BY <3>5, ReturnOthers DEF ChecksBoot, Frame
    <3>6. CASE ChecksNetwork(t)
      BY <3>6 DEF ChecksNetwork, Reload
    <3>7. CASE StartAcquires(t) \/ OpenocdStarts(t) \/ SmokeStarts(t) \/ GdbStarts(t)
                 \/ Connects(t) \/ Loads(t) \/ SearchFindsNothing(t)
      BY <3>7 DEF StartAcquires, OpenocdStarts, SmokeStarts, GdbStarts, Connects, Loads,
           SearchFindsNothing
    <3> QED
      BY <2>2, <3>2, <3>3, <3>4, <3>5, <3>6, <3>7 DEF Starts
  <2> QED
    BY <2>1, <2>2 DEF Step
\* The event is set at "askUser", where the count is complete.
<1>5. flashEvent' => flashEvent \/ pc[t] = "askUser"
  <2>1. CASE UserIsReady(t)
    BY <2>1 DEF UserIsReady, At
  <2>2. CASE IncAndCheck(t)
    BY <2>2 DEF IncAndCheck
  <2>3. CASE ~IncAndCheck(t) /\ ~UserIsReady(t)
    BY <2>3, FlashStays DEF flash
  <2> QED
    BY <2>1, <2>2, <2>3
<1>6. /\ \A s \in Target : pc'[s] = "askUser" => flashCount' >= Cardinality(Target)
      /\ flashEvent' => flashCount' >= Cardinality(Target)
  <2>1. flashCount \in Nat /\ flashCount' \in Nat /\ Cardinality(Target) \in Nat
    <3>1. CASE IncAndCheck(t)
      BY <3>1, LimitTypes DEF IncAndCheck, TypeOK
    <3>2. CASE UserIsReady(t)
      BY <3>2, LimitTypes DEF UserIsReady, TypeOK
    <3> QED
      BY <3>1, <3>2, FlashStays, LimitTypes DEF flash, TypeOK
  <2>2. flashCount >= Cardinality(Target) => flashCount' >= Cardinality(Target)
    BY <1>2, <2>1
  <2>3. ASSUME NEW s \in Target, pc'[s] = "askUser"
        PROVE  flashCount' >= Cardinality(Target)
    <3>1. CASE pc[s] = "askUser"
      BY <2>2, <3>1 DEF Cycled
    <3>2. CASE pc[s] # "askUser"
      BY <1>1, <1>4, <2>1, <2>3, <3>2
    <3> QED
      BY <3>1, <3>2
  <2>4. ASSUME flashEvent' PROVE flashCount' >= Cardinality(Target)
    BY <1>5, <2>2, <2>4 DEF Cycled
  <2> QED
    BY <2>3, <2>4
<1> QED
  <2>1. \A s \in Target : pc'[s] \in Started => flashEvent'
    BY <1>1, <1>2, <1>3 DEF Cycled
  <2> QED
    BY <1>6, <2>1 DEF Cycled

\* In flashProgramAndBoot, whatever is retried or reset, nobody starts before
\* every target was programmed and the user power cycled the boards.
THEOREM StartsAfterPowerCycleCorrect == Spec => []StartsAfterPowerCycle
<1>1. CASE Mode = "flashProgramAndBoot"
  <2>1. Init => Cycled
    BY DEF Init, Cycled, Started
  <2>2. TypeOK /\ NtkBounded /\ Cycled /\ [Next]_vars => Cycled'
    <3>1. CASE \E t \in Target : Step(t)
      BY <1>1, <3>1, CycledStep
    <3>2. CASE UNCHANGED vars
      BY <3>2 DEF vars, flash, Cycled
    <3> QED
      BY <3>1, <3>2 DEF Next, Stopped, Step
  <2>3. Cycled => StartsAfterPowerCycle
    BY DEF Cycled, StartsAfterPowerCycle, Started
  <2> QED
    BY <2>1, <2>2, <2>3, TypeCorrect, PTL DEF Spec
<1>2. CASE Mode # "flashProgramAndBoot"
  <2>1. StartsAfterPowerCycle
    BY <1>2 DEF StartsAfterPowerCycle
  <2> QED
    BY <2>1, PTL
<1> QED
  BY <1>1, <1>2

------------------------------------------------------------------------------
(* Who has a UART                                                          *)

LEMMA ServedStep ==
    ASSUME TypeOK, Served, NEW t \in Target, Step(t)
    PROVE  Served'
<1>1. \A s \in Target \ {t} : pc'[s] = pc[s] /\ uart'[s] = uart[s]
  BY OthersStay
<1>2. CASE UNCHANGED uarts /\ pc'[t] \notin {"gdb", "connect", "load", "boot"}
  BY <1>1, <1>2 DEF Served, uarts
<1>3. CASE UNCHANGED uarts /\ uart[t] # NoBoard
  BY <1>1, <1>3 DEF Served, uarts
<1>4. CASE Exit
  BY <1>4 DEF Exit, Served, uarts
<1>5. ASSUME NEW u \in uartPool, TakeUart(t, u)
      PROVE  Served'
  <2>1. uart'[t] = u /\ uartPool' = uartPool \ {u} /\ u # NoBoard
    BY <1>5, TargetAssumption DEF TakeUart, TypeOK
  <2> QED
    BY <1>1, <2>1 DEF Served
<1>6. CASE Programs(t)
  <2>1. CASE ~Exit
    <3>1. UNCHANGED uarts /\ pc'[t] \notin {"gdb", "connect", "load", "boot"}
      BY <1>6, <2>1 DEF Programs, PrepareAcquires, Prepares, ChecksUartKnown,
           ProgramAcquires, ProgramSucceeds, ProgramFails, IncAndCheck, WaitForEverything,
           UserIsReady, Goto, TypeOK
    <3> QED
      BY <1>2, <3>1
  <2> QED
    BY <1>4, <2>1
<1>7. CASE Resets(t)
  BY <1>2, <1>7 DEF Resets, Goto, TypeOK
<1>8. CASE SetsUpUart(t)
  <2>1. CASE Goto(t, "gdb") /\ UNCHANGED uarts
    <3>1. uart[t] # NoBoard \/ \E u \in uartPool : TakeUart(t, u)
      BY <1>8, <2>1 DEF SetsUpUart, UartKnownFor, Exit, Goto, TypeOK, At
    <3> QED
      BY <1>3, <1>5, <2>1, <3>1
  <2>2. CASE Goto(t, "smoke") /\ UNCHANGED uarts
    BY <1>2, <2>2, GotoMoves
  <2> QED
    BY <1>4, <1>5, <1>8, <2>1, <2>2, SetsUpUartCases
<1>9. CASE SearchFinds(t)
  BY <1>5, <1>9 DEF SearchFinds
<1>10. CASE OpenocdFails(t) \/ SmokeFailsToStart(t) \/ GdbFails(t)
  <2>1. CASE ~Exit
    <3>1. UNCHANGED uarts /\ pc'[t] = "prepare"
      BY <1>10, <2>1, RetryOthers DEF OpenocdFails, SmokeFailsToStart, GdbFails, RetryStart
    <3> QED
      BY <1>2, <3>1
  <2> QED
    BY <1>4, <2>1
<1>11. CASE StartAcquires(t) \/ OpenocdStarts(t) \/ SmokeStarts(t)
  BY <1>2, <1>11 DEF StartAcquires, OpenocdStarts, SmokeStarts, Goto, TypeOK
<1>12. CASE GdbStarts(t) \/ Connects(t) \/ Loads(t) \/ ChecksBoot(t)
  <2>1. uart[t] # NoBoard
    BY <1>12 DEF GdbStarts, Connects, Loads, ChecksBoot, At, Served
  <2>2. CASE ~Exit
    <3>1. UNCHANGED uarts
      BY <1>12, <2>2 DEF GdbStarts, Connects, Loads, ChecksBoot
    <3> QED
      BY <1>3, <2>1, <3>1
  <2> QED
    BY <1>4, <2>2
<1>13. CASE ChecksNetwork(t)
  <2>1. CASE ~Exit
    <3>1. UNCHANGED uarts /\ pc'[t] \in {"booted", "prepare"}
      BY <1>13, <2>1 DEF ChecksNetwork, Reload, Goto, TypeOK
    <3> QED
      BY <1>2, <3>1
  <2> QED
    BY <1>4, <2>1
<1> QED
  BY <1>4, <1>6, <1>7, <1>8, <1>9, <1>10, <1>11, <1>12, <1>13
     DEF Step, Starts, SearchFindsNothing

LEMMA ServedInit == Init => Served
  BY TargetAssumption DEF Init, Served

------------------------------------------------------------------------------
(* openocdLock                                                             *)

\* What is left alone of the others: openocdLock is the only thing they share.
Others(t) == \A s \in Target \ {t} : pc'[s] = pc[s] /\ uart'[s] = uart[s]

LEMMA LockedRetry ==
    ASSUME TypeOK, Locked, NEW t \in Target, openocdLock = t, Release, Others(t),
           NEW frames, RetryStart(t, frames)
    PROVE  Locked'
<1>1. pc'[t] = "prepare"
  BY RetryOthers
<1>2. openocdLock' = Nobody /\ Nobody \notin Target
  BY TargetAssumption DEF Release
<1> QED
  BY <1>1, <1>2 DEF Locked, Others, Protected

\* A step with no effect on the lock, within the region or outside of it.
LEMMA LockedInside ==
    ASSUME TypeOK, Locked, NEW t \in Target, UNCHANGED openocdLock, Others(t),
           openocdLock = t, pc'[t] \in Protected
    PROVE  Locked'
  BY DEF Locked, Others

LEMMA LockedOutside ==
    ASSUME TypeOK, Locked, NEW t \in Target, UNCHANGED openocdLock, Others(t),
           pc[t] \notin Protected, pc'[t] \notin Protected
    PROVE  Locked'
  BY DEF Locked, Others, Protected

\* Returning to a search is entering the region without the lock.
LEMMA LockedResume ==
    ASSUME TypeOK, Locked, NEW t \in Target, UNCHANGED <<openocdLock, uart>>, Others(t),
           pc[t] \notin Protected, pc'[t] = "search", uart[t] # NoBoard
    PROVE  Locked'
  BY DEF Locked, Others

\* Taking the lock is entering the region, releasing it is leaving.
LEMMA LockedTake ==
    ASSUME TypeOK, Locked, NEW t \in Target, Acquire(t), Others(t),
           pc'[t] \in Protected
    PROVE  Locked'
  BY TargetAssumption DEF Locked, Acquire, Others

LEMMA LockedGive ==
    ASSUME TypeOK, Locked, NEW t \in Target, Release, openocdLock = t, Others(t),
           pc'[t] \notin Protected
    PROVE  Locked'
  BY TargetAssumption DEF Locked, Release, Others, Protected

LEMMA LockedExit == Locked /\ Exit => Locked'
  BY DEF Locked, Exit, uarts

LEMMA LockedPrograms ==
    ASSUME TypeOK, Locked, NEW t \in Target, Programs(t)
    PROVE  Locked'
<1>1. Others(t)
  BY OthersStay DEF Step, Others
<1>2. pc[t] \in Protected \ {"search"} => openocdLock = t
  BY DEF Locked
<1>3. CASE PrepareAcquires(t) \/ ProgramAcquires(t)
  <2>1. Acquire(t) /\ pc'[t] \in Protected
    BY <1>3 DEF PrepareAcquires, ProgramAcquires, Goto, Protected, TypeOK
  <2> QED
    BY <1>1, <2>1, LockedTake
<1>4. CASE (Prepares(t) \/ ProgramSucceeds(t) \/ ProgramFails(t)) /\ ~Exit
  <2>1. Release /\ pc'[t] \notin Protected
        /\ pc[t] \in Protected \ {"search"}
    BY <1>4 DEF Prepares, ProgramSucceeds, ProgramFails, Goto, Protected, TypeOK, At
  <2> QED
    BY <1>1, <1>2, <2>1, LockedGive
<1>5. CASE (ChecksUartKnown(t) \/ IncAndCheck(t) \/ WaitForEverything(t) \/ UserIsReady(t))
             /\ ~Exit
  <2>1. pc'[t] \notin Protected /\ pc[t] \notin Protected
        /\ UNCHANGED openocdLock
    BY <1>5 DEF ChecksUartKnown, IncAndCheck, WaitForEverything, UserIsReady, Goto,
         Protected, TypeOK, At
  <2> QED
    BY <1>1, <2>1, LockedOutside
<1> QED
  BY <1>3, <1>4, <1>5, LockedExit DEF Programs

LEMMA LockedStarts ==
    ASSUME TypeOK, Owned, Served, Locked, NEW t \in Target, Starts(t)
    PROVE  Locked'
<1>1. Others(t)
  BY OthersStay DEF Step, Others
<1>2. pc[t] \in Protected \ {"search"} => openocdLock = t
  BY DEF Locked
<1>3. CASE StartAcquires(t)
  <2>1. Acquire(t) /\ pc'[t] \in Protected
    BY <1>3 DEF StartAcquires, Goto, Protected, TypeOK
  <2> QED
    BY <1>1, <2>1, LockedTake
<1>4. CASE (OpenocdFails(t) \/ GdbFails(t) \/ SmokeFailsToStart(t)) /\ ~Exit
  <2>1. openocdLock = t
    BY <1>2, <1>4 DEF OpenocdFails, GdbFails, SmokeFailsToStart, At, Protected
  <2> QED
    BY <1>1, <1>4, <2>1, LockedRetry DEF OpenocdFails, GdbFails, SmokeFailsToStart
<1>5. CASE (OpenocdStarts(t) \/ SmokeStarts(t) \/ GdbStarts(t))
  <2>1. pc'[t] \in Protected /\ pc[t] \in Protected \ {"search"}
        /\ UNCHANGED openocdLock
    BY <1>5 DEF OpenocdStarts, SmokeStarts, GdbStarts, Goto, Protected, TypeOK, At
  <2> QED
    BY <1>1, <1>2, <2>1, LockedInside
<1>6. CASE SetsUpUart(t) /\ ~Exit
  <2>1. pc'[t] \in Protected /\ pc[t] \in Protected \ {"search"}
        /\ UNCHANGED openocdLock
    BY <1>6 DEF SetsUpUart, TakeUart, Goto, Protected, TypeOK, At
  <2> QED
    BY <1>1, <1>2, <2>1, LockedInside
\* A search that lost the lock finds nothing: the UART is the target's already.
<1>7. CASE SearchFinds(t)
  <2>1. pc'[t] \in Protected /\ UNCHANGED openocdLock
    BY <1>7 DEF SearchFinds, TakeUart, Goto, Protected, TypeOK
  <2>2. uart[t] = NoBoard
    BY <1>7 DEF SearchFinds, Owned, Served
  <2>3. openocdLock = t
    BY <1>7, <2>2 DEF SearchFinds, At, Locked
  <2> QED
    BY <1>1, <2>1, <2>3, LockedInside
<1>8. CASE Connects(t) /\ ~Exit
  <2>1. Release /\ pc'[t] \notin Protected
        /\ pc[t] \in Protected \ {"search"}
    BY <1>8 DEF Connects, Goto, Protected, TypeOK, At
  <2> QED
    BY <1>1, <1>2, <2>1, LockedGive
<1>9. CASE Loads(t) /\ ~Exit
  <2>1. pc'[t] \notin Protected /\ pc[t] \notin Protected
        /\ UNCHANGED openocdLock
    BY <1>9 DEF Loads, Goto, Protected, TypeOK, At
  <2> QED
    BY <1>1, <2>1, LockedOutside
<1>10. CASE ChecksBoot(t) /\ ~Exit
  <2>1. pc[t] \notin Protected /\ UNCHANGED <<openocdLock, uart>> /\ uart[t] # NoBoard
    BY <1>10 DEF ChecksBoot, At, Protected, uarts, Served
  <2>2. CASE Return(t)
    <3>1. pc'[t] \in Frame \cup {"booted"}
      BY <2>2, ReturnOthers
    <3>2. CASE pc'[t] = "search"
      BY <1>1, <2>1, <3>2, LockedResume
    <3>3. CASE pc'[t] # "search"
      BY <1>1, <2>1, <3>1, <3>3, LockedOutside DEF Frame, Protected
    <3> QED
      BY <3>2, <3>3
  <2>3. CASE Goto(t, "start")
    <3>1. pc'[t] \notin Protected
      BY <2>3, GotoMoves DEF Protected
    <3> QED
      BY <1>1, <2>1, <2>3, <3>1, LockedOutside
  <2> QED
    BY <1>10, <2>2, <2>3 DEF ChecksBoot
<1>11. CASE ChecksNetwork(t) /\ ~Exit
  <2>1. pc[t] \notin Protected /\ UNCHANGED openocdLock
    BY <1>11 DEF ChecksNetwork, At, Protected
  <2>2. pc'[t] \notin Protected
    BY <1>11 DEF ChecksNetwork, Reload, Goto, TypeOK, Protected
  <2> QED
    BY <1>1, <2>1, <2>2, LockedOutside
<1> QED
  BY <1>3, <1>4, <1>5, <1>6, <1>7, <1>8, <1>9, <1>10, <1>11, LockedExit
     DEF Starts, SearchFindsNothing

LEMMA LockedResets ==
    ASSUME TypeOK, Locked, NEW t \in Target, Resets(t)
    PROVE  Locked'
<1>1. Others(t)
  BY OthersStay DEF Step, Others
<1>2. pc'[t] \notin Protected /\ pc[t] \notin Protected
      /\ UNCHANGED openocdLock
  BY DEF Resets, Goto, At, Protected, TypeOK
<1> QED
  BY <1>1, <1>2, LockedOutside

\* openocdLock is held exactly by the target that is inside the region, a search
\* resumed after a reload aside.
THEOREM LockedCorrect == Spec => []Locked
<1>1. Init => Owned /\ Served /\ Locked
  <2>1. Init => Locked
    BY TargetAssumption DEF Init, Locked, Protected
  <2> QED
    BY <2>1, OwnedInit, ServedInit
<1>2. TypeOK /\ NtkBounded /\ Owned /\ Served /\ Locked /\ [Next]_vars
        => Owned' /\ Served' /\ Locked'
  <2>1. CASE \E t \in Target : Step(t)
    BY <2>1, OwnedStep, ServedStep, LockedPrograms, LockedStarts, LockedResets DEF Step
  <2>2. CASE UNCHANGED vars
    BY <2>2 DEF vars, boards, uarts, Owned, Served, Locked
  <2> QED
    BY <2>1, <2>2 DEF Next, Stopped, Step
<1> QED
  BY <1>1, <1>2, TypeCorrect, PTL DEF Spec

\* On every path of failed starts and reloads, a thread that is about to take
\* openocdLock does not hold it.
THEOREM NeverSelfLocksCorrect == Spec => []NeverSelfLocks
<1>1. Locked => NeverSelfLocks
  BY DEF Locked, NeverSelfLocks
<1> QED
  BY <1>1, LockedCorrect, PTL

\* Two targets never program a board, start openocd, look for a UART or connect
\* gdb at the same time, whatever fails and however often it is retried, but for
\* a search that was resumed without the lock: it finds nothing, since the UART
\* it looks for is the target's already, and gives nothing back.
THEOREM LockProtectsCorrect == Spec => []LockProtects
<1>1. Init => Owned /\ Served
  BY OwnedInit, ServedInit
<1>2. TypeOK /\ NtkBounded /\ Owned /\ Served /\ [Next]_vars => Owned' /\ Served'
  <2>1. CASE \E t \in Target : Step(t)
    BY <2>1, OwnedStep, ServedStep DEF Step
  <2>2. CASE UNCHANGED vars
    BY <2>2 DEF vars, boards, uarts, Owned, Served
  <2> QED
    BY <2>1, <2>2 DEF Next, Stopped, Step
<1>3. Owned /\ Served /\ Locked => LockProtects
  BY DEF Owned, Served, Locked, LockProtects
<1> QED
  BY <1>1, <1>2, <1>3, LockedCorrect, TypeCorrect, PTL DEF Spec

=============================================================================
