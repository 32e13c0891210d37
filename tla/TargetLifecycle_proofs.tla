----------------------- MODULE TargetLifecycle_proofs ------------------------
(***************************************************************************)
(* The commands of commonTarget call each other, interrupt each other and  *)
(* terminate the tool from wherever they are; that this ends in order is   *)
(* proved here for all limits of the retries (LimitsAssumption) and for any*)
(* interleaving of main with the listeners of sendFile.                    *)
(*                                                                         *)
(* The invariant Inv and its parts are defined in TargetLifecycle_lemmas.  *)
(***************************************************************************)
EXTENDS TargetLifecycle_lemmas

------------------------------------------------------------------------------
(***************************************************************************)
(* The course of the script, action by action.                             *)
(***************************************************************************)

\* Every step of main keeps Course: each call leads to the frames that belong to
\* it only, and it returns with the user and the connection it promised.
LEMMA CourseStep ==
  ASSUME TypeInv, Stacks, Errand, Course, NEW t, t = Main, Step(t)
  PROVE  Course'
<1>0. t \in Thread /\ t \notin Listener
      BY Constants
<1>r. In(t, "er") => isCurrentUserRoot
      BY <1>0, HereIs DEF Errand, main, ErAt
<1> SUFFICES ASSUME ~Lost(stack'[Main])
             PROVE  Course'
    BY CourseOver
<1>h. ~ScriptGoes => HoldsPlace /\ Scripted
      BY <1>r, MainHolds DEF HoldsPlace
<1>1. CASE Sends(t)
  <2>h. HoldsPlace /\ Scripted
    <3>1. ~In(Main, "script")
          BY <1>1 DEF Sends, In
    <3> QED  BY <3>1, <1>h DEF ScriptGoes
  <2>f. isCurrentUserRoot' = isCurrentUserRoot /\ isSshConn' = isSshConn
        BY <1>1 DEF Sends, conn
  <2>1. ASSUME In(t, "send"), Went(t, "expect")
        PROVE  Course'
    <3>1. Within("send")
          BY <2>h, <2>1, WithinIs
    <3>2. /\ OneOn(stack'[t], Moving(t, "expect"), Below(t))
          /\ Moving(t, "expect") \in Frame /\ Moving(t, "expect").at = "expect" /\ Moving(t, "expect").kind = Top(t).kind
          /\ Moving(t, "expect").proc = Top(t).proc /\ Moving(t, "expect").eoe = Top(t).eoe
          BY <1>0, <2>1, WentIs DEF At
    <3>3. Moving(t, "expect") \in Belongs(Nth)
          BY <2>1, <3>1, <3>2 DEF Within, Belongs, Flags, Cmd, CmdAt, KbAt, SfAt, SdAt, TdAt,
             CsAt, OsAt, SelfProcess, Long
    <3>4. Flags'
      <4>1. Stays(t, {"send", "expect"})
            BY <1>0, <2>1, GoStays DEF At
      <4>2. ~Idle'
            BY <3>2, NotIdleYet
      <4> QED  BY <2>h, <2>f, <3>1, <4>1, <4>2, FlagsKeep DEF Marks, OsAt, CsAt
    <3> QED  BY <1>0, <2>h, <2>1, <3>1, <3>3, <3>4, CourseGoes DEF At
  <2>2. ASSUME Ended(t)
        PROVE  Course'
        BY <2>2 DEF Ended
  <2> QED  BY <1>0, <1>1, <2>1, <2>2, SendsMoves
<1>2. CASE Answers(t)
  <2>h. HoldsPlace /\ Scripted
    <3>1. ~In(Main, "script")
          BY <1>2 DEF Answers, In
    <3> QED  BY <3>1, <1>h DEF ScriptGoes
  <2>f. isCurrentUserRoot' = isCurrentUserRoot /\ isSshConn' = isSshConn
        BY <1>2 DEF Answers, conn
  <2>1. ASSUME In(t, "expect"), Returned(t, "ok")
        PROVE  Course'
    <3>1. Within("expect")
          BY <2>h, <2>1, WithinIs
    <3>4. Flags'
      <4>1. Stays(t, {"expect"})
            BY <1>0, <2>1, ReturnStays
      <4>2. Idle' => Head(Below(t)).at = "script"
            BY <2>1 DEF Idle, TopIs, Returned, main
      <4> QED  BY <2>h, <2>f, <3>1, <4>1, <4>2, FlagsKeep DEF Marks, OsAt, CsAt
    <3> QED  BY <2>h, <2>1, <3>1, <3>4, CourseReturns
  <2>2. ASSUME In(t, "expect"), Returned(t, "failed")
        PROVE  Course'
    <3>1. Within("expect")
          BY <2>h, <2>2, WithinIs
    <3>4. Flags'
      <4>1. Stays(t, {"expect"})
            BY <1>0, <2>2, ReturnStays
      <4>2. Idle' => Head(Below(t)).at = "script"
            BY <2>2 DEF Idle, TopIs, Returned, main
      <4> QED  BY <2>h, <2>f, <3>1, <4>1, <4>2, FlagsKeep DEF Marks, OsAt, CsAt
    <3> QED  BY <2>h, <2>2, <3>1, <3>4, CourseReturns
  <2>3. ASSUME In(t, "expect"), Returned(t, "asked")
        PROVE  Course'
    <3>1. Within("expect")
          BY <2>h, <2>3, WithinIs
    <3>4. Flags'
      <4>1. Stays(t, {"expect"})
            BY <1>0, <2>3, ReturnStays
      <4>2. Idle' => Head(Below(t)).at = "script"
            BY <2>3 DEF Idle, TopIs, Returned, main
      <4> QED  BY <2>h, <2>f, <3>1, <4>1, <4>2, FlagsKeep DEF Marks, OsAt, CsAt
    <3> QED  BY <2>h, <2>3, <3>1, <3>4, CourseReturns
  <2> QED  BY <1>0, <1>2, <2>1, <2>2, <2>3, AnswersMoves
<1>3. CASE TimesOut(t)
  <2>h. HoldsPlace /\ Scripted
    <3>1. ~In(Main, "script")
          BY <1>3 DEF TimesOut, In
    <3> QED  BY <3>1, <1>h DEF ScriptGoes
  <2>f. isCurrentUserRoot' = isCurrentUserRoot /\ isSshConn' = isSshConn
        BY <1>3 DEF TimesOut, conn
  <2>1. ASSUME Ended(t)
        PROVE  Course'
        BY <2>1 DEF Ended
  <2>2. ASSUME In(t, "expect"), Top(t).kind \in Long,
               Called(t, Interrupt(Top(t).proc), "timedOut")
        PROVE  Course'
    <3>1. Within("expect")
          BY <2>h, <2>2, WithinIs
    <3>0. Interrupt(Top(t).proc) \in Frame /\ Interrupt(Top(t).proc).at = "kb" /\ Interrupt(Top(t).proc).proc = Top(t).proc
          BY <1>0, <2>2, KbIs, Acts
    <3>2. /\ TwoOn(stack'[t], Interrupt(Top(t).proc), Moving(t, "timedOut"), Below(t))
          /\ Moving(t, "timedOut") \in Frame /\ Moving(t, "timedOut").at = "timedOut" /\ Moving(t, "timedOut").kind = Top(t).kind
          /\ Moving(t, "timedOut").proc = Top(t).proc /\ Moving(t, "timedOut").eoe = Top(t).eoe
          BY <1>0, <2>2, <3>0, CalledIs DEF At
    <3>3. Moving(t, "timedOut") \in Belongs(Nth)
          BY <2>2, <3>1, <3>2 DEF Within, Belongs, Flags, Cmd, CmdAt, KbAt, SfAt, SdAt, TdAt,
             CsAt, OsAt, SelfProcess, Long
    <3>5. Interrupt(Top(t).proc) \in Belongs(Nth)
          BY <2>2, <3>1, <3>0 DEF Within, Belongs, Flags, Cmd, CmdAt, KbAt, SfAt, SdAt, TdAt,
             CsAt, OsAt, SelfProcess, Long
    <3>4. Flags'
      <4>1. Stays(t, {"expect", "timedOut", "kb"})
        <5>1. Stays(t, {"expect", "timedOut", Interrupt(Top(t).proc).at})
              BY <1>0, <2>2, <3>0, CallStays DEF At
        <5> QED  BY <3>0, <5>1
      <4>2. ~Idle'
            BY <3>0, <3>2, NotIdle
      <4> QED  BY <2>h, <2>f, <3>1, <4>1, <4>2, FlagsKeep DEF Marks, OsAt, CsAt
    <3> QED  BY <1>0, <2>h, <2>2, <3>0, <3>1, <3>3, <3>4, <3>5, CourseCalls DEF At
  <2>3. ASSUME In(t, "expect"), Returned(t, "timeout")
        PROVE  Course'
    <3>1. Within("expect")
          BY <2>h, <2>3, WithinIs
    <3>4. Flags'
      <4>1. Stays(t, {"expect"})
            BY <1>0, <2>3, ReturnStays
      <4>2. Idle' => Head(Below(t)).at = "script"
            BY <2>3 DEF Idle, TopIs, Returned, main
      <4> QED  BY <2>h, <2>f, <3>1, <4>1, <4>2, FlagsKeep DEF Marks, OsAt, CsAt
    <3> QED  BY <2>h, <2>3, <3>1, <3>4, CourseReturns
  <2> QED  BY <1>0, <1>3, <2>1, <2>2, <2>3, TimesOutMoves
<1>4. CASE Resolved(t)
  <2>h. HoldsPlace /\ Scripted
    <3>1. ~In(Main, "script")
          BY <1>4 DEF Resolved, In
    <3> QED  BY <3>1, <1>h DEF ScriptGoes
  <2>f. isCurrentUserRoot' = isCurrentUserRoot /\ isSshConn' = isSshConn
        BY <1>4 DEF Resolved, conn
  <2>1. ASSUME In(t, "timedOut"), Returned(t, "timeout")
        PROVE  Course'
    <3>1. Within("timedOut")
          BY <2>h, <2>1, WithinIs
    <3>4. Flags'
      <4>1. Stays(t, {"timedOut"})
            BY <1>0, <2>1, ReturnStays
      <4>2. Idle' => Head(Below(t)).at = "script"
            BY <2>1 DEF Idle, TopIs, Returned, main
      <4> QED  BY <2>h, <2>f, <3>1, <4>1, <4>2, FlagsKeep DEF Marks, OsAt, CsAt
    <3> QED  BY <2>h, <2>1, <3>1, <3>4, CourseReturns
  <2> QED  BY <1>0, <1>4, <2>1, ResolvedMoves
<1>5. CASE Eof(t)
  <2>h. HoldsPlace /\ Scripted
    <3>1. ~In(Main, "script")
          BY <1>5 DEF Eof, In
    <3> QED  BY <3>1, <1>h DEF ScriptGoes
  <2>f. isCurrentUserRoot' = isCurrentUserRoot /\ isSshConn' = isSshConn
        BY <1>5 DEF Eof, conn
  <2>1. ASSUME In(t, "expect"), Returned(t, "ok")
        PROVE  Course'
    <3>1. Within("expect")
          BY <2>h, <2>1, WithinIs
    <3>4. Flags'
      <4>1. Stays(t, {"expect"})
            BY <1>0, <2>1, ReturnStays
      <4>2. Idle' => Head(Below(t)).at = "script"
            BY <2>1 DEF Idle, TopIs, Returned, main
      <4> QED  BY <2>h, <2>f, <3>1, <4>1, <4>2, FlagsKeep DEF Marks, OsAt, CsAt
    <3> QED  BY <2>h, <2>1, <3>1, <3>4, CourseReturns
  <2>2. ASSUME In(t, "expect"), Returned(t, "failed")
        PROVE  Course'
    <3>1. Within("expect")
          BY <2>h, <2>2, WithinIs
    <3>4. Flags'
      <4>1. Stays(t, {"expect"})
            BY <1>0, <2>2, ReturnStays
      <4>2. Idle' => Head(Below(t)).at = "script"
            BY <2>2 DEF Idle, TopIs, Returned, main
      <4> QED  BY <2>h, <2>f, <3>1, <4>1, <4>2, FlagsKeep DEF Marks, OsAt, CsAt
    <3> QED  BY <2>h, <2>2, <3>1, <3>4, CourseReturns
  <2>3. ASSUME Ended(t)
        PROVE  Course'
        BY <2>3 DEF Ended
  <2> QED  BY <1>0, <1>5, <2>1, <2>2, <2>3, EofMoves
<1>6. CASE InterruptStarts(t)
  <2>h. HoldsPlace /\ Scripted
    <3>1. ~In(Main, "script")
          BY <1>6 DEF InterruptStarts, In
    <3> QED  BY <3>1, <1>h DEF ScriptGoes
  <2>f. isCurrentUserRoot' = isCurrentUserRoot /\ isSshConn' = isSshConn
        BY <1>6 DEF InterruptStarts, conn
  <2>1. ASSUME In(t, "kb"), Returned(t, "ok")
        PROVE  Course'
    <3>1. Within("kb")
          BY <2>h, <2>1, WithinIs
    <3>4. Flags'
      <4>1. Stays(t, {"kb"})
            BY <1>0, <2>1, ReturnStays
      <4>2. Idle' => Head(Below(t)).at = "script"
            BY <2>1 DEF Idle, TopIs, Returned, main
      <4> QED  BY <2>h, <2>f, <3>1, <4>1, <4>2, FlagsKeep DEF Marks, OsAt, CsAt
    <3> QED  BY <2>h, <2>1, <3>1, <3>4, CourseReturns
  <2>2. ASSUME Ended(t)
        PROVE  Course'
        BY <2>2 DEF Ended
  <2>3. ASSUME In(t, "kb"), Went(t, "kbTry")
        PROVE  Course'
    <3>1. Within("kb")
          BY <2>h, <2>3, WithinIs
    <3>2. /\ OneOn(stack'[t], Moving(t, "kbTry"), Below(t))
          /\ Moving(t, "kbTry") \in Frame /\ Moving(t, "kbTry").at = "kbTry" /\ Moving(t, "kbTry").kind = Top(t).kind
          /\ Moving(t, "kbTry").proc = Top(t).proc /\ Moving(t, "kbTry").eoe = Top(t).eoe
          BY <1>0, <2>3, WentIs DEF At
    <3>3. Moving(t, "kbTry") \in Belongs(Nth)
          BY <2>3, <3>1, <3>2 DEF Within, Belongs, Flags, Cmd, CmdAt, KbAt, SfAt, SdAt, TdAt,
             CsAt, OsAt, SelfProcess, Long
    <3>4. Flags'
      <4>1. Stays(t, {"kb", "kbTry"})
            BY <1>0, <2>3, GoStays DEF At
      <4>2. ~Idle'
            BY <3>2, NotIdleYet
      <4> QED  BY <2>h, <2>f, <3>1, <4>1, <4>2, FlagsKeep DEF Marks, OsAt, CsAt
    <3> QED  BY <1>0, <2>h, <2>3, <3>1, <3>3, <3>4, CourseGoes DEF At
  <2> QED  BY <1>0, <1>6, <2>1, <2>2, <2>3, InterruptStartsMoves
<1>7. CASE InterruptTries(t)
  <2>h. HoldsPlace /\ Scripted
    <3>1. ~In(Main, "script")
          BY <1>7 DEF InterruptTries, In
    <3> QED  BY <3>1, <1>h DEF ScriptGoes
  <2>f. isCurrentUserRoot' = isCurrentUserRoot /\ isSshConn' = isSshConn
        BY <1>7 DEF InterruptTries, conn
  <2>1. ASSUME In(t, "kbTry"), TriesAgain(t)
        PROVE  Course'
    <3>1. Within("kbTry")
          BY <2>h, <2>1, WithinIs
    <3>2. PICK f, g \in Frame :
             /\ TwoOn(stack'[t], f, g, Below(t))
             /\ Cmd(f, {"break"}) /\ f.at = "send" /\ f.proc = Top(t).proc
             /\ g.at = "kbTry" /\ g.proc = Top(t).proc
          BY <1>0, <2>1, TriesStays
    <3>3. f \in Belongs(Nth) /\ g \in Belongs(Nth)
          BY <2>1, <3>1, <3>2 DEF Within, Belongs, Flags, Cmd, CmdAt, KbAt, SfAt, SdAt, TdAt,
             CsAt, OsAt, SelfProcess, Long
    <3>4. Flags'
      <4>1. Stays(t, {"kbTry", "send"})
            BY <1>0, <2>1, TriesStays
      <4>2. ~Idle'
            BY <3>2, NotIdle
      <4> QED  BY <2>h, <2>f, <3>1, <4>1, <4>2, FlagsKeep DEF Marks, OsAt, CsAt
    <3> QED  BY <2>h, <3>1, <3>2, <3>3, <3>4, CoursePuts
  <2>2. ASSUME In(t, "kbTry"), Called(t, On(Command("plain"), t), "kbSpace")
        PROVE  Course'
    <3>1. Within("kbTry")
          BY <2>h, <2>2, WithinIs
    <3>0. On(Command("plain"), t) \in Frame /\ On(Command("plain"), t).at = "send" /\ On(Command("plain"), t).kind = "plain" /\ On(Command("plain"), t).proc = Top(t).proc
          BY <1>0, <2>2, OnIs DEF Command_OK
    <3>2. /\ TwoOn(stack'[t], On(Command("plain"), t), Moving(t, "kbSpace"), Below(t))
          /\ Moving(t, "kbSpace") \in Frame /\ Moving(t, "kbSpace").at = "kbSpace" /\ Moving(t, "kbSpace").kind = Top(t).kind
          /\ Moving(t, "kbSpace").proc = Top(t).proc /\ Moving(t, "kbSpace").eoe = Top(t).eoe
          BY <1>0, <2>2, <3>0, CalledIs DEF At
    <3>3. Moving(t, "kbSpace") \in Belongs(Nth)
          BY <2>2, <3>1, <3>2 DEF Within, Belongs, Flags, Cmd, CmdAt, KbAt, SfAt, SdAt, TdAt,
             CsAt, OsAt, SelfProcess, Long
    <3>5. On(Command("plain"), t) \in Belongs(Nth)
          BY <2>2, <3>1, <3>0 DEF Within, Belongs, Flags, Cmd, CmdAt, KbAt, SfAt, SdAt, TdAt,
             CsAt, OsAt, SelfProcess, Long
    <3>4. Flags'
      <4>1. Stays(t, {"kbTry", "kbSpace", "send"})
        <5>1. Stays(t, {"kbTry", "kbSpace", On(Command("plain"), t).at})
              BY <1>0, <2>2, <3>0, CallStays DEF At
        <5> QED  BY <3>0, <5>1
      <4>2. ~Idle'
            BY <3>0, <3>2, NotIdle
      <4> QED  BY <2>h, <2>f, <3>1, <4>1, <4>2, FlagsKeep DEF Marks, OsAt, CsAt
    <3> QED  BY <1>0, <2>h, <2>2, <3>0, <3>1, <3>3, <3>4, <3>5, CourseCalls DEF At
  <2>3. ASSUME In(t, "kbTry"), Went(t, "kbSpace")
        PROVE  Course'
    <3>1. Within("kbTry")
          BY <2>h, <2>3, WithinIs
    <3>2. /\ OneOn(stack'[t], Moving(t, "kbSpace"), Below(t))
          /\ Moving(t, "kbSpace") \in Frame /\ Moving(t, "kbSpace").at = "kbSpace" /\ Moving(t, "kbSpace").kind = Top(t).kind
          /\ Moving(t, "kbSpace").proc = Top(t).proc /\ Moving(t, "kbSpace").eoe = Top(t).eoe
          BY <1>0, <2>3, WentIs DEF At
    <3>3. Moving(t, "kbSpace") \in Belongs(Nth)
          BY <2>3, <3>1, <3>2 DEF Within, Belongs, Flags, Cmd, CmdAt, KbAt, SfAt, SdAt, TdAt,
             CsAt, OsAt, SelfProcess, Long
    <3>4. Flags'
      <4>1. Stays(t, {"kbTry", "kbSpace"})
            BY <1>0, <2>3, GoStays DEF At
      <4>2. ~Idle'
            BY <3>2, NotIdleYet
      <4> QED  BY <2>h, <2>f, <3>1, <4>1, <4>2, FlagsKeep DEF Marks, OsAt, CsAt
    <3> QED  BY <1>0, <2>h, <2>3, <3>1, <3>3, <3>4, CourseGoes DEF At
  <2> QED  BY <1>0, <1>7, <2>1, <2>2, <2>3, InterruptTriesMoves
<1>8. CASE InterruptEnds(t)
  <2>h. HoldsPlace /\ Scripted
    <3>1. ~In(Main, "script")
          BY <1>8 DEF InterruptEnds, In
    <3> QED  BY <3>1, <1>h DEF ScriptGoes
  <2>f. isCurrentUserRoot' = isCurrentUserRoot /\ isSshConn' = isSshConn
        BY <1>8 DEF InterruptEnds, conn
  <2>1. ASSUME In(t, "kbSpace"), Returned(t, "ok")
        PROVE  Course'
    <3>1. Within("kbSpace")
          BY <2>h, <2>1, WithinIs
    <3>4. Flags'
      <4>1. Stays(t, {"kbSpace"})
            BY <1>0, <2>1, ReturnStays
      <4>2. Idle' => Head(Below(t)).at = "script"
            BY <2>1 DEF Idle, TopIs, Returned, main
      <4> QED  BY <2>h, <2>f, <3>1, <4>1, <4>2, FlagsKeep DEF Marks, OsAt, CsAt
    <3> QED  BY <2>h, <2>1, <3>1, <3>4, CourseReturns
  <2> QED  BY <1>0, <1>8, <2>1, InterruptEndsMoves
<1>9. CASE TerminateSteps(t)
  <2>h. HoldsPlace /\ Scripted
    <3>1. ~In(Main, "script")
          BY <1>9 DEF TerminateSteps, In
    <3> QED  BY <3>1, <1>h DEF ScriptGoes
  <2>f. isCurrentUserRoot' = isCurrentUserRoot /\ isSshConn' = isSshConn
        BY <1>9 DEF TerminateSteps, still, conn
  <2>1. ASSUME In(t, "term")
        PROVE  Course'
    <3>1. Within("term")
          BY <2>h, <2>1, WithinIs
    <3> QED  BY <2>1, <3>1 DEF Within, Belongs, Flags, Cmd, CmdAt, KbAt, SfAt, SdAt, TdAt, CsAt,
                OsAt, SelfProcess, Long, EndAt
  <2>2. ASSUME In(t, "term")
        PROVE  Course'
    <3>1. Within("term")
          BY <2>h, <2>2, WithinIs
    <3> QED  BY <2>2, <3>1 DEF Within, Belongs, Flags, Cmd, CmdAt, KbAt, SfAt, SdAt, TdAt, CsAt,
                OsAt, SelfProcess, Long, EndAt
  <2>3. ASSUME In(t, "tear")
        PROVE  Course'
    <3>1. Within("tear")
          BY <2>h, <2>3, WithinIs
    <3> QED  BY <2>3, <3>1 DEF Within, Belongs, Flags, Cmd, CmdAt, KbAt, SfAt, SdAt, TdAt, CsAt,
                OsAt, SelfProcess, Long, EndAt
  <2>4. ASSUME In(t, "exit")
        PROVE  Course'
    <3>1. Within("exit")
          BY <2>h, <2>4, WithinIs
    <3> QED  BY <2>4, <3>1 DEF Within, Belongs, Flags, Cmd, CmdAt, KbAt, SfAt, SdAt, TdAt, CsAt,
                OsAt, SelfProcess, Long, EndAt
  <2> QED  BY <1>0, <1>9, <2>1, <2>2, <2>3, <2>4, TerminateMoves
<1>10. CASE ShutdownStarts(t)
  <2>h. HoldsPlace /\ Scripted
    <3>1. ~In(Main, "script")
          BY <1>10 DEF ShutdownStarts, In
    <3> QED  BY <3>1, <1>h DEF ScriptGoes
  <2>f. isCurrentUserRoot' = isCurrentUserRoot /\ isSshConn' = isSshConn
        BY <1>10 DEF ShutdownStarts, still, conn
  <2>1. ASSUME Ended(t)
        PROVE  Course'
        BY <2>1 DEF Ended
  <2>2. ASSUME In(t, "sd"), Went(t, "sdUser")
        PROVE  Course'
    <3>1. Within("sd")
          BY <2>h, <2>2, WithinIs
    <3>2. /\ OneOn(stack'[t], Moving(t, "sdUser"), Below(t))
          /\ Moving(t, "sdUser") \in Frame /\ Moving(t, "sdUser").at = "sdUser" /\ Moving(t, "sdUser").kind = Top(t).kind
          /\ Moving(t, "sdUser").proc = Top(t).proc /\ Moving(t, "sdUser").eoe = Top(t).eoe
          BY <1>0, <2>2, WentIs DEF At
    <3>3. Moving(t, "sdUser") \in Belongs(Nth)
          BY <2>2, <3>1, <3>2 DEF Within, Belongs, Flags, Cmd, CmdAt, KbAt, SfAt, SdAt, TdAt,
             CsAt, OsAt, SelfProcess, Long
    <3>4. Flags'
      <4>1. Stays(t, {"sd", "sdUser"})
            BY <1>0, <2>2, GoStays DEF At
      <4>2. ~Idle'
            BY <3>2, NotIdleYet
      <4> QED  BY <2>h, <2>f, <3>1, <4>1, <4>2, FlagsKeep DEF Marks, OsAt, CsAt
    <3> QED  BY <1>0, <2>h, <2>2, <3>1, <3>3, <3>4, CourseGoes DEF At
  <2> QED  BY <1>0, <1>10, <2>1, <2>2, ShutdownStartsMoves
<1>11. CASE ShutdownSwitchesUser(t)
  <2>h. HoldsPlace /\ Scripted
    <3>1. ~In(Main, "script")
          BY <1>11 DEF ShutdownSwitchesUser, In
    <3> QED  BY <3>1, <1>h DEF ScriptGoes
  <2>f. isCurrentUserRoot' = isCurrentUserRoot /\ isSshConn' = isSshConn
        BY <1>11 DEF ShutdownSwitchesUser, still, conn
  <2>1. ASSUME In(t, "sdUser"), Went(t, "sdTerm")
        PROVE  Course'
    <3>1. Within("sdUser")
          BY <2>h, <2>1, WithinIs
    <3>2. /\ OneOn(stack'[t], Moving(t, "sdTerm"), Below(t))
          /\ Moving(t, "sdTerm") \in Frame /\ Moving(t, "sdTerm").at = "sdTerm" /\ Moving(t, "sdTerm").kind = Top(t).kind
          /\ Moving(t, "sdTerm").proc = Top(t).proc /\ Moving(t, "sdTerm").eoe = Top(t).eoe
          BY <1>0, <2>1, WentIs DEF At
    <3>3. Moving(t, "sdTerm") \in Belongs(Nth)
          BY <2>1, <3>1, <3>2 DEF Within, Belongs, Flags, Cmd, CmdAt, KbAt, SfAt, SdAt, TdAt,
             CsAt, OsAt, SelfProcess, Long
    <3>4. Flags'
      <4>1. Stays(t, {"sdUser", "sdTerm"})
            BY <1>0, <2>1, GoStays DEF At
      <4>2. ~Idle'
            BY <3>2, NotIdleYet
      <4> QED  BY <2>h, <2>f, <3>1, <4>1, <4>2, FlagsKeep DEF Marks, OsAt, CsAt
    <3> QED  BY <1>0, <2>h, <2>1, <3>1, <3>3, <3>4, CourseGoes DEF At
  <2>2. ASSUME In(t, "sdUser"), ~isCurrentUserRoot
        PROVE  Course'
    <3>1. Within("sdUser")
          BY <2>h, <2>2, WithinIs
    <3> QED  BY <2>2, <3>1 DEF Within, Belongs, Flags, Cmd, CmdAt, KbAt, SfAt, SdAt, TdAt, CsAt,
                OsAt, SelfProcess, Long
  <2> QED  BY <1>0, <1>11, <2>1, <2>2, ShutdownSwitchesMoves
<1>12. CASE TerminateTargetStarts(t)
  <2>h. HoldsPlace /\ Scripted
    <3>1. ~In(Main, "script")
          BY <1>12 DEF TerminateTargetStarts, In
    <3> QED  BY <3>1, <1>h DEF ScriptGoes
  <2>f. isCurrentUserRoot' = isCurrentUserRoot /\ isSshConn' = isSshConn
        BY <1>12 DEF TerminateTargetStarts, still, conn
  <2>1. ASSUME In(t, "sdTerm"), isSshConn
        PROVE  Course'
    <3>1. Within("sdTerm")
          BY <2>h, <2>1, WithinIs
    <3> QED  BY <2>1, <3>1 DEF Within, Belongs, Flags, Cmd, CmdAt, KbAt, SfAt, SdAt, TdAt, CsAt,
                OsAt, SelfProcess, Long
  <2>2. ASSUME In(t, "sdTerm"), Went(t, "sdPower")
        PROVE  Course'
    <3>1. Within("sdTerm")
          BY <2>h, <2>2, WithinIs
    <3>2. /\ OneOn(stack'[t], Moving(t, "sdPower"), Below(t))
          /\ Moving(t, "sdPower") \in Frame /\ Moving(t, "sdPower").at = "sdPower" /\ Moving(t, "sdPower").kind = Top(t).kind
          /\ Moving(t, "sdPower").proc = Top(t).proc /\ Moving(t, "sdPower").eoe = Top(t).eoe
          BY <1>0, <2>2, WentIs DEF At
    <3>3. Moving(t, "sdPower") \in Belongs(Nth)
          BY <2>2, <3>1, <3>2 DEF Within, Belongs, Flags, Cmd, CmdAt, KbAt, SfAt, SdAt, TdAt,
             CsAt, OsAt, SelfProcess, Long
    <3>4. Flags'
      <4>1. Stays(t, {"sdTerm", "sdPower"})
            BY <1>0, <2>2, GoStays DEF At
      <4>2. ~Idle'
            BY <3>2, NotIdleYet
      <4> QED  BY <2>h, <2>f, <3>1, <4>1, <4>2, FlagsKeep DEF Marks, OsAt, CsAt
    <3> QED  BY <1>0, <2>h, <2>2, <3>1, <3>3, <3>4, CourseGoes DEF At
  <2> QED  BY <1>0, <1>12, <2>1, <2>2, TerminateTargetMoves
<1>13. CASE PowersOff(t)
  <2>h. HoldsPlace /\ Scripted
    <3>1. ~In(Main, "script")
          BY <1>13 DEF PowersOff, In
    <3> QED  BY <3>1, <1>h DEF ScriptGoes
  <2>f. isCurrentUserRoot' = isCurrentUserRoot /\ isSshConn' = isSshConn
        BY <1>13 DEF PowersOff, still, conn
  <2>1. ASSUME In(t, "sdPower"), Called(t, Command("poweroff"), "sdDown")
        PROVE  Course'
    <3>1. Within("sdPower")
          BY <2>h, <2>1, WithinIs
    <3>0. Command("poweroff") \in Frame /\ Command("poweroff").at = "send" /\ Command("poweroff").kind = "poweroff" /\ Command("poweroff").proc = SelfProcess /\ Command("poweroff").eoe
          BY <1>0, <2>1, CommandIs DEF Kind
    <3>2. /\ TwoOn(stack'[t], Command("poweroff"), Moving(t, "sdDown"), Below(t))
          /\ Moving(t, "sdDown") \in Frame /\ Moving(t, "sdDown").at = "sdDown" /\ Moving(t, "sdDown").kind = Top(t).kind
          /\ Moving(t, "sdDown").proc = Top(t).proc /\ Moving(t, "sdDown").eoe = Top(t).eoe
          BY <1>0, <2>1, <3>0, CalledIs DEF At
    <3>3. Moving(t, "sdDown") \in Belongs(Nth)
          BY <2>1, <3>1, <3>2 DEF Within, Belongs, Flags, Cmd, CmdAt, KbAt, SfAt, SdAt, TdAt,
             CsAt, OsAt, SelfProcess, Long
    <3>5. Command("poweroff") \in Belongs(Nth)
          BY <2>1, <3>1, <3>0 DEF Within, Belongs, Flags, Cmd, CmdAt, KbAt, SfAt, SdAt, TdAt,
             CsAt, OsAt, SelfProcess, Long
    <3>4. Flags'
      <4>1. Stays(t, {"sdPower", "sdDown", "send"})
        <5>1. Stays(t, {"sdPower", "sdDown", Command("poweroff").at})
              BY <1>0, <2>1, <3>0, CallStays DEF At
        <5> QED  BY <3>0, <5>1
      <4>2. ~Idle'
            BY <3>0, <3>2, NotIdle
      <4> QED  BY <2>h, <2>f, <3>1, <4>1, <4>2, FlagsKeep DEF Marks, OsAt, CsAt
    <3> QED  BY <1>0, <2>h, <2>1, <3>0, <3>1, <3>3, <3>4, <3>5, CourseCalls DEF At
  <2>2. ASSUME In(t, "sdDown"), Called(t, F("td"), "return")
        PROVE  Course'
    <3>1. Within("sdDown")
          BY <2>h, <2>2, WithinIs
    <3>0. F("td") \in Frame /\ F("td").at = "td" /\ F("td").kind = "none"
          BY <1>0, <2>2, FrameIs DEF At
    <3>2. /\ TwoOn(stack'[t], F("td"), Moving(t, "return"), Below(t))
          /\ Moving(t, "return") \in Frame /\ Moving(t, "return").at = "return" /\ Moving(t, "return").kind = Top(t).kind
          /\ Moving(t, "return").proc = Top(t).proc /\ Moving(t, "return").eoe = Top(t).eoe
          BY <1>0, <2>2, <3>0, CalledIs DEF At
    <3>k. Top(t).kind = "none"
          BY <1>0, <2>2, KindAt DEF SdAt
    <3>3. Moving(t, "return") \in Belongs(Nth)
          BY <2>2, <3>1, <3>2, <3>k DEF Within, Belongs, Flags, Cmd, CmdAt, KbAt, SfAt, SdAt,
             TdAt, CsAt, OsAt, SelfProcess, Long
    <3>5. F("td") \in Belongs(Nth)
          BY <2>2, <3>1, <3>0 DEF Within, Belongs, Flags, Cmd, CmdAt, KbAt, SfAt, SdAt, TdAt,
             CsAt, OsAt, SelfProcess, Long
    <3>4. Flags'
      <4>1. Stays(t, {"sdDown", "return", "td"})
        <5>1. Stays(t, {"sdDown", "return", F("td").at})
              BY <1>0, <2>2, <3>0, CallStays DEF At
        <5> QED  BY <3>0, <5>1
      <4>2. ~Idle'
            BY <3>0, <3>2, NotIdle
      <4> QED  BY <2>h, <2>f, <3>1, <4>1, <4>2, FlagsKeep DEF Marks, OsAt, CsAt
    <3> QED  BY <1>0, <2>h, <2>2, <3>0, <3>1, <3>3, <3>4, <3>5, CourseCalls DEF At
  <2> QED  BY <1>0, <1>13, <2>1, <2>2, PowersOffMoves
<1>14. CASE Returns(t)
  <2>h. HoldsPlace /\ Scripted
    <3>1. ~In(Main, "script")
          BY <1>14 DEF Returns, In
    <3> QED  BY <3>1, <1>h DEF ScriptGoes
  <2>f. isCurrentUserRoot' = isCurrentUserRoot /\ isSshConn' = isSshConn
        BY <1>14 DEF Returns, still, conn
  <2>1. ASSUME In(t, "return"), Returned(t, "ok")
        PROVE  Course'
    <3>1. Within("return")
          BY <2>h, <2>1, WithinIs
    <3>4. Flags'
      <4>1. Stays(t, {"return"})
            BY <1>0, <2>1, ReturnStays
      <4>2. Idle' => Head(Below(t)).at = "script"
            BY <2>1 DEF Idle, TopIs, Returned, main
      <4> QED  BY <2>h, <2>f, <3>1, <4>1, <4>2, FlagsKeep DEF Marks, OsAt, CsAt
    <3> QED  BY <2>h, <2>1, <3>1, <3>4, CourseReturns
  <2> QED  BY <1>0, <1>14, <2>1, ReturnsMoves
<1>15. CASE TearDownStarts(t)
  <2>h. HoldsPlace /\ Scripted
    <3>1. ~In(Main, "script")
          BY <1>15 DEF TearDownStarts, In
    <3> QED  BY <3>1, <1>h DEF ScriptGoes
  <2>f. isCurrentUserRoot' = isCurrentUserRoot /\ isSshConn' = isSshConn
        BY <1>15 DEF TearDownStarts, still, conn
  <2>1. ASSUME In(t, "td"), Returned(t, "ok")
        PROVE  Course'
    <3>1. Within("td")
          BY <2>h, <2>1, WithinIs
    <3>4. Flags'
      <4>1. Stays(t, {"td"})
            BY <1>0, <2>1, ReturnStays
      <4>2. Idle' => Head(Below(t)).at = "script"
            BY <2>1 DEF Idle, TopIs, Returned, main
      <4> QED  BY <2>h, <2>f, <3>1, <4>1, <4>2, FlagsKeep DEF Marks, OsAt, CsAt
    <3> QED  BY <2>h, <2>1, <3>1, <3>4, CourseReturns
  <2>2. ASSUME In(t, "td"), Went(t, "tdKill")
        PROVE  Course'
    <3>1. Within("td")
          BY <2>h, <2>2, WithinIs
    <3>2. /\ OneOn(stack'[t], Moving(t, "tdKill"), Below(t))
          /\ Moving(t, "tdKill") \in Frame /\ Moving(t, "tdKill").at = "tdKill" /\ Moving(t, "tdKill").kind = Top(t).kind
          /\ Moving(t, "tdKill").proc = Top(t).proc /\ Moving(t, "tdKill").eoe = Top(t).eoe
          BY <1>0, <2>2, WentIs DEF At
    <3>3. Moving(t, "tdKill") \in Belongs(Nth)
          BY <2>2, <3>1, <3>2 DEF Within, Belongs, Flags, Cmd, CmdAt, KbAt, SfAt, SdAt, TdAt,
             CsAt, OsAt, SelfProcess, Long
    <3>4. Flags'
      <4>1. Stays(t, {"td", "tdKill"})
            BY <1>0, <2>2, GoStays DEF At
      <4>2. ~Idle'
            BY <3>2, NotIdleYet
      <4> QED  BY <2>h, <2>f, <3>1, <4>1, <4>2, FlagsKeep DEF Marks, OsAt, CsAt
    <3> QED  BY <1>0, <2>h, <2>2, <3>1, <3>3, <3>4, CourseGoes DEF At
  <2>3. ASSUME In(t, "td"), Called(t, Command("quit"), "tdKill")
        PROVE  Course'
    <3>1. Within("td")
          BY <2>h, <2>3, WithinIs
    <3>0. Command("quit") \in Frame /\ Command("quit").at = "send" /\ Command("quit").kind = "quit" /\ Command("quit").proc = SelfProcess /\ Command("quit").eoe
          BY <1>0, <2>3, CommandIs DEF Kind
    <3>2. /\ TwoOn(stack'[t], Command("quit"), Moving(t, "tdKill"), Below(t))
          /\ Moving(t, "tdKill") \in Frame /\ Moving(t, "tdKill").at = "tdKill" /\ Moving(t, "tdKill").kind = Top(t).kind
          /\ Moving(t, "tdKill").proc = Top(t).proc /\ Moving(t, "tdKill").eoe = Top(t).eoe
          BY <1>0, <2>3, <3>0, CalledIs DEF At
    <3>3. Moving(t, "tdKill") \in Belongs(Nth)
          BY <2>3, <3>1, <3>2 DEF Within, Belongs, Flags, Cmd, CmdAt, KbAt, SfAt, SdAt, TdAt,
             CsAt, OsAt, SelfProcess, Long
    <3>5. Command("quit") \in Belongs(Nth)
          BY <2>3, <3>1, <3>0 DEF Within, Belongs, Flags, Cmd, CmdAt, KbAt, SfAt, SdAt, TdAt,
             CsAt, OsAt, SelfProcess, Long
    <3>4. Flags'
      <4>1. Stays(t, {"td", "tdKill", "send"})
        <5>1. Stays(t, {"td", "tdKill", Command("quit").at})
              BY <1>0, <2>3, <3>0, CallStays DEF At
        <5> QED  BY <3>0, <5>1
      <4>2. ~Idle'
            BY <3>0, <3>2, NotIdle
      <4> QED  BY <2>h, <2>f, <3>1, <4>1, <4>2, FlagsKeep DEF Marks, OsAt, CsAt
    <3> QED  BY <1>0, <2>h, <2>3, <3>0, <3>1, <3>3, <3>4, <3>5, CourseCalls DEF At
  <2> QED  BY <1>0, <1>15, <2>1, <2>2, <2>3, TearDownStartsMoves
<1>16. CASE TearDownKills(t)
  <2>h. HoldsPlace /\ Scripted
    <3>1. ~In(Main, "script")
          BY <1>16 DEF TearDownKills, In
    <3> QED  BY <3>1, <1>h DEF ScriptGoes
  <2>f. isCurrentUserRoot' = isCurrentUserRoot /\ isSshConn' = isSshConn
        BY <1>16 DEF TearDownKills, conn
  <2>1. ASSUME In(t, "tdKill"), Returned(t, "ok")
        PROVE  Course'
    <3>1. Within("tdKill")
          BY <2>h, <2>1, WithinIs
    <3>4. Flags'
      <4>1. Stays(t, {"tdKill"})
            BY <1>0, <2>1, ReturnStays
      <4>2. Idle' => Head(Below(t)).at = "script"
            BY <2>1 DEF Idle, TopIs, Returned, main
      <4> QED  BY <2>h, <2>f, <3>1, <4>1, <4>2, FlagsKeep DEF Marks, OsAt, CsAt
    <3> QED  BY <2>h, <2>1, <3>1, <3>4, CourseReturns
  <2> QED  BY <1>0, <1>16, <2>1, TearDownKillsMoves
<1>17. CASE SwitchUserStarts(t)
  <2>h. HoldsPlace /\ Scripted
    <3>1. ~In(Main, "script")
          BY <1>17 DEF SwitchUserStarts, In
    <3> QED  BY <3>1, <1>h DEF ScriptGoes
  <2>f. isSshConn' = isSshConn
        BY <1>17 DEF SwitchUserStarts, still, conn
  <2>1. ASSUME In(t, "su"), isSshConn
        PROVE  Course'
    <3>1. Within("su")
          BY <2>h, <2>1, WithinIs
    <3> QED  BY <2>1, <3>1 DEF Within, Belongs, Flags, Cmd, CmdAt, KbAt, SfAt, SdAt, TdAt, CsAt,
                OsAt, SelfProcess, Long
  <2>2. ASSUME In(t, "su"), ~isSshConn, isCurrentUserRoot' = ~isCurrentUserRoot,
               NEW k \in {"root", "user"}, NamesUser(t, k)
        PROVE  Course'
    <3>1. Within("su")
          BY <2>h, <2>2, WithinIs
    <3>2. PICK f, g \in Frame :
             /\ TwoOn(stack'[t], f, g, Below(t))
             /\ Cmd(f, {"exit"}) /\ f.at = "send"
             /\ g.at = "suName" /\ g.kind = k
          BY <1>0, <2>2, NamesStays
    <3>3. f \in Belongs(Nth) /\ g \in Belongs(Nth)
          BY <2>2, <3>1, <3>2 DEF Within, Belongs, Flags, Cmd, CmdAt, KbAt, SfAt, SdAt, TdAt,
             CsAt, OsAt, SelfProcess, Long
    <3>4. Flags'
      <4>1. Nth \in {3, 8} /\ Nth' = Nth
            BY <2>h, <2>2, <3>1 DEF Within, Belongs, Flags, Cmd, CmdAt, KbAt, SfAt, SdAt, TdAt,
               CsAt, OsAt, SelfProcess, Long, HoldsPlace
      <4>2. ~Has(Below(t), {"su"})
            BY <1>0, <2>2, UnderIs DEF Low4, SuAt
      <4>3. ~Has(stack'[t], {"su"}) /\ Has(stack[t], {"su"})
            BY <1>0, <2>2, <3>2, <4>2, HereIs DEF TwoOn
      <4>4. /\ Nth = 3 => (isCurrentUserRoot <=> Has(stack[t], {"su"}))
            /\ Nth = 8 => (isCurrentUserRoot <=> ~Has(stack[t], {"su"}))
            /\ ~isSshConn
            BY <2>2, <3>1 DEF Within, Flags, main
      <4>5. /\ Nth' = 3 => (isCurrentUserRoot' <=> Has(stack'[t], {"su"}))
            /\ Nth' = 8 => (isCurrentUserRoot' <=> ~Has(stack'[t], {"su"}))
        <5>1. isCurrentUserRoot' <=> ~isCurrentUserRoot
              BY <2>2
        <5> QED  BY <4>1, <4>3, <4>4, <5>1
      <4>6. ~isSshConn'
            BY <2>f, <4>4
      <4> QED  BY <1>0, <4>1, <4>5, <4>6 DEF Flags, main
    <3> QED  BY <1>0, <2>h, <3>1, <3>2, <3>3, <3>4, CoursePuts
  <2> QED  BY <1>0, <1>17, <2>1, <2>2, SwitchUserStartsMoves
<1>18. CASE SwitchUserLogsIn(t)
  <2>h. HoldsPlace /\ Scripted
    <3>1. ~In(Main, "script")
          BY <1>18 DEF SwitchUserLogsIn, In
    <3> QED  BY <3>1, <1>h DEF ScriptGoes
  <2>f. isCurrentUserRoot' = isCurrentUserRoot /\ isSshConn' = isSshConn
        BY <1>18 DEF SwitchUserLogsIn, still, conn
  <2>1. ASSUME In(t, "suName"), Top(t).kind \in {"root", "user"},
               Called(t, Command(Top(t).kind), "suPass")
        PROVE  Course'
    <3>1. Within("suName")
          BY <2>h, <2>1, WithinIs
    <3>0. Command(Top(t).kind) \in Frame /\ Command(Top(t).kind).at = "send" /\ Command(Top(t).kind).kind = Top(t).kind
          BY <1>0, <2>1, Acts, CommandIs DEF Frame
    <3>2. /\ TwoOn(stack'[t], Command(Top(t).kind), Moving(t, "suPass"), Below(t))
          /\ Moving(t, "suPass") \in Frame /\ Moving(t, "suPass").at = "suPass" /\ Moving(t, "suPass").kind = Top(t).kind
          /\ Moving(t, "suPass").proc = Top(t).proc /\ Moving(t, "suPass").eoe = Top(t).eoe
          BY <1>0, <2>1, <3>0, CalledIs DEF At
    <3>3. Moving(t, "suPass") \in Belongs(Nth)
          BY <2>1, <3>1, <3>2 DEF Within, Belongs, Flags, Cmd, CmdAt, KbAt, SfAt, SdAt, TdAt,
             CsAt, OsAt, SelfProcess, Long
    <3>5. Command(Top(t).kind) \in Belongs(Nth)
          BY <2>1, <3>1, <3>0 DEF Within, Belongs, Flags, Cmd, CmdAt, KbAt, SfAt, SdAt, TdAt,
             CsAt, OsAt, SelfProcess, Long
    <3>4. Flags'
      <4>1. Stays(t, {"suName", "suPass", "send"})
        <5>1. Stays(t, {"suName", "suPass", Command(Top(t).kind).at})
              BY <1>0, <2>1, <3>0, CallStays DEF At
        <5> QED  BY <3>0, <5>1
      <4>2. ~Idle'
            BY <3>0, <3>2, NotIdle
      <4> QED  BY <2>h, <2>f, <3>1, <4>1, <4>2, FlagsKeep DEF Marks, OsAt, CsAt
    <3> QED  BY <1>0, <2>h, <2>1, <3>0, <3>1, <3>3, <3>4, <3>5, CourseCalls DEF At
  <2>2. ASSUME In(t, "suPass"), Called(t, Command("password"), "return")
        PROVE  Course'
    <3>1. Within("suPass")
          BY <2>h, <2>2, WithinIs
    <3>0. Command("password") \in Frame /\ Command("password").at = "send" /\ Command("password").kind = "password" /\ Command("password").proc = SelfProcess /\ Command("password").eoe
          BY <1>0, <2>2, CommandIs DEF Kind
    <3>2. /\ TwoOn(stack'[t], Command("password"), Moving(t, "return"), Below(t))
          /\ Moving(t, "return") \in Frame /\ Moving(t, "return").at = "return" /\ Moving(t, "return").kind = Top(t).kind
          /\ Moving(t, "return").proc = Top(t).proc /\ Moving(t, "return").eoe = Top(t).eoe
          BY <1>0, <2>2, <3>0, CalledIs DEF At
    <3>k. Top(t).kind # "none"
          BY <1>0, <2>2, KindAt DEF SdAt
    <3>3. Moving(t, "return") \in Belongs(Nth)
          BY <2>2, <3>1, <3>2, <3>k DEF Within, Belongs, Flags, Cmd, CmdAt, KbAt, SfAt, SdAt,
             TdAt, CsAt, OsAt, SelfProcess, Long
    <3>5. Command("password") \in Belongs(Nth)
          BY <2>2, <3>1, <3>0 DEF Within, Belongs, Flags, Cmd, CmdAt, KbAt, SfAt, SdAt, TdAt,
             CsAt, OsAt, SelfProcess, Long
    <3>4. Flags'
      <4>1. Stays(t, {"suPass", "return", "send"})
        <5>1. Stays(t, {"suPass", "return", Command("password").at})
              BY <1>0, <2>2, <3>0, CallStays DEF At
        <5> QED  BY <3>0, <5>1
      <4>2. ~Idle'
            BY <3>0, <3>2, NotIdle
      <4> QED  BY <2>h, <2>f, <3>1, <4>1, <4>2, FlagsKeep DEF Marks, OsAt, CsAt
    <3> QED  BY <1>0, <2>h, <2>2, <3>0, <3>1, <3>3, <3>4, <3>5, CourseCalls DEF At
  <2> QED  BY <1>0, <1>18, <2>1, <2>2, SwitchUserLogsInMoves
<1>19. CASE SwitchUserOpens(t)
  <2>h. HoldsPlace /\ Scripted
    <3>1. ~In(Main, "script")
          BY <1>19 DEF SwitchUserOpens, In
    <3> QED  BY <3>1, <1>h DEF ScriptGoes
  <2>1. ASSUME In(t, "suOpen")
        PROVE  Course'
    <3>1. Within("suOpen")
          BY <2>h, <2>1, WithinIs
    <3> QED  BY <2>1, <3>1 DEF Within, Belongs, Flags, Cmd, CmdAt, KbAt, SfAt, SdAt, TdAt, CsAt,
                OsAt, SelfProcess, Long, EndAt
  <2> QED  BY <1>0, <1>19, <2>1, SwitchUserOpensMoves
<1>20. CASE SwitchUserEnds(t)
  <2>h. HoldsPlace /\ Scripted
    <3>1. ~In(Main, "script")
          BY <1>20 DEF SwitchUserEnds, In
    <3> QED  BY <3>1, <1>h DEF ScriptGoes
  <2>f. isCurrentUserRoot' = isCurrentUserRoot /\ isSshConn' = isSshConn
        BY <1>20 DEF SwitchUserEnds, still, conn
  <2>1. ASSUME In(t, "suOpened")
        PROVE  Course'
    <3>1. Within("suOpened")
          BY <2>h, <2>1, WithinIs
    <3> QED  BY <2>1, <3>1 DEF Within, Belongs, Flags, Cmd, CmdAt, KbAt, SfAt, SdAt, TdAt, CsAt,
                OsAt, SelfProcess, Long, EndAt
  <2>2. ASSUME Ended(t)
        PROVE  Course'
        BY <2>2 DEF Ended
  <2> QED  BY <1>0, <1>20, <2>1, <2>2, SwitchUserEndsMoves
<1>21. CASE OpenStarts(t)
  <2>h. HoldsPlace /\ Scripted
    <3>1. ~In(Main, "script")
          BY <1>21 DEF OpenStarts, In
    <3> QED  BY <3>1, <1>h DEF ScriptGoes
  <2>f. isCurrentUserRoot' = isCurrentUserRoot /\ isSshConn' = isSshConn
        BY <1>21 DEF OpenStarts, quiet, conn
  <2>1. ASSUME In(t, "os"), Returned(t, "failed")
        PROVE  Course'
    <3>1. Within("os")
          BY <2>h, <2>1, WithinIs
    <3>4. Flags'
      <4>1. Nth = 4 /\ Nth' = 4
            BY <2>h, <2>1, <3>1 DEF Within, Belongs, Flags, Cmd, CmdAt, KbAt, SfAt, SdAt, TdAt,
               CsAt, OsAt, SelfProcess, Long, HoldsPlace
      <4>3. ~Has(Below(t), OsAt) /\ ~Has(Below(t), {"os", "osSpawn"}) /\ ~Has(Below(t), {"osPass", "osIn"})
            BY <1>0, <2>1, UnderIs DEF Low3, OsAt
      <4>4. /\ ~Has(stack'[t], {"os", "osSpawn"}) /\ ~Has(stack'[t], {"osPass", "osIn"})
            /\ ret'[t] = "failed"
            BY <1>0, <2>1, <4>3 DEF Returned, TypeInv
      <4>5. Has(stack[t], {"osPass", "osIn"}) \/ "os" = "os"
            BY <1>0, <2>1, HereIs
      <4> QED  BY <2>f, <2>1, <3>1, <4>1, <4>4, <4>5 DEF Flags, Within, main
    <3> QED  BY <2>h, <2>1, <3>1, <3>4, CourseReturns
  <2>2. ASSUME In(t, "os"), Top(t).kind = "root"
        PROVE  Course'
    <3>1. Within("os")
          BY <2>h, <2>2, WithinIs
    <3> QED  BY <2>2, <3>1 DEF Within, Belongs, Flags, Cmd, CmdAt, KbAt, SfAt, SdAt, TdAt, CsAt,
                OsAt, SelfProcess, Long
  <2>3. ASSUME In(t, "os"), Went(t, "osSpawn")
        PROVE  Course'
    <3>1. Within("os")
          BY <2>h, <2>3, WithinIs
    <3>2. /\ OneOn(stack'[t], Moving(t, "osSpawn"), Below(t))
          /\ Moving(t, "osSpawn") \in Frame /\ Moving(t, "osSpawn").at = "osSpawn" /\ Moving(t, "osSpawn").kind = Top(t).kind
          /\ Moving(t, "osSpawn").proc = Top(t).proc /\ Moving(t, "osSpawn").eoe = Top(t).eoe
          BY <1>0, <2>3, WentIs DEF At
    <3>3. Moving(t, "osSpawn") \in Belongs(Nth)
          BY <2>3, <3>1, <3>2 DEF Within, Belongs, Flags, Cmd, CmdAt, KbAt, SfAt, SdAt, TdAt,
             CsAt, OsAt, SelfProcess, Long
    <3>4. Flags'
      <4>1. Nth = 4 /\ Nth' = 4
            BY <2>h, <2>3, <3>1 DEF Within, Belongs, Flags, Cmd, CmdAt, KbAt, SfAt, SdAt, TdAt,
               CsAt, OsAt, SelfProcess, Long, HoldsPlace
      <4>2. ~Idle'
            BY <3>2, NotIdleYet
      <4>3. ~Has(Below(t), {"osPass", "osIn"})
            BY <1>0, <2>3, UnderIs DEF Low3, OsAt
      <4>4. ~Has(stack'[t], {"osPass", "osIn"})
            BY <3>2, <4>3 DEF OneOn
      <4>5. Has(stack[t], {"os", "osSpawn"}) \/ "os" \notin {"os", "osSpawn"}
            BY <1>0, <2>3, HereIs
      <4> QED  BY <2>f, <2>3, <3>1, <4>1, <4>2, <4>4, <4>5 DEF Flags, Within, main
    <3> QED  BY <1>0, <2>h, <2>3, <3>1, <3>3, <3>4, CourseGoes DEF At
  <2> QED  BY <1>0, <1>21, <2>1, <2>2, <2>3, OpenStartsMoves
<1>22. CASE OpenSpawns(t)
  <2>h. HoldsPlace /\ Scripted
    <3>1. ~In(Main, "script")
          BY <1>22 DEF OpenSpawns, In
    <3> QED  BY <3>1, <1>h DEF ScriptGoes
  <2>f. isCurrentUserRoot' = isCurrentUserRoot
        BY <1>22 DEF OpenSpawns, quiet, conn
  <2>1. ASSUME In(t, "osSpawn"), isSshConn' = FALSE, Went(t, "os")
        PROVE  Course'
    <3>1. Within("osSpawn")
          BY <2>h, <2>1, WithinIs
    <3>2. /\ OneOn(stack'[t], Moving(t, "os"), Below(t))
          /\ Moving(t, "os") \in Frame /\ Moving(t, "os").at = "os" /\ Moving(t, "os").kind = Top(t).kind
          /\ Moving(t, "os").proc = Top(t).proc /\ Moving(t, "os").eoe = Top(t).eoe
          BY <1>0, <2>1, WentIs DEF At
    <3>3. Moving(t, "os") \in Belongs(Nth)
          BY <2>1, <3>1, <3>2 DEF Within, Belongs, Flags, Cmd, CmdAt, KbAt, SfAt, SdAt, TdAt,
             CsAt, OsAt, SelfProcess, Long
    <3>4. Flags'
      <4>1. Nth = 4 /\ Nth' = 4
            BY <2>h, <2>1, <3>1 DEF Within, Belongs, Flags, Cmd, CmdAt, KbAt, SfAt, SdAt, TdAt,
               CsAt, OsAt, SelfProcess, Long, HoldsPlace
      <4>2. ~Idle'
            BY <3>2, NotIdleYet
      <4>3. ~Has(Below(t), {"osPass", "osIn"})
            BY <1>0, <2>1, UnderIs DEF Low3, OsAt
      <4>4. ~Has(stack'[t], {"osPass", "osIn"})
            BY <3>2, <4>3 DEF OneOn
      <4>5. Has(stack[t], {"os", "osSpawn"}) \/ "osSpawn" \notin {"os", "osSpawn"}
            BY <1>0, <2>1, HereIs
      <4> QED  BY <2>f, <2>1, <3>1, <4>1, <4>2, <4>4, <4>5 DEF Flags, Within, main
    <3> QED  BY <1>0, <2>h, <2>1, <3>1, <3>3, <3>4, CourseGoes DEF At
  <2>2. ASSUME In(t, "osSpawn"), isSshConn' = TRUE, NEW f \in Frame, Prompt_OK(f),
               Called(t, f, "osPass")
        PROVE  Course'
    <3>1. Within("osSpawn")
          BY <2>h, <2>2, WithinIs
    <3>2. /\ TwoOn(stack'[t], f, Moving(t, "osPass"), Below(t))
          /\ Moving(t, "osPass") \in Frame /\ Moving(t, "osPass").at = "osPass" /\ Moving(t, "osPass").kind = Top(t).kind
          BY <1>0, <2>2, CalledIs DEF At
    <3>3. f \in Belongs(Nth) /\ Moving(t, "osPass") \in Belongs(Nth)
          BY <2>2, <3>1, <3>2 DEF Within, Belongs, Flags, Cmd, CmdAt, KbAt, SfAt, SdAt, TdAt,
             CsAt, OsAt, SelfProcess, Long, Prompt_OK
    <3>4. Flags'
      <4>1. Nth = 4 /\ Nth' = 4
            BY <2>h, <2>2, <3>1 DEF Within, Belongs, Flags, Cmd, CmdAt, KbAt, SfAt, SdAt, TdAt,
               CsAt, OsAt, SelfProcess, Long, HoldsPlace
      <4>2. ~Idle'
            BY <2>2, <3>2, NotIdle DEF Prompt_OK
      <4>3. ~Has(Below(t), {"os", "osSpawn"})
            BY <1>0, <2>2, UnderIs DEF Low3, OsAt
      <4>4. ~Has(stack'[t], {"os", "osSpawn"})
            BY <2>2, <3>2, <4>3 DEF TwoOn, Prompt_OK
      <4> QED  BY <2>f, <2>2, <3>1, <4>1, <4>2, <4>4 DEF Flags, Within, main
    <3> QED  BY <1>0, <2>h, <2>2, <3>1, <3>3, <3>4, CourseCalls DEF At
  <2> QED  BY <1>0, <1>22, <2>1, <2>2, OpenSpawnsMoves
<1>23. CASE OpenLogsIn(t)
  <2>h. HoldsPlace /\ Scripted
    <3>1. ~In(Main, "script")
          BY <1>23 DEF OpenLogsIn, In
    <3> QED  BY <3>1, <1>h DEF ScriptGoes
  <2>f. isCurrentUserRoot' = isCurrentUserRoot
        BY <1>23 DEF OpenLogsIn, quiet, conn
  <2>1. ASSUME In(t, "osPass"), isSshConn' = isSshConn,
               Called(t, TryOnce("sshPassword"), "osIn")
        PROVE  Course'
    <3>1. Within("osPass")
          BY <2>h, <2>1, WithinIs
    <3>0. TryOnce("sshPassword") \in Frame /\ TryOnce("sshPassword").at = "send" /\ TryOnce("sshPassword").kind = "sshPassword" /\ TryOnce("sshPassword").proc = SelfProcess
          BY <1>0, <2>1, CommandIs DEF Kind
    <3>2. /\ TwoOn(stack'[t], TryOnce("sshPassword"), Moving(t, "osIn"), Below(t))
          /\ Moving(t, "osIn") \in Frame /\ Moving(t, "osIn").at = "osIn" /\ Moving(t, "osIn").kind = Top(t).kind
          /\ Moving(t, "osIn").proc = Top(t).proc /\ Moving(t, "osIn").eoe = Top(t).eoe
          BY <1>0, <2>1, <3>0, CalledIs DEF At
    <3>3. Moving(t, "osIn") \in Belongs(Nth)
          BY <2>1, <3>1, <3>2 DEF Within, Belongs, Flags, Cmd, CmdAt, KbAt, SfAt, SdAt, TdAt,
             CsAt, OsAt, SelfProcess, Long
    <3>s. Nth = 4 /\ isSshConn
      <4>1. Has(main, {"osPass", "osIn"})
            BY <1>0, <2>1, HereIs DEF main
      <4>2. Nth = 4
            BY <2>1, <3>1 DEF Within, Belongs, Flags, Cmd, CmdAt, KbAt, SfAt, SdAt, TdAt, CsAt,
               OsAt, SelfProcess, Long
      <4> QED  BY <3>1, <4>1, <4>2 DEF Within, Flags
    <3>5. TryOnce("sshPassword") \in Belongs(Nth)
          BY <2>1, <3>1, <3>0, <3>s DEF Within, Belongs, Flags, Cmd, CmdAt, KbAt, SfAt, SdAt,
             TdAt, CsAt, OsAt, SelfProcess, Long
    <3>4. Flags'
      <4>1. Nth = 4 /\ Nth' = 4
            BY <2>h, <2>1, <3>1 DEF Within, Belongs, Flags, Cmd, CmdAt, KbAt, SfAt, SdAt, TdAt,
               CsAt, OsAt, SelfProcess, Long, HoldsPlace
      <4>2. ~Idle'
            BY <3>0, <3>2, NotIdle
      <4>3. ~Has(Below(t), {"os", "osSpawn"})
            BY <1>0, <2>1, UnderIs DEF Low3, OsAt
      <4>4. ~Has(stack'[t], {"os", "osSpawn"})
            BY <3>0, <3>2, <4>3 DEF TwoOn
      <4>5. Has(stack[t], {"osPass", "osIn"})
            BY <1>0, <2>1, HereIs
      <4> QED  BY <2>f, <2>1, <3>1, <4>1, <4>2, <4>4, <4>5 DEF Flags, Within, main
    <3> QED  BY <1>0, <2>h, <2>1, <3>0, <3>1, <3>3, <3>4, <3>5, CourseCalls DEF At
  <2>2. ASSUME In(t, "osPass"), isSshConn' = FALSE, Went(t, "os")
        PROVE  Course'
    <3>1. Within("osPass")
          BY <2>h, <2>2, WithinIs
    <3>2. /\ OneOn(stack'[t], Moving(t, "os"), Below(t))
          /\ Moving(t, "os") \in Frame /\ Moving(t, "os").at = "os" /\ Moving(t, "os").kind = Top(t).kind
          /\ Moving(t, "os").proc = Top(t).proc /\ Moving(t, "os").eoe = Top(t).eoe
          BY <1>0, <2>2, WentIs DEF At
    <3>3. Moving(t, "os") \in Belongs(Nth)
          BY <2>2, <3>1, <3>2 DEF Within, Belongs, Flags, Cmd, CmdAt, KbAt, SfAt, SdAt, TdAt,
             CsAt, OsAt, SelfProcess, Long
    <3>4. Flags'
      <4>1. Nth = 4 /\ Nth' = 4
            BY <2>h, <2>2, <3>1 DEF Within, Belongs, Flags, Cmd, CmdAt, KbAt, SfAt, SdAt, TdAt,
               CsAt, OsAt, SelfProcess, Long, HoldsPlace
      <4>2. ~Idle'
            BY <3>2, NotIdleYet
      <4>3. ~Has(Below(t), {"osPass", "osIn"})
            BY <1>0, <2>2, UnderIs DEF Low3, OsAt
      <4>4. ~Has(stack'[t], {"osPass", "osIn"})
            BY <3>2, <4>3 DEF OneOn
      <4>5. Has(stack[t], {"os", "osSpawn"}) \/ "osPass" \notin {"os", "osSpawn"}
            BY <1>0, <2>2, HereIs
      <4> QED  BY <2>f, <2>2, <3>1, <4>1, <4>2, <4>4, <4>5 DEF Flags, Within, main
    <3> QED  BY <1>0, <2>h, <2>2, <3>1, <3>3, <3>4, CourseGoes DEF At
  <2>3. ASSUME In(t, "osPass"), isSshConn' = isSshConn,
               Called(t, TryOnce("sshYes"), "osPass")
        PROVE  Course'
    <3>1. Within("osPass")
          BY <2>h, <2>3, WithinIs
    <3>0. TryOnce("sshYes") \in Frame /\ TryOnce("sshYes").at = "send" /\ TryOnce("sshYes").kind = "sshYes" /\ TryOnce("sshYes").proc = SelfProcess
          BY <1>0, <2>3, CommandIs DEF Kind
    <3>2. /\ TwoOn(stack'[t], TryOnce("sshYes"), Moving(t, "osPass"), Below(t))
          /\ Moving(t, "osPass") \in Frame /\ Moving(t, "osPass").at = "osPass" /\ Moving(t, "osPass").kind = Top(t).kind
          /\ Moving(t, "osPass").proc = Top(t).proc /\ Moving(t, "osPass").eoe = Top(t).eoe
          BY <1>0, <2>3, <3>0, CalledIs DEF At
    <3>3. Moving(t, "osPass") \in Belongs(Nth)
          BY <2>3, <3>1, <3>2 DEF Within, Belongs, Flags, Cmd, CmdAt, KbAt, SfAt, SdAt, TdAt,
             CsAt, OsAt, SelfProcess, Long
    <3>s. Nth = 4 /\ isSshConn
      <4>1. Has(main, {"osPass", "osIn"})
            BY <1>0, <2>3, HereIs DEF main
      <4>2. Nth = 4
            BY <2>3, <3>1 DEF Within, Belongs, Flags, Cmd, CmdAt, KbAt, SfAt, SdAt, TdAt, CsAt,
               OsAt, SelfProcess, Long
      <4> QED  BY <3>1, <4>1, <4>2 DEF Within, Flags
    <3>5. TryOnce("sshYes") \in Belongs(Nth)
          BY <2>3, <3>1, <3>0, <3>s DEF Within, Belongs, Flags, Cmd, CmdAt, KbAt, SfAt, SdAt,
             TdAt, CsAt, OsAt, SelfProcess, Long
    <3>4. Flags'
      <4>1. Nth = 4 /\ Nth' = 4
            BY <2>h, <2>3, <3>1 DEF Within, Belongs, Flags, Cmd, CmdAt, KbAt, SfAt, SdAt, TdAt,
               CsAt, OsAt, SelfProcess, Long, HoldsPlace
      <4>2. ~Idle'
            BY <3>0, <3>2, NotIdle
      <4>3. ~Has(Below(t), {"os", "osSpawn"})
            BY <1>0, <2>3, UnderIs DEF Low3, OsAt
      <4>4. ~Has(stack'[t], {"os", "osSpawn"})
            BY <3>0, <3>2, <4>3 DEF TwoOn
      <4>5. Has(stack[t], {"osPass", "osIn"})
            BY <1>0, <2>3, HereIs
      <4> QED  BY <2>f, <2>3, <3>1, <4>1, <4>2, <4>4, <4>5 DEF Flags, Within, main
    <3> QED  BY <1>0, <2>h, <2>3, <3>0, <3>1, <3>3, <3>4, <3>5, CourseCalls DEF At
  <2> QED  BY <1>0, <1>23, <2>1, <2>2, <2>3, OpenLogsInMoves
<1>24. CASE OpenEnds(t)
  <2>h. HoldsPlace /\ Scripted
    <3>1. ~In(Main, "script")
          BY <1>24 DEF OpenEnds, In
    <3> QED  BY <3>1, <1>h DEF ScriptGoes
  <2>f. isCurrentUserRoot' = isCurrentUserRoot
        BY <1>24 DEF OpenEnds, quiet, conn
  <2>1. ASSUME In(t, "osIn"), isSshConn' = isSshConn, Returned(t, "ok")
        PROVE  Course'
    <3>1. Within("osIn")
          BY <2>h, <2>1, WithinIs
    <3>4. Flags'
      <4>1. Nth = 4 /\ Nth' = 4
            BY <2>h, <2>1, <3>1 DEF Within, Belongs, Flags, Cmd, CmdAt, KbAt, SfAt, SdAt, TdAt,
               CsAt, OsAt, SelfProcess, Long, HoldsPlace
      <4>3. ~Has(Below(t), OsAt) /\ ~Has(Below(t), {"os", "osSpawn"}) /\ ~Has(Below(t), {"osPass", "osIn"})
            BY <1>0, <2>1, UnderIs DEF Low3, OsAt
      <4>4. /\ ~Has(stack'[t], {"os", "osSpawn"}) /\ ~Has(stack'[t], {"osPass", "osIn"})
            /\ ret'[t] = "ok"
            BY <1>0, <2>1, <4>3 DEF Returned, TypeInv
      <4>5. Has(stack[t], {"osPass", "osIn"}) \/ "osIn" = "os"
            BY <1>0, <2>1, HereIs
      <4> QED  BY <2>f, <2>1, <3>1, <4>1, <4>4, <4>5 DEF Flags, Within, main
    <3> QED  BY <2>h, <2>1, <3>1, <3>4, CourseReturns
  <2>2. ASSUME In(t, "osIn"), isSshConn' = FALSE, Went(t, "os")
        PROVE  Course'
    <3>1. Within("osIn")
          BY <2>h, <2>2, WithinIs
    <3>2. /\ OneOn(stack'[t], Moving(t, "os"), Below(t))
          /\ Moving(t, "os") \in Frame /\ Moving(t, "os").at = "os" /\ Moving(t, "os").kind = Top(t).kind
          /\ Moving(t, "os").proc = Top(t).proc /\ Moving(t, "os").eoe = Top(t).eoe
          BY <1>0, <2>2, WentIs DEF At
    <3>3. Moving(t, "os") \in Belongs(Nth)
          BY <2>2, <3>1, <3>2 DEF Within, Belongs, Flags, Cmd, CmdAt, KbAt, SfAt, SdAt, TdAt,
             CsAt, OsAt, SelfProcess, Long
    <3>4. Flags'
      <4>1. Nth = 4 /\ Nth' = 4
            BY <2>h, <2>2, <3>1 DEF Within, Belongs, Flags, Cmd, CmdAt, KbAt, SfAt, SdAt, TdAt,
               CsAt, OsAt, SelfProcess, Long, HoldsPlace
      <4>2. ~Idle'
            BY <3>2, NotIdleYet
      <4>3. ~Has(Below(t), {"osPass", "osIn"})
            BY <1>0, <2>2, UnderIs DEF Low3, OsAt
      <4>4. ~Has(stack'[t], {"osPass", "osIn"})
            BY <3>2, <4>3 DEF OneOn
      <4>5. Has(stack[t], {"os", "osSpawn"}) \/ "osIn" \notin {"os", "osSpawn"}
            BY <1>0, <2>2, HereIs
      <4> QED  BY <2>f, <2>2, <3>1, <4>1, <4>2, <4>4, <4>5 DEF Flags, Within, main
    <3> QED  BY <1>0, <2>h, <2>2, <3>1, <3>3, <3>4, CourseGoes DEF At
  <2> QED  BY <1>0, <1>24, <2>1, <2>2, OpenEndsMoves
<1>25. CASE CloseStarts(t)
  <2>h. HoldsPlace /\ Scripted
    <3>1. ~In(Main, "script")
          BY <1>25 DEF CloseStarts, In
    <3> QED  BY <3>1, <1>h DEF ScriptGoes
  <2>f. isCurrentUserRoot' = isCurrentUserRoot /\ isSshConn' = isSshConn
        BY <1>25 DEF CloseStarts, quiet, conn
  <2>1. ASSUME In(t, "cs"), Went(t, "csKill")
        PROVE  Course'
    <3>1. Within("cs")
          BY <2>h, <2>1, WithinIs
    <3>2. /\ OneOn(stack'[t], Moving(t, "csKill"), Below(t))
          /\ Moving(t, "csKill") \in Frame /\ Moving(t, "csKill").at = "csKill" /\ Moving(t, "csKill").kind = Top(t).kind
          /\ Moving(t, "csKill").proc = Top(t).proc /\ Moving(t, "csKill").eoe = Top(t).eoe
          BY <1>0, <2>1, WentIs DEF At
    <3>3. Moving(t, "csKill") \in Belongs(Nth)
          BY <2>1, <3>1, <3>2 DEF Within, Belongs, Flags, Cmd, CmdAt, KbAt, SfAt, SdAt, TdAt,
             CsAt, OsAt, SelfProcess, Long
    <3>4. Flags'
      <4>1. Nth = 7 /\ Nth' = 7
            BY <2>h, <2>1, <3>1 DEF Within, Belongs, Flags, Cmd, CmdAt, KbAt, SfAt, SdAt, TdAt,
               CsAt, OsAt, SelfProcess, Long, HoldsPlace
      <4>2. Has(stack[t], CsAt) /\ Has(stack'[t], CsAt)
            BY <1>0, <2>1, <3>2, HereIs DEF OneOn, CsAt
      <4> QED  BY <2>f, <3>1, <4>1, <4>2 DEF Flags, Within, main
    <3> QED  BY <1>0, <2>h, <2>1, <3>1, <3>3, <3>4, CourseGoes DEF At
  <2>2. ASSUME In(t, "cs"), Called(t, TryOnce("sshExit"), "csKill")
        PROVE  Course'
    <3>1. Within("cs")
          BY <2>h, <2>2, WithinIs
    <3>0. TryOnce("sshExit") \in Frame /\ TryOnce("sshExit").at = "send" /\ TryOnce("sshExit").kind = "sshExit" /\ TryOnce("sshExit").proc = SelfProcess
          BY <1>0, <2>2, CommandIs DEF Kind
    <3>2. /\ TwoOn(stack'[t], TryOnce("sshExit"), Moving(t, "csKill"), Below(t))
          /\ Moving(t, "csKill") \in Frame /\ Moving(t, "csKill").at = "csKill" /\ Moving(t, "csKill").kind = Top(t).kind
          /\ Moving(t, "csKill").proc = Top(t).proc /\ Moving(t, "csKill").eoe = Top(t).eoe
          BY <1>0, <2>2, <3>0, CalledIs DEF At
    <3>3. Moving(t, "csKill") \in Belongs(Nth)
          BY <2>2, <3>1, <3>2 DEF Within, Belongs, Flags, Cmd, CmdAt, KbAt, SfAt, SdAt, TdAt,
             CsAt, OsAt, SelfProcess, Long
    <3>5. TryOnce("sshExit") \in Belongs(Nth)
          BY <2>2, <3>1, <3>0 DEF Within, Belongs, Flags, Cmd, CmdAt, KbAt, SfAt, SdAt, TdAt,
             CsAt, OsAt, SelfProcess, Long
    <3>4. Flags'
      <4>1. Nth = 7 /\ Nth' = 7
            BY <2>h, <2>2, <3>1 DEF Within, Belongs, Flags, Cmd, CmdAt, KbAt, SfAt, SdAt, TdAt,
               CsAt, OsAt, SelfProcess, Long, HoldsPlace
      <4>a. \A A : Has(stack[t], A) <=> ("cs" \in A \/ Has(Below(t), A))
            BY <1>0, <2>2, HereIs
      <4>b. \A A : Has(stack'[t], A) <=> (TryOnce("sshExit").at \in A \/ Moving(t, "csKill").at \in A \/ Has(Below(t), A))
            BY <3>2 DEF TwoOn
      <4>2. Has(stack[t], CsAt) /\ Has(stack'[t], CsAt)
            BY <3>2, <4>a, <4>b DEF CsAt
      <4> QED  BY <2>f, <3>1, <4>1, <4>2 DEF Flags, Within, main
    <3> QED  BY <1>0, <2>h, <2>2, <3>0, <3>1, <3>3, <3>4, <3>5, CourseCalls DEF At
  <2> QED  BY <1>0, <1>25, <2>1, <2>2, CloseStartsMoves
<1>26. CASE Closes(t)
  <2>h. HoldsPlace /\ Scripted
    <3>1. ~In(Main, "script")
          BY <1>26 DEF Closes, In
    <3> QED  BY <3>1, <1>h DEF ScriptGoes
  <2>f. isCurrentUserRoot' = isCurrentUserRoot
        BY <1>26 DEF Closes, quiet, conn
  <2>1. ASSUME In(t, "csKill"), Returned(t, "ok")
        PROVE  Course'
    <3>1. Within("csKill")
          BY <2>h, <2>1, WithinIs
    <3>4. Flags'
      <4>1. Nth = 7 /\ Nth' = 7
            BY <2>h, <2>1, <3>1 DEF Within, Belongs, Flags, Cmd, CmdAt, KbAt, SfAt, SdAt, TdAt,
               CsAt, OsAt, SelfProcess, Long, HoldsPlace
      <4>2. ~Has(Below(t), CsAt) /\ isSshConn' = FALSE
            BY <1>0, <1>26, <2>1, UnderIs DEF Low, CsAt, Closes
      <4>3. ~Has(stack'[t], CsAt)
            BY <2>1, <4>2 DEF Returned
      <4> QED  BY <2>f, <3>1, <4>1, <4>2, <4>3 DEF Flags, Within, main
    <3> QED  BY <2>h, <2>1, <3>1, <3>4, CourseReturns
  <2> QED  BY <1>0, <1>26, <2>1, ClosesMoves
<1>27. CASE EnableRootSteps(t)
  <2>h. HoldsPlace /\ Scripted
    <3>1. ~In(Main, "script")
          BY <1>27 DEF EnableRootSteps, In
    <3> QED  BY <3>1, <1>h DEF ScriptGoes
  <2>f. isCurrentUserRoot' = isCurrentUserRoot /\ isSshConn' = isSshConn
        BY <1>27 DEF EnableRootSteps, quiet, conn
  <2>1. ASSUME In(t, "er")
        PROVE  Course'
    <3>1. Within("er")
          BY <2>h, <2>1, WithinIs
    <3> QED  BY <2>1, <3>1 DEF Within, Belongs, Flags, Cmd, CmdAt, KbAt, SfAt, SdAt, TdAt, CsAt,
                OsAt, SelfProcess, Long, EndAt
  <2>2. ASSUME In(t, "er")
        PROVE  Course'
    <3>1. Within("er")
          BY <2>h, <2>2, WithinIs
    <3> QED  BY <2>2, <3>1 DEF Within, Belongs, Flags, Cmd, CmdAt, KbAt, SfAt, SdAt, TdAt, CsAt,
                OsAt, SelfProcess, Long, EndAt
  <2>3. ASSUME In(t, "erEcho")
        PROVE  Course'
    <3>1. Within("erEcho")
          BY <2>h, <2>3, WithinIs
    <3> QED  BY <2>3, <3>1 DEF Within, Belongs, Flags, Cmd, CmdAt, KbAt, SfAt, SdAt, TdAt, CsAt,
                OsAt, SelfProcess, Long, EndAt
  <2>4. ASSUME In(t, "erService")
        PROVE  Course'
    <3>1. Within("erService")
          BY <2>h, <2>4, WithinIs
    <3> QED  BY <2>4, <3>1 DEF Within, Belongs, Flags, Cmd, CmdAt, KbAt, SfAt, SdAt, TdAt, CsAt,
                OsAt, SelfProcess, Long, EndAt
  <2>5. ASSUME In(t, "erDone")
        PROVE  Course'
    <3>1. Within("erDone")
          BY <2>h, <2>5, WithinIs
    <3> QED  BY <2>5, <3>1 DEF Within, Belongs, Flags, Cmd, CmdAt, KbAt, SfAt, SdAt, TdAt, CsAt,
                OsAt, SelfProcess, Long, EndAt
  <2> QED  BY <1>0, <1>27, <1>r, <2>1, <2>2, <2>3, <2>4, <2>5, EnableRootMoves
<1>28. CASE SendFileJoins(t)
  <2>h. HoldsPlace /\ Scripted
    <3>1. ~In(Main, "script")
          BY <1>28 DEF SendFileJoins, In
    <3> QED  BY <3>1, <1>h DEF ScriptGoes
  <2>f. isCurrentUserRoot' = isCurrentUserRoot /\ isSshConn' = isSshConn
        BY <1>28 DEF SendFileJoins, rest, conn
  <2>1. ASSUME In(t, "sfJoin"), Called(t, Try("exists"), "sfExists")
        PROVE  Course'
    <3>1. Within("sfJoin")
          BY <2>h, <2>1, WithinIs
    <3>0. Try("exists") \in Frame /\ Try("exists").at = "send" /\ Try("exists").kind = "exists" /\ Try("exists").proc = SelfProcess
          BY <1>0, <2>1, CommandIs DEF Kind
    <3>2. /\ TwoOn(stack'[t], Try("exists"), Moving(t, "sfExists"), Below(t))
          /\ Moving(t, "sfExists") \in Frame /\ Moving(t, "sfExists").at = "sfExists" /\ Moving(t, "sfExists").kind = Top(t).kind
          /\ Moving(t, "sfExists").proc = Top(t).proc /\ Moving(t, "sfExists").eoe = Top(t).eoe
          BY <1>0, <2>1, <3>0, CalledIs DEF At
    <3>3. Moving(t, "sfExists") \in Belongs(Nth)
          BY <2>1, <3>1, <3>2 DEF Within, Belongs, Flags, Cmd, CmdAt, KbAt, SfAt, SdAt, TdAt,
             CsAt, OsAt, SelfProcess, Long
    <3>5. Try("exists") \in Belongs(Nth)
          BY <2>1, <3>1, <3>0 DEF Within, Belongs, Flags, Cmd, CmdAt, KbAt, SfAt, SdAt, TdAt,
             CsAt, OsAt, SelfProcess, Long
    <3>4. Flags'
      <4>1. Stays(t, {"sfJoin", "sfExists", "send"})
        <5>1. Stays(t, {"sfJoin", "sfExists", Try("exists").at})
              BY <1>0, <2>1, <3>0, CallStays DEF At
        <5> QED  BY <3>0, <5>1
      <4>2. ~Idle'
            BY <3>0, <3>2, NotIdle
      <4> QED  BY <2>h, <2>f, <3>1, <4>1, <4>2, FlagsKeep DEF Marks, OsAt, CsAt
    <3> QED  BY <1>0, <2>h, <2>1, <3>0, <3>1, <3>3, <3>4, <3>5, CourseCalls DEF At
  <2>2. ASSUME In(t, "sfJoin"), isSshConn, Went(t, "sfRetry")
        PROVE  Course'
    <3>1. Within("sfJoin")
          BY <2>h, <2>2, WithinIs
    <3>2. /\ OneOn(stack'[t], Moving(t, "sfRetry"), Below(t))
          /\ Moving(t, "sfRetry") \in Frame /\ Moving(t, "sfRetry").at = "sfRetry" /\ Moving(t, "sfRetry").kind = Top(t).kind
          /\ Moving(t, "sfRetry").proc = Top(t).proc /\ Moving(t, "sfRetry").eoe = Top(t).eoe
          BY <1>0, <2>2, WentIs DEF At
    <3>3. Moving(t, "sfRetry") \in Belongs(Nth)
          BY <2>2, <3>1, <3>2 DEF Within, Belongs, Flags, Cmd, CmdAt, KbAt, SfAt, SdAt, TdAt,
             CsAt, OsAt, SelfProcess, Long
    <3>4. Flags'
      <4>1. Stays(t, {"sfJoin", "sfRetry"})
            BY <1>0, <2>2, GoStays DEF At
      <4>2. ~Idle'
            BY <3>2, NotIdleYet
      <4> QED  BY <2>h, <2>f, <3>1, <4>1, <4>2, FlagsKeep DEF Marks, OsAt, CsAt
    <3> QED  BY <1>0, <2>h, <2>2, <3>1, <3>3, <3>4, CourseGoes DEF At
  <2>3. ASSUME In(t, "sfJoin"), ~isSshConn, Called(t, Interrupt(SelfProcess), "sfRetry")
        PROVE  Course'
    <3>1. Within("sfJoin")
          BY <2>h, <2>3, WithinIs
    <3>0. Interrupt(SelfProcess) \in Frame /\ Interrupt(SelfProcess).at = "kb" /\ Interrupt(SelfProcess).proc = SelfProcess
          BY <1>0, <2>3, KbIs, Acts
    <3>2. /\ TwoOn(stack'[t], Interrupt(SelfProcess), Moving(t, "sfRetry"), Below(t))
          /\ Moving(t, "sfRetry") \in Frame /\ Moving(t, "sfRetry").at = "sfRetry" /\ Moving(t, "sfRetry").kind = Top(t).kind
          /\ Moving(t, "sfRetry").proc = Top(t).proc /\ Moving(t, "sfRetry").eoe = Top(t).eoe
          BY <1>0, <2>3, <3>0, CalledIs DEF At
    <3>3. Moving(t, "sfRetry") \in Belongs(Nth)
          BY <2>3, <3>1, <3>2 DEF Within, Belongs, Flags, Cmd, CmdAt, KbAt, SfAt, SdAt, TdAt,
             CsAt, OsAt, SelfProcess, Long
    <3>5. Interrupt(SelfProcess) \in Belongs(Nth)
          BY <2>3, <3>1, <3>0 DEF Within, Belongs, Flags, Cmd, CmdAt, KbAt, SfAt, SdAt, TdAt,
             CsAt, OsAt, SelfProcess, Long
    <3>4. Flags'
      <4>1. Stays(t, {"sfJoin", "sfRetry", "kb"})
        <5>1. Stays(t, {"sfJoin", "sfRetry", Interrupt(SelfProcess).at})
              BY <1>0, <2>3, <3>0, CallStays DEF At
        <5> QED  BY <3>0, <5>1
      <4>2. ~Idle'
            BY <3>0, <3>2, NotIdle
      <4> QED  BY <2>h, <2>f, <3>1, <4>1, <4>2, FlagsKeep DEF Marks, OsAt, CsAt
    <3> QED  BY <1>0, <2>h, <2>3, <3>0, <3>1, <3>3, <3>4, <3>5, CourseCalls DEF At
  <2> QED  BY <1>0, <1>28, <2>1, <2>2, <2>3, SendFileJoinsMoves DEF BacksOff
<1>29. CASE SendFileExists(t)
  <2>h. HoldsPlace /\ Scripted
    <3>1. ~In(Main, "script")
          BY <1>29 DEF SendFileExists, In
    <3> QED  BY <3>1, <1>h DEF ScriptGoes
  <2>f. isCurrentUserRoot' = isCurrentUserRoot /\ isSshConn' = isSshConn
        BY <1>29 DEF SendFileExists, rest, conn
  <2>1. ASSUME In(t, "sfExists"), Went(t, "sfCheck")
        PROVE  Course'
    <3>1. Within("sfExists")
          BY <2>h, <2>1, WithinIs
    <3>2. /\ OneOn(stack'[t], Moving(t, "sfCheck"), Below(t))
          /\ Moving(t, "sfCheck") \in Frame /\ Moving(t, "sfCheck").at = "sfCheck" /\ Moving(t, "sfCheck").kind = Top(t).kind
          /\ Moving(t, "sfCheck").proc = Top(t).proc /\ Moving(t, "sfCheck").eoe = Top(t).eoe
          BY <1>0, <2>1, WentIs DEF At
    <3>3. Moving(t, "sfCheck") \in Belongs(Nth)
          BY <2>1, <3>1, <3>2 DEF Within, Belongs, Flags, Cmd, CmdAt, KbAt, SfAt, SdAt, TdAt,
             CsAt, OsAt, SelfProcess, Long
    <3>4. Flags'
      <4>1. Stays(t, {"sfExists", "sfCheck"})
            BY <1>0, <2>1, GoStays DEF At
      <4>2. ~Idle'
            BY <3>2, NotIdleYet
      <4> QED  BY <2>h, <2>f, <3>1, <4>1, <4>2, FlagsKeep DEF Marks, OsAt, CsAt
    <3> QED  BY <1>0, <2>h, <2>1, <3>1, <3>3, <3>4, CourseGoes DEF At
  <2>2. ASSUME In(t, "sfExists"), isSshConn, Went(t, "sfRetry")
        PROVE  Course'
    <3>1. Within("sfExists")
          BY <2>h, <2>2, WithinIs
    <3>2. /\ OneOn(stack'[t], Moving(t, "sfRetry"), Below(t))
          /\ Moving(t, "sfRetry") \in Frame /\ Moving(t, "sfRetry").at = "sfRetry" /\ Moving(t, "sfRetry").kind = Top(t).kind
          /\ Moving(t, "sfRetry").proc = Top(t).proc /\ Moving(t, "sfRetry").eoe = Top(t).eoe
          BY <1>0, <2>2, WentIs DEF At
    <3>3. Moving(t, "sfRetry") \in Belongs(Nth)
          BY <2>2, <3>1, <3>2 DEF Within, Belongs, Flags, Cmd, CmdAt, KbAt, SfAt, SdAt, TdAt,
             CsAt, OsAt, SelfProcess, Long
    <3>4. Flags'
      <4>1. Stays(t, {"sfExists", "sfRetry"})
            BY <1>0, <2>2, GoStays DEF At
      <4>2. ~Idle'
            BY <3>2, NotIdleYet
      <4> QED  BY <2>h, <2>f, <3>1, <4>1, <4>2, FlagsKeep DEF Marks, OsAt, CsAt
    <3> QED  BY <1>0, <2>h, <2>2, <3>1, <3>3, <3>4, CourseGoes DEF At
  <2>3. ASSUME In(t, "sfExists"), ~isSshConn, Called(t, Interrupt(SelfProcess), "sfRetry")
        PROVE  Course'
    <3>1. Within("sfExists")
          BY <2>h, <2>3, WithinIs
    <3>0. Interrupt(SelfProcess) \in Frame /\ Interrupt(SelfProcess).at = "kb" /\ Interrupt(SelfProcess).proc = SelfProcess
          BY <1>0, <2>3, KbIs, Acts
    <3>2. /\ TwoOn(stack'[t], Interrupt(SelfProcess), Moving(t, "sfRetry"), Below(t))
          /\ Moving(t, "sfRetry") \in Frame /\ Moving(t, "sfRetry").at = "sfRetry" /\ Moving(t, "sfRetry").kind = Top(t).kind
          /\ Moving(t, "sfRetry").proc = Top(t).proc /\ Moving(t, "sfRetry").eoe = Top(t).eoe
          BY <1>0, <2>3, <3>0, CalledIs DEF At
    <3>3. Moving(t, "sfRetry") \in Belongs(Nth)
          BY <2>3, <3>1, <3>2 DEF Within, Belongs, Flags, Cmd, CmdAt, KbAt, SfAt, SdAt, TdAt,
             CsAt, OsAt, SelfProcess, Long
    <3>5. Interrupt(SelfProcess) \in Belongs(Nth)
          BY <2>3, <3>1, <3>0 DEF Within, Belongs, Flags, Cmd, CmdAt, KbAt, SfAt, SdAt, TdAt,
             CsAt, OsAt, SelfProcess, Long
    <3>4. Flags'
      <4>1. Stays(t, {"sfExists", "sfRetry", "kb"})
        <5>1. Stays(t, {"sfExists", "sfRetry", Interrupt(SelfProcess).at})
              BY <1>0, <2>3, <3>0, CallStays DEF At
        <5> QED  BY <3>0, <5>1
      <4>2. ~Idle'
            BY <3>0, <3>2, NotIdle
      <4> QED  BY <2>h, <2>f, <3>1, <4>1, <4>2, FlagsKeep DEF Marks, OsAt, CsAt
    <3> QED  BY <1>0, <2>h, <2>3, <3>0, <3>1, <3>3, <3>4, <3>5, CourseCalls DEF At
  <2> QED  BY <1>0, <1>29, <2>1, <2>2, <2>3, SendFileExistsMoves DEF BacksOff
<1>30. CASE SendFileChecks(t)
  <2>h. HoldsPlace /\ Scripted
    <3>1. ~In(Main, "script")
          BY <1>30 DEF SendFileChecks, In
    <3> QED  BY <3>1, <1>h DEF ScriptGoes
  <2>f. isCurrentUserRoot' = isCurrentUserRoot /\ isSshConn' = isSshConn
        BY <1>30 DEF SendFileChecks, rest, conn
  <2>1. ASSUME In(t, "sfCheck"), Called(t, Command("plain"), "sfSum")
        PROVE  Course'
    <3>1. Within("sfCheck")
          BY <2>h, <2>1, WithinIs
    <3>0. Command("plain") \in Frame /\ Command("plain").at = "send" /\ Command("plain").kind = "plain" /\ Command("plain").proc = SelfProcess /\ Command("plain").eoe
          BY <1>0, <2>1, CommandIs DEF Kind
    <3>2. /\ TwoOn(stack'[t], Command("plain"), Moving(t, "sfSum"), Below(t))
          /\ Moving(t, "sfSum") \in Frame /\ Moving(t, "sfSum").at = "sfSum" /\ Moving(t, "sfSum").kind = Top(t).kind
          /\ Moving(t, "sfSum").proc = Top(t).proc /\ Moving(t, "sfSum").eoe = Top(t).eoe
          BY <1>0, <2>1, <3>0, CalledIs DEF At
    <3>3. Moving(t, "sfSum") \in Belongs(Nth)
          BY <2>1, <3>1, <3>2 DEF Within, Belongs, Flags, Cmd, CmdAt, KbAt, SfAt, SdAt, TdAt,
             CsAt, OsAt, SelfProcess, Long
    <3>5. Command("plain") \in Belongs(Nth)
          BY <2>1, <3>1, <3>0 DEF Within, Belongs, Flags, Cmd, CmdAt, KbAt, SfAt, SdAt, TdAt,
             CsAt, OsAt, SelfProcess, Long
    <3>4. Flags'
      <4>1. Stays(t, {"sfCheck", "sfSum", "send"})
        <5>1. Stays(t, {"sfCheck", "sfSum", Command("plain").at})
              BY <1>0, <2>1, <3>0, CallStays DEF At
        <5> QED  BY <3>0, <5>1
      <4>2. ~Idle'
            BY <3>0, <3>2, NotIdle
      <4> QED  BY <2>h, <2>f, <3>1, <4>1, <4>2, FlagsKeep DEF Marks, OsAt, CsAt
    <3> QED  BY <1>0, <2>h, <2>1, <3>0, <3>1, <3>3, <3>4, <3>5, CourseCalls DEF At
  <2>2. ASSUME In(t, "sfSum"), isSshConn, Went(t, "sfGiveUp")
        PROVE  Course'
    <3>1. Within("sfSum")
          BY <2>h, <2>2, WithinIs
    <3>2. /\ OneOn(stack'[t], Moving(t, "sfGiveUp"), Below(t))
          /\ Moving(t, "sfGiveUp") \in Frame /\ Moving(t, "sfGiveUp").at = "sfGiveUp" /\ Moving(t, "sfGiveUp").kind = Top(t).kind
          /\ Moving(t, "sfGiveUp").proc = Top(t).proc /\ Moving(t, "sfGiveUp").eoe = Top(t).eoe
          BY <1>0, <2>2, WentIs DEF At
    <3>3. Moving(t, "sfGiveUp") \in Belongs(Nth)
          BY <2>2, <3>1, <3>2 DEF Within, Belongs, Flags, Cmd, CmdAt, KbAt, SfAt, SdAt, TdAt,
             CsAt, OsAt, SelfProcess, Long
    <3>4. Flags'
      <4>1. Stays(t, {"sfSum", "sfGiveUp"})
            BY <1>0, <2>2, GoStays DEF At
      <4>2. ~Idle'
            BY <3>2, NotIdleYet
      <4> QED  BY <2>h, <2>f, <3>1, <4>1, <4>2, FlagsKeep DEF Marks, OsAt, CsAt
    <3> QED  BY <1>0, <2>h, <2>2, <3>1, <3>3, <3>4, CourseGoes DEF At
  <2>3. ASSUME In(t, "sfSum"), ~isSshConn, Called(t, Interrupt(SelfProcess), "sfGiveUp")
        PROVE  Course'
    <3>1. Within("sfSum")
          BY <2>h, <2>3, WithinIs
    <3>0. Interrupt(SelfProcess) \in Frame /\ Interrupt(SelfProcess).at = "kb" /\ Interrupt(SelfProcess).proc = SelfProcess
          BY <1>0, <2>3, KbIs, Acts
    <3>2. /\ TwoOn(stack'[t], Interrupt(SelfProcess), Moving(t, "sfGiveUp"), Below(t))
          /\ Moving(t, "sfGiveUp") \in Frame /\ Moving(t, "sfGiveUp").at = "sfGiveUp" /\ Moving(t, "sfGiveUp").kind = Top(t).kind
          /\ Moving(t, "sfGiveUp").proc = Top(t).proc /\ Moving(t, "sfGiveUp").eoe = Top(t).eoe
          BY <1>0, <2>3, <3>0, CalledIs DEF At
    <3>3. Moving(t, "sfGiveUp") \in Belongs(Nth)
          BY <2>3, <3>1, <3>2 DEF Within, Belongs, Flags, Cmd, CmdAt, KbAt, SfAt, SdAt, TdAt,
             CsAt, OsAt, SelfProcess, Long
    <3>5. Interrupt(SelfProcess) \in Belongs(Nth)
          BY <2>3, <3>1, <3>0 DEF Within, Belongs, Flags, Cmd, CmdAt, KbAt, SfAt, SdAt, TdAt,
             CsAt, OsAt, SelfProcess, Long
    <3>4. Flags'
      <4>1. Stays(t, {"sfSum", "sfGiveUp", "kb"})
        <5>1. Stays(t, {"sfSum", "sfGiveUp", Interrupt(SelfProcess).at})
              BY <1>0, <2>3, <3>0, CallStays DEF At
        <5> QED  BY <3>0, <5>1
      <4>2. ~Idle'
            BY <3>0, <3>2, NotIdle
      <4> QED  BY <2>h, <2>f, <3>1, <4>1, <4>2, FlagsKeep DEF Marks, OsAt, CsAt
    <3> QED  BY <1>0, <2>h, <2>3, <3>0, <3>1, <3>3, <3>4, <3>5, CourseCalls DEF At
  <2>4. ASSUME In(t, "sfSum"), isSshConn, Went(t, "sfRetry")
        PROVE  Course'
    <3>1. Within("sfSum")
          BY <2>h, <2>4, WithinIs
    <3>2. /\ OneOn(stack'[t], Moving(t, "sfRetry"), Below(t))
          /\ Moving(t, "sfRetry") \in Frame /\ Moving(t, "sfRetry").at = "sfRetry" /\ Moving(t, "sfRetry").kind = Top(t).kind
          /\ Moving(t, "sfRetry").proc = Top(t).proc /\ Moving(t, "sfRetry").eoe = Top(t).eoe
          BY <1>0, <2>4, WentIs DEF At
    <3>3. Moving(t, "sfRetry") \in Belongs(Nth)
          BY <2>4, <3>1, <3>2 DEF Within, Belongs, Flags, Cmd, CmdAt, KbAt, SfAt, SdAt, TdAt,
             CsAt, OsAt, SelfProcess, Long
    <3>4. Flags'
      <4>1. Stays(t, {"sfSum", "sfRetry"})
            BY <1>0, <2>4, GoStays DEF At
      <4>2. ~Idle'
            BY <3>2, NotIdleYet
      <4> QED  BY <2>h, <2>f, <3>1, <4>1, <4>2, FlagsKeep DEF Marks, OsAt, CsAt
    <3> QED  BY <1>0, <2>h, <2>4, <3>1, <3>3, <3>4, CourseGoes DEF At
  <2>5. ASSUME In(t, "sfSum"), ~isSshConn, Called(t, Interrupt(SelfProcess), "sfRetry")
        PROVE  Course'
    <3>1. Within("sfSum")
          BY <2>h, <2>5, WithinIs
    <3>0. Interrupt(SelfProcess) \in Frame /\ Interrupt(SelfProcess).at = "kb" /\ Interrupt(SelfProcess).proc = SelfProcess
          BY <1>0, <2>5, KbIs, Acts
    <3>2. /\ TwoOn(stack'[t], Interrupt(SelfProcess), Moving(t, "sfRetry"), Below(t))
          /\ Moving(t, "sfRetry") \in Frame /\ Moving(t, "sfRetry").at = "sfRetry" /\ Moving(t, "sfRetry").kind = Top(t).kind
          /\ Moving(t, "sfRetry").proc = Top(t).proc /\ Moving(t, "sfRetry").eoe = Top(t).eoe
          BY <1>0, <2>5, <3>0, CalledIs DEF At
    <3>3. Moving(t, "sfRetry") \in Belongs(Nth)
          BY <2>5, <3>1, <3>2 DEF Within, Belongs, Flags, Cmd, CmdAt, KbAt, SfAt, SdAt, TdAt,
             CsAt, OsAt, SelfProcess, Long
    <3>5. Interrupt(SelfProcess) \in Belongs(Nth)
          BY <2>5, <3>1, <3>0 DEF Within, Belongs, Flags, Cmd, CmdAt, KbAt, SfAt, SdAt, TdAt,
             CsAt, OsAt, SelfProcess, Long
    <3>4. Flags'
      <4>1. Stays(t, {"sfSum", "sfRetry", "kb"})
        <5>1. Stays(t, {"sfSum", "sfRetry", Interrupt(SelfProcess).at})
              BY <1>0, <2>5, <3>0, CallStays DEF At
        <5> QED  BY <3>0, <5>1
      <4>2. ~Idle'
            BY <3>0, <3>2, NotIdle
      <4> QED  BY <2>h, <2>f, <3>1, <4>1, <4>2, FlagsKeep DEF Marks, OsAt, CsAt
    <3> QED  BY <1>0, <2>h, <2>5, <3>0, <3>1, <3>3, <3>4, <3>5, CourseCalls DEF At
  <2>6. ASSUME In(t, "sfSum"), Returned(t, "ok")
        PROVE  Course'
    <3>1. Within("sfSum")
          BY <2>h, <2>6, WithinIs
    <3>4. Flags'
      <4>1. Stays(t, {"sfSum"})
            BY <1>0, <2>6, ReturnStays
      <4>2. Idle' => Head(Below(t)).at = "script"
            BY <2>6 DEF Idle, TopIs, Returned, main
      <4> QED  BY <2>h, <2>f, <3>1, <4>1, <4>2, FlagsKeep DEF Marks, OsAt, CsAt
    <3> QED  BY <2>h, <2>6, <3>1, <3>4, CourseReturns
  <2>7. ASSUME Ended(t)
        PROVE  Course'
        BY <2>7 DEF Ended
  <2> QED  BY <1>0, <1>30, <2>1, <2>2, <2>3, <2>4, <2>5, <2>6, <2>7,
              SendFileChecksMoves DEF BacksOff
<1>31. CASE SendFileRetries(t)
  <2>h. HoldsPlace /\ Scripted
    <3>1. ~In(Main, "script")
          BY <1>31 DEF SendFileRetries, In
    <3> QED  BY <3>1, <1>h DEF ScriptGoes
  <2>f. isCurrentUserRoot' = isCurrentUserRoot /\ isSshConn' = isSshConn
        BY <1>31 DEF SendFileRetries, rest, conn
  <2>1. ASSUME In(t, "sfRetry"), Went(t, "sf")
        PROVE  Course'
    <3>1. Within("sfRetry")
          BY <2>h, <2>1, WithinIs
    <3>2. /\ OneOn(stack'[t], Moving(t, "sf"), Below(t))
          /\ Moving(t, "sf") \in Frame /\ Moving(t, "sf").at = "sf" /\ Moving(t, "sf").kind = Top(t).kind
          /\ Moving(t, "sf").proc = Top(t).proc /\ Moving(t, "sf").eoe = Top(t).eoe
          BY <1>0, <2>1, WentIs DEF At
    <3>3. Moving(t, "sf") \in Belongs(Nth)
          BY <2>1, <3>1, <3>2 DEF Within, Belongs, Flags, Cmd, CmdAt, KbAt, SfAt, SdAt, TdAt,
             CsAt, OsAt, SelfProcess, Long
    <3>4. Flags'
      <4>1. Stays(t, {"sfRetry", "sf"})
            BY <1>0, <2>1, GoStays DEF At
      <4>2. ~Idle'
            BY <3>2, NotIdleYet
      <4> QED  BY <2>h, <2>f, <3>1, <4>1, <4>2, FlagsKeep DEF Marks, OsAt, CsAt
    <3> QED  BY <1>0, <2>h, <2>1, <3>1, <3>3, <3>4, CourseGoes DEF At
  <2>2. ASSUME Ended(t)
        PROVE  Course'
        BY <2>2 DEF Ended
  <2> QED  BY <1>0, <1>31, <2>1, <2>2, SendFileRetriesMoves
<1>32. CASE SendFileStarts(t)
  <2>h. HoldsPlace /\ Scripted
    <3>1. ~In(Main, "script")
          BY <1>32 DEF SendFileStarts, In
    <3> QED  BY <3>1, <1>h DEF ScriptGoes
  <2>f. isCurrentUserRoot' = isCurrentUserRoot /\ isSshConn' = isSshConn
        BY <1>32 DEF SendFileStarts, rest, conn
  <2>1. ASSUME In(t, "sf"), ~isSshConn, Listening(t)
        PROVE  Course'
    <3>1. Within("sf")
          BY <2>h, <2>1, WithinIs
    <3> DEFINE m == Moving(t, "sfJoin")
    <3>a. Top(t) \in Frame /\ "sfJoin" \in At
          BY <3>1 DEF Within, At
    <3>2. m \in Frame /\ m.at = "sfJoin" /\ m.proc = Top(t).proc
          BY <3>a, Moved DEF Moving
    <3>3. stack'[t] = Push(m, Below(t))
          BY <2>1 DEF Listening, Moving
    <3> HIDE DEF m
    <3>4. OneOn(stack'[t], m, Below(t))
          BY <3>1, <3>2, <3>3, OneIs DEF Within
    <3>5. Nth = 1 /\ Nth' = 1
          BY <2>h, <2>1, <3>1 DEF Within, Belongs, Flags, Cmd, CmdAt, KbAt, SfAt, SdAt, TdAt,
             CsAt, OsAt, SelfProcess, Long, HoldsPlace
    <3>6. m \in Belongs(1)
          BY <2>1, <3>1, <3>2, <3>5 DEF Within, Belongs, Flags, Cmd, CmdAt, KbAt, SfAt, SdAt,
             TdAt, CsAt, OsAt, SelfProcess, Long
    <3>7. Calls(stack'[Main], Belongs(Nth'))
          BY <3>1, <3>4, <3>5, <3>6 DEF OneOn, Within
    <3>8. Flags'
          BY <2>f, <3>1, <3>5 DEF Flags, Within
    <3> QED  BY <3>5, <3>7, <3>8, CourseThen
  <2>2. ASSUME In(t, "sf"), isSshConn, Went(t, "sfRetry")
        PROVE  Course'
    <3>1. Within("sf")
          BY <2>h, <2>2, WithinIs
    <3>2. /\ OneOn(stack'[t], Moving(t, "sfRetry"), Below(t))
          /\ Moving(t, "sfRetry") \in Frame /\ Moving(t, "sfRetry").at = "sfRetry" /\ Moving(t, "sfRetry").kind = Top(t).kind
          /\ Moving(t, "sfRetry").proc = Top(t).proc /\ Moving(t, "sfRetry").eoe = Top(t).eoe
          BY <1>0, <2>2, WentIs DEF At
    <3>3. Moving(t, "sfRetry") \in Belongs(Nth)
          BY <2>2, <3>1, <3>2 DEF Within, Belongs, Flags, Cmd, CmdAt, KbAt, SfAt, SdAt, TdAt,
             CsAt, OsAt, SelfProcess, Long
    <3>4. Flags'
      <4>1. Stays(t, {"sf", "sfRetry"})
            BY <1>0, <2>2, GoStays DEF At
      <4>2. ~Idle'
            BY <3>2, NotIdleYet
      <4> QED  BY <2>h, <2>f, <3>1, <4>1, <4>2, FlagsKeep DEF Marks, OsAt, CsAt
    <3> QED  BY <1>0, <2>h, <2>2, <3>1, <3>3, <3>4, CourseGoes DEF At
  <2>3. ASSUME In(t, "sf"), isSshConn, Called(t, Interrupt(SelfProcess), "sfCheck")
        PROVE  Course'
    <3>1. Within("sf")
          BY <2>h, <2>3, WithinIs
    <3>0. Interrupt(SelfProcess) \in Frame /\ Interrupt(SelfProcess).at = "kb" /\ Interrupt(SelfProcess).proc = SelfProcess
          BY <1>0, <2>3, KbIs, Acts
    <3>2. /\ TwoOn(stack'[t], Interrupt(SelfProcess), Moving(t, "sfCheck"), Below(t))
          /\ Moving(t, "sfCheck") \in Frame /\ Moving(t, "sfCheck").at = "sfCheck" /\ Moving(t, "sfCheck").kind = Top(t).kind
          /\ Moving(t, "sfCheck").proc = Top(t).proc /\ Moving(t, "sfCheck").eoe = Top(t).eoe
          BY <1>0, <2>3, <3>0, CalledIs DEF At
    <3>3. Moving(t, "sfCheck") \in Belongs(Nth)
          BY <2>3, <3>1, <3>2 DEF Within, Belongs, Flags, Cmd, CmdAt, KbAt, SfAt, SdAt, TdAt,
             CsAt, OsAt, SelfProcess, Long
    <3>5. Interrupt(SelfProcess) \in Belongs(Nth)
          BY <2>3, <3>1, <3>0 DEF Within, Belongs, Flags, Cmd, CmdAt, KbAt, SfAt, SdAt, TdAt,
             CsAt, OsAt, SelfProcess, Long
    <3>4. Flags'
      <4>1. Stays(t, {"sf", "sfCheck", "kb"})
        <5>1. Stays(t, {"sf", "sfCheck", Interrupt(SelfProcess).at})
              BY <1>0, <2>3, <3>0, CallStays DEF At
        <5> QED  BY <3>0, <5>1
      <4>2. ~Idle'
            BY <3>0, <3>2, NotIdle
      <4> QED  BY <2>h, <2>f, <3>1, <4>1, <4>2, FlagsKeep DEF Marks, OsAt, CsAt
    <3> QED  BY <1>0, <2>h, <2>3, <3>0, <3>1, <3>3, <3>4, <3>5, CourseCalls DEF At
  <2> QED  BY <1>0, <1>32, <2>1, <2>2, <2>3, SendFileStartsMoves
<1>33. CASE ScriptGoes
  <2>1. isCurrentUserRoot' = isCurrentUserRoot /\ isSshConn' = isSshConn
        BY <1>33 DEF ScriptGoes, rest, conn
  <2>2. Scripted => Nth \in 0 .. 9
        BY CourseIs
  <2>3. /\ In(Main, "script") /\ Below(Main) = <<>> /\ Scripted /\ Idle /\ Nth \in 0 .. 8
        /\ Ended(Main) \/ ((Nth = 4 => ret[Main] = "ok") /\ ScriptCalls(Nth + 1))
        BY <1>33, <2>2, ScriptGoesMoves
  <2>4. CASE Ended(Main)
        BY <2>4 DEF Ended
  <2>5. ASSUME ScriptCalls(Nth + 1), Nth = 4 => ret[Main] = "ok"
        PROVE  Course'
    <3>1. PICK f, g \in Frame : Starts(f, Nth + 1) /\ g.at = "script" /\ g.n = Nth + 1 /\ TwoOn(stack'[Main], f, g, <<>>)
          BY <2>5 DEF ScriptCalls
    <3>2. Flags
          BY <2>3, CourseIs
    <3>3. \A A : Has(stack[Main], A) <=> "script" \in A
          BY <1>0, <2>3, HereIs, HasNone
    <3>4. \A A : Has(stack'[Main], A) <=> (f.at \in A \/ "script" \in A)
          BY <3>1, HasNone DEF TwoOn
    <3>5. Nth' = Nth + 1 /\ Nth' \in 1 .. 9
          BY <2>3, <3>1 DEF TwoOn, Nth, main
    <3>6. Flags'
      <4>1. ~Idle'
            BY <2>3, <3>1, NotIdle DEF Starts
      <4>2. /\ ~Has(stack[Main], {"su"}) /\ ~Has(stack[Main], CsAt)
            /\ Has(stack'[Main], {"su"}) <=> f.at = "su"
            /\ Has(stack'[Main], CsAt) <=> f.at \in CsAt
            /\ Has(stack'[Main], {"os", "osSpawn"}) <=> f.at \in {"os", "osSpawn"}
            /\ Has(stack'[Main], {"osPass", "osIn"}) <=> f.at \in {"osPass", "osIn"}
            BY <3>3, <3>4 DEF CsAt
      <4> QED  BY <2>1, <2>3, <2>5, <3>1, <3>2, <3>5, <4>1, <4>2 DEF Flags, Starts, main, CsAt
    <3>7. f \in Belongs(Nth + 1)
      <4>1. f \in Frame /\ Nth + 1 \in 1 .. 9
            BY <2>3 DEF Starts
      <4> QED  BY <2>3, <3>1, <3>2, <4>1 DEF Starts, Belongs, Flags, Cmd, CmdAt, SfAt, OsAt,
                  CsAt, SdAt, SelfProcess
    <3>8. Calls(stack'[Main], Belongs(Nth'))
          BY <3>1, <3>5, <3>7 DEF TwoOn
    <3> QED  BY <3>5, <3>6, <3>8, CourseThen
  <2> QED  BY <2>3, <2>4, <2>5
<1> QED  BY <1>1, <1>2, <1>3, <1>4, <1>5, <1>6, <1>7, <1>8, <1>9, <1>10, <1>11, <1>12, <1>13,
            <1>14, <1>15, <1>16, <1>17, <1>18, <1>19, <1>20, <1>21, <1>22, <1>23, <1>24, <1>25,
            <1>26, <1>27, <1>28, <1>29, <1>30, <1>31, <1>32, <1>33 DEF Step

------------------------------------------------------------------------------
(***************************************************************************)
(* Where poweroff is called.                                               *)
(***************************************************************************)

\* The caller of the top frame.
LEMMA UnderTop ==
  ASSUME TypeInv, Stacks, NEW t \in Thread, NEW a, In(t, a), Below(t) # <<>>
  PROVE  /\ Link(Top(t), Head(Below(t))) /\ Head(Below(t)) \in Frame /\ FrameOK(Top(t))
         /\ \A A : Head(Below(t)).at \in A => Has(Below(t), A)
         /\ Head(Below(t)).at \in EndAt \cup {"script"} =>
               /\ Bot(stack[t]) = Head(Below(t))
               /\ \A A : Has(Below(t), A) <=> Head(Below(t)).at \in A
<1> DEFINE b == Below(t)
<1>1. /\ Top(t) \in Frame /\ b \in Seq(Frame) /\ stack[t] = Push(Top(t), b) /\ Top(t).at = a
      BY Acts
<1>2. Link(Top(t), Head(b)) /\ FrameOK(Top(t)) /\ Legal(stack[t])
      BY TopIs_OK
<1>3. Head(b) \in Frame /\ Tail(b) \in Seq(Frame) /\ b = Push(Head(b), Tail(b))
      BY <1>1, UnPush
<1>4. Legal(b)
      BY <1>1, <1>2, LegalPush
<1>5. \A A : Has(b, A) <=> (Head(b).at \in A \/ Has(Tail(b), A))
      BY <1>3, HasPush
<1>6. ASSUME Head(b).at \in EndAt \cup {"script"}
      PROVE  Tail(b) = <<>>
      BY <1>3, <1>4, <1>6, NoSecond
<1>7. ASSUME Tail(b) = <<>>
      PROVE  Bot(b) = Head(b) /\ \A A : Has(b, A) <=> Head(b).at \in A
      BY <1>3, <1>5, <1>7, BotPush, HasNone
<1>8. Bot(stack[t]) = Bot(b)
      BY <1>1, BotPush
<1> QED  BY <1>2, <1>3, <1>5, <1>6, <1>7, <1>8

\* Only poweroff is called where sdDown waits.
LEMMA SdDownBelow ==
  ASSUME TypeInv, Stacks, NEW t \in Thread, NEW a, In(t, a), Has(Below(t), {"sdDown"})
  PROVE  a \in {"send", "expect"} /\ Top(t).kind = "poweroff" /\ Head(Below(t)).at = "sdDown"
<1> DEFINE b == Below(t)
<1>1. /\ Top(t) \in Frame /\ b \in Seq(Frame) /\ stack[t] = Push(Top(t), b) /\ Top(t).at = a
      BY Acts
<1>2. b # <<>>
      BY HasNone
<1>3. Link(Top(t), Head(b)) /\ FrameOK(Top(t)) /\ Legal(stack[t])
      BY <1>2, TopIs_OK
<1>4. Legal(b)
      BY <1>1, <1>3, LegalPush
<1>5. PICK i \in 1 .. Len(b) : b[i].at = "sdDown"
      BY DEF Has
<1>6. i = 1
  <2> SUFFICES ASSUME i # 1
               PROVE  FALSE
      OBVIOUS
  <2>1. Len(b) \in Nat /\ i - 1 \in 1 .. Len(b) - 1 /\ i - 1 \in 1 .. Len(b) /\ (i - 1) + 1 = i
        BY <1>1, <1>5
  <2>2. Link(b[i - 1], b[i])
        BY <1>4, <2>1 DEF Legal
  <2>3. Cmd(b[i - 1], {"poweroff"})
        BY <1>5, <2>2 DEF Link
  <2>4. Rank(b[i - 1]) = 1
        BY <2>3, RankIs DEF Cmd, Long
  <2>5. Rank(Top(t)) < Rank(b[i - 1])
        BY <1>1, <1>3, <2>1, Beneath
  <2> QED  BY <2>4, <2>5, RankIn
<1>7. Head(b).at = "sdDown"
      BY <1>1, <1>2, <1>5, <1>6
<1>8. Cmd(Top(t), {"poweroff"})
      BY <1>3, <1>7 DEF Link
<1> QED  BY <1>1, <1>3, <1>7, <1>8 DEF Cmd, CmdAt, FrameOK, Long

\* Whoever sends poweroff is called there.
LEMMA PoweroffAbove ==
  ASSUME TypeInv, Stacks, Course, NEW t \in Thread, NEW a \in {"send", "expect"}, In(t, a),
         Top(t).kind = "poweroff"
  PROVE  Has(Below(t), {"sdDown"})
<1>1. /\ Top(t) \in Frame /\ Top(t).at = a /\ stack[t] # <<>>
      /\ Bot(stack[t]) = IF Below(t) = <<>> THEN Top(t) ELSE Bot(Below(t))
      BY HereIs
<1>2. Good(t, stack[t])
      BY DEF Stacks
<1>3. Below(t) # <<>>
  <2>1. CASE t = Main
        BY <1>1, <2>1, MainCalled DEF EndAt
  <2>2. CASE t \in Listener
        BY <1>1, <1>2, <2>2 DEF Good, Lost, EndAt, Cmd
  <2> QED  BY <2>1, <2>2, Constants
<1>4. /\ Link(Top(t), Head(Below(t)))
      /\ \A A : Head(Below(t)).at \in A => Has(Below(t), A)
      /\ Head(Below(t)).at = "script" => Bot(stack[t]) = Head(Below(t))
      BY <1>3, UnderTop
<1>5. Head(Below(t)).at = "sdDown" \/ (Head(Below(t)).at = "script" /\ CalledAt(Top(t), Head(Below(t)).n))
  <2>1. Role(Top(t)) = "cmd"
        BY <1>1, RoleIs DEF CmdAt
  <2> QED  BY <1>1, <1>4, <2>1 DEF Link, Cmd, CmdAt, KbAt, TdAt, CsAt, OsAt, ErAt
<1>6. ASSUME Head(Below(t)).at = "script", CalledAt(Top(t), Head(Below(t)).n)
      PROVE  FALSE
  <2>1. t = Main
    <3>1. Has(stack[t], {"script"})
          BY <1>4, <1>6, HereIs
    <3>2. t \in Listener => ~Has(stack[t], {"script"})
      <4>1. t \in Listener => ~Has(stack[t], Errands \cup {"script"})
            BY <1>2 DEF Good
      <4> QED  BY <4>1 DEF Has
    <3> QED  BY <3>1, <3>2, Constants
  <2>2. Scripted /\ Nth = Head(Below(t)).n
        BY <1>4, <1>6, <2>1 DEF Scripted, Nth, main
  <2>3. Within(a)
        BY <1>1, <2>1, <2>2, WithinIs
  <2>4. Nth \in {2, 6}
    <3>1. Role(Top(t)) = "cmd"
          BY <1>1, RoleIs DEF CmdAt
    <3> QED  BY <1>6, <2>2, <2>3, <3>1 DEF CalledAt, Within
  <2> QED  BY <1>1, <2>1, <2>3, <2>4 DEF Within, Belongs, Cmd, CsAt, SfAt, OsAt, SdAt, TdAt
<1> QED  BY <1>4, <1>5, <1>6

------------------------------------------------------------------------------
(***************************************************************************)
(* The ending: what has to be shown of a step.                             *)
(***************************************************************************)

\* What the invariant grants a thread that is about to move.
Ready(t) ==
    /\ t \in Listener /\ In(t, "sdUser") => isCurrentUserRoot
    /\ t \in Listener /\ In(t, "sdTerm") => ~isSshConn
    /\ In(t, "er") => isCurrentUserRoot

LEMMA ReadyIs ==
  ASSUME TypeInv, Stacks, Errand, Ending, NEW t \in Thread
  PROVE  Ready(t)
<1>1. In(t, "er") => isCurrentUserRoot
  <2> SUFFICES ASSUME In(t, "er")
               PROVE  isCurrentUserRoot
      OBVIOUS
  <2>1. t = Main
        BY ErrandOfMain DEF Errands, ErAt
  <2> QED  BY <2>1, HereIs, Constants DEF Errand, main, ErAt
<1>2. ASSUME t \in Listener, NEW a \in {"sdUser", "sdTerm"}, In(t, a)
      PROVE  AtHome
  <2>1. Has(stack[t], {"sdUser", "sdTerm"})
        BY <1>2, HereIs
  <2> QED  BY <1>2, <2>1 DEF Ending
<1> QED  BY <1>1, <1>2 DEF Ready, AtHome

\* The thread of a command that is over only returns from it.
LEMMA OffStep ==
  ASSUME TypeInv, Stacks, NEW t \in Listener, Step(t), Ready(t), Off(stack[t])
  PROVE  Resolved(t) /\ stack'[t] = <<>>
<1>0. t \in Thread
      BY DEF Thread
<1>1. SharedStep(t)
      BY ListenerLeaves DEF Ready
<1>2. stack[t] # <<>>
      BY <1>1 DEF SharedStep, Sends, Answers, TimesOut, Resolved, Eof, InterruptStarts,
         InterruptTries, InterruptEnds,
         TerminateSteps, ShutdownStarts, ShutdownSwitchesUser, TerminateTargetStarts, PowersOff, Returns,
         TearDownStarts, TearDownKills, In
<1>3. In(t, "timedOut") /\ Len(stack[t]) = 1
      BY <1>2 DEF Off, In, Top
<1>4. Resolved(t)
      BY <1>1, <1>3 DEF SharedStep, Sends, Answers, TimesOut, Resolved, Eof, InterruptStarts,
         InterruptTries, InterruptEnds,
         TerminateSteps, ShutdownStarts, ShutdownSwitchesUser, TerminateTargetStarts, PowersOff, Returns,
         TearDownStarts, TearDownKills, In
<1>5. stack'[t] = Below(t)
      BY <1>0, <1>4, ResolvedMoves DEF Returned
<1>6. stack[t] \in Seq(Frame)
      BY <1>0 DEF TypeInv
<1>7. Below(t) = <<>>
  <2>1. Below(t) \in Seq(Frame) /\ Head(stack[t]) \in Frame /\ stack[t] = Push(Head(stack[t]), Below(t))
        BY <1>2, <1>6, UnPush DEF Below
  <2>2. Len(stack[t]) = Len(Below(t)) + 1 /\ Len(Below(t)) \in Nat /\ (Below(t) = <<>> <=> Len(Below(t)) = 0)
        BY <2>1, PushIs
  <2> DEFINE k == Len(Below(t))
  <2>3. k \in Nat /\ k + 1 = 1
        BY <1>3, <2>2
  <2> HIDE DEF k
  <2>4. k = 0
        BY <2>3
  <2> QED  BY <2>2, <2>4 DEF k
<1> QED  BY <1>4, <1>5, <1>7

\* A listener whose command is over stays so.
LEMMA OffKeeps ==
  ASSUME TypeInv, Stacks, NEW t \in Listener, Step(t), Ready(t)
  PROVE  Off(stack[t]) => Off(stack'[t])
BY OffStep DEF Off

SendSame(t) == Has(stack'[t], {"sdDown"}) => (TopIs(stack'[t], {"send"}) <=> TopIs(stack[t], {"send"}))
OffSame(t)  == t \in Listener /\ Off(stack[t]) => Off(stack'[t])
Orderly     == (attemptShutdownFailed \/ Clear) /\ \A l \in Listener : ~Has(stack[l], {"sdUser", "sdTerm"})
HomeSame    == (AtHome => AtHome') \/ Orderly
PastSame    == PastSd => AnyLost' \/ PastSd'

\* Poweroff is sent where sdDown waits for it, and nowhere else.
LEMMA SendSameIs ==
  ASSUME TypeInv, Stacks, NEW t \in Thread, NEW a, In(t, a), a \notin {"send", "sdDown"},
         NEW P, Stays(t, P), \A p \in P : p # "sdDown",
         a = "expect" => Ended(t) \/ Top(t).kind # "poweroff" \/ stack'[t] = Below(t)
  PROVE  SendSame(t)
<1> SUFFICES ASSUME Has(stack'[t], {"sdDown"})
             PROVE  TopIs(stack'[t], {"send"}) <=> TopIs(stack[t], {"send"})
    BY DEF SendSame
<1>1. ~Ended(t)
      BY DEF Ended
<1>2. Has(stack[t], {"sdDown"})
      BY <1>1 DEF Stays
<1>3. Has(Below(t), {"sdDown"})
      BY <1>2, HereIs
<1>4. a = "expect" /\ Top(t).kind = "poweroff" /\ Head(Below(t)).at = "sdDown"
      BY <1>3, SdDownBelow
<1>5. stack'[t] = Below(t)
      BY <1>1, <1>4
<1>6. Top(t).at = a /\ Head(stack[t]) = Top(t)
      BY HereIs
<1> QED  BY <1>4, <1>5, <1>6 DEF TopIs

\* What a step has to keep of the ending.
LEMMA EndingKeeps ==
  ASSUME TypeInv, Stacks, Ending, NEW t \in Thread, NEW P, Stays(t, P),
         \A p \in P : p \notin Down,
         attemptShutdownFailed' = attemptShutdownFailed, terminateTargetStarted' = terminateTargetStarted,
         poweroffs' = poweroffs, SendSame(t), OffSame(t), HomeSame, PastSame
  PROVE  Ending'
<1>1. ASSUME NEW u \in Thread, NEW A, A \subseteq Down
      PROVE  Has(stack'[u], A) => Has(stack[u], A)
  <2>1. CASE u # t
        BY <2>1 DEF Stays, Others
  <2>2. CASE u = t /\ Ended(t)
        BY <1>1, <2>2 DEF Ended, Down
  <2>3. CASE u = t /\ ~Ended(t)
    <3>1. \A p \in P : p \notin A
          BY <1>1
    <3> QED  BY <2>3, <3>1 DEF Stays
  <2> QED  BY <2>1, <2>2, <2>3
<1>2. AnyLost => AnyLost'
  <2>1. \A u \in Thread : Lost(stack[u]) => Lost(stack'[u])
        BY DEF Stays, Others, Ended
  <2> QED  BY <2>1 DEF AnyLost
<1>3. Clear => Clear'
  <2>1. \A l \in Listener : Off(stack[l]) => Off(stack'[l])
        BY DEF Stays, Others, OffSame, Thread
  <2> QED  BY <2>1 DEF Clear
<1>4. /\ Down \subseteq Down /\ {"sdUser", "sdTerm"} \subseteq Down /\ {"sdUser", "sdTerm", "sdPower"} \subseteq Down
      /\ {"sdDown"} \subseteq Down
      BY DEF Down
<1>5. \A u \in Thread : Has(stack'[u], {"sdDown"}) => (TopIs(stack'[u], {"send"}) <=> TopIs(stack[u], {"send"}))
      BY DEF SendSame, Stays, Others
<1>6. /\ \A u \in Thread : Has(stack'[u], Down) => Has(stack[u], Down)
      /\ \A u \in Thread : Has(stack'[u], {"sdUser", "sdTerm"}) => Has(stack[u], {"sdUser", "sdTerm"})
      /\ \A u \in Thread : Has(stack'[u], {"sdUser", "sdTerm", "sdPower"}) => Has(stack[u], {"sdUser", "sdTerm", "sdPower"})
      /\ \A u \in Thread : Has(stack'[u], {"sdDown"}) => Has(stack[u], {"sdDown"})
      BY <1>1, <1>4
<1>7. \A l \in Listener : l \in Thread
      BY DEF Thread
<1>8. \A l \in Listener : Has(stack'[l], {"sdUser", "sdTerm"}) => AtHome'
      BY <1>6, <1>7 DEF Ending, HomeSame, Orderly
<1>9. ~attemptShutdownFailed' /\ ~Clear' => AtHome'
      BY <1>3 DEF Ending, HomeSame, Orderly
<1>10. attemptShutdownFailed' => AnyLost' \/ PastSd'
      BY <1>2 DEF Ending, PastSame
<1>11. \A u \in Thread : Has(stack'[u], {"sdDown"}) => poweroffs' = IF TopIs(stack'[u], {"send"}) THEN 0 ELSE 1
      BY <1>5, <1>6 DEF Ending
<1>12. ~attemptShutdownFailed' => /\ ~terminateTargetStarted' /\ poweroffs' = 0
                                  /\ \A u \in Thread : ~Has(stack'[u], Down)
      BY <1>6 DEF Ending
<1>13. /\ \A u, v \in Thread : Has(stack'[u], Down) /\ Has(stack'[v], Down) => u = v
       /\ \A u \in Thread : Has(stack'[u], {"sdUser", "sdTerm"}) => ~terminateTargetStarted'
       /\ \A u \in Thread : Has(stack'[u], {"sdUser", "sdTerm", "sdPower"}) => poweroffs' = 0
       /\ poweroffs' \in {0, 1}
      BY <1>6 DEF Ending
<1> QED  BY <1>8, <1>9, <1>10, <1>11, <1>12, <1>13 DEF Ending

\* Outside the orderly part nobody changes the user or the connection.
LEMMA ErrandOrderly ==
  ASSUME TypeInv, Stacks, Errand, Course, Netcat, Ending, NEW a \in Errands, In(Main, a)
  PROVE  Orderly
<1>0. Main \in Thread /\ Main \notin Listener
      BY Constants
<1>1. CASE Lost(main)
  <2>1. Has(main, Errands)
        BY <1>0, HereIs DEF main
  <2>2. Has(main, {"sdTerm", "sdPower"})
        BY <1>1, <2>1 DEF Errand
  <2>3. Has(stack[Main], Down)
        BY <2>2 DEF Has, Down, main
  <2>4. attemptShutdownFailed
        BY <1>0, <2>3 DEF Ending
  <2>5. ASSUME NEW l \in Listener, Has(stack[l], {"sdUser", "sdTerm"})
        PROVE  FALSE
    <3>1. Has(stack[l], Down)
          BY <2>5 DEF Has, Down
    <3>2. l \in Thread
          BY DEF Thread
    <3>3. l = Main
          BY <1>0, <2>3, <3>1, <3>2 DEF Ending
    <3> QED  BY <1>0, <3>3
  <2> QED  BY <2>4, <2>5 DEF Orderly
<1>2. CASE ~Lost(main)
  <2>0. a # "script"
        BY DEF Errands, SuAt, OsAt, CsAt, ErAt
  <2>1. Scripted
        BY <1>2, MainCalled DEF Scripted, main
  <2>2. Within(a)
        BY <2>0, <2>1, WithinIs
  <2>3. Nth >= 2
    <3>1. Nth \in 0 .. 9 /\ Top(Main) \in Belongs(Nth) /\ Top(Main).at = a
          BY <2>2 DEF Within
    <3>2. Nth \notin {0, 1}
          BY <3>1 DEF Belongs, Errands, SuAt, OsAt, CsAt, ErAt, SfAt, KbAt, Cmd, CmdAt
    <3> QED  BY <3>1, <3>2
  <2>4. Clear \/ terminateTargetStarted
        BY <2>1, <2>3 DEF Netcat, Silent
  <2>5. CASE Clear
    <3>1. ASSUME NEW l \in Listener
          PROVE  ~Has(stack[l], {"sdUser", "sdTerm"})
      <4>1. Off(stack[l])
            BY <2>5 DEF Clear
      <4> QED  BY <4>1, HasNone DEF Off, Has
    <3> QED  BY <2>5, <3>1 DEF Orderly
  <2>6. CASE terminateTargetStarted
    <3>1. attemptShutdownFailed
          BY <2>6 DEF Ending
    <3>2. \A l \in Listener : l \in Thread
          BY DEF Thread
    <3> QED  BY <2>6, <3>1, <3>2 DEF Ending, Orderly
  <2> QED  BY <2>4, <2>5, <2>6
<1> QED  BY <1>1, <1>2

------------------------------------------------------------------------------
(***************************************************************************)
(* The ending, action by action.                                           *)
(***************************************************************************)

\* A shutdown that waits for poweroff is past its other places.
LEMMA SdOnly ==
  ASSUME TypeInv, Stacks, NEW t \in Thread, NEW a, In(t, a), Has(Below(t), {"sdDown"})
  PROVE  ~Has(stack[t], {"sdUser", "sdTerm", "sdPower"})
<1> DEFINE b == Below(t)
<1>1. a \in {"send", "expect"} /\ Head(b).at = "sdDown"
      BY SdDownBelow
<1>2. b # <<>>
      BY HasNone
<1>3. b \in Seq(Frame) /\ Top(t) \in Frame /\ stack[t] = Push(Top(t), b)
      BY Acts
<1>4. Head(b) \in Frame /\ Tail(b) \in Seq(Frame) /\ b = Push(Head(b), Tail(b))
      BY <1>2, <1>3, UnPush
<1>5. Legal(stack[t])
      BY TopIs_OK
<1>6. Legal(b)
      BY <1>3, <1>5, LegalPush
<1>7. {"sdUser", "sdTerm", "sdPower"} \subseteq Low5 /\ "sdDown" \in SdAt
      BY DEF Low5, SdAt
<1>8. ~Has(Tail(b), {"sdUser", "sdTerm", "sdPower"})
      BY <1>1, <1>4, <1>6, <1>7, NoSecond
<1>9. ~Has(b, {"sdUser", "sdTerm", "sdPower"})
      BY <1>1, <1>4, <1>8, HasPush
<1> QED  BY <1>1, <1>9, HereIs

\* A listener that is not inside its command is terminating.
LEMMA ListenerAt ==
  ASSUME TypeInv, Stacks, NEW l \in Listener, NEW a, In(l, a), a \notin CmdAt \cup KbAt
  PROVE  Lost(stack[l])
<1> SUFFICES ASSUME ~Lost(stack[l])
             PROVE  FALSE
    OBVIOUS
<1>0. l \in Thread
      BY DEF Thread
<1>1. stack[l] # <<>> /\ Head(stack[l]).at = a
      BY DEF In, Top
<1>2. Listens(stack[l])
      BY <1>1, ListenerShape
<1>3. ASSUME NEW f \in Frame, NEW s \in Seq(Frame), stack[l] = Push(f, s)
      PROVE  f.at = a
  <2>1. Head(Push(f, s)) = f
        BY <1>3, PushIs
  <2> QED  BY <1>1, <1>3, <2>1
<1>4. <<>> \in Seq(Frame) /\ \A f \in Frame, s \in Seq(Frame) : Push(f, s) \in Seq(Frame)
      BY PushIs
<1>5. CASE \E c \in Frame : stack[l] = Push(c, <<>>) /\ c.at \in CmdAt
      BY <1>3, <1>4, <1>5
<1>6. CASE \E k, c \in Frame : stack[l] = Push(k, Push(c, <<>>)) /\ k.at \in KbAt
      BY <1>3, <1>4, <1>6
<1>7. CASE \E f, k, c \in Frame : stack[l] = Push(f, Push(k, Push(c, <<>>))) /\ f.at \in {"send", "expect"}
      BY <1>3, <1>4, <1>7 DEF CmdAt
<1> QED  BY <1>2, <1>5, <1>6, <1>7 DEF Listens

LEMMA ScriptStays ==
  ASSUME TypeInv, Stacks, In(Main, "script"), Below(Main) = <<>>, NEW n \in 1 .. 9,
         ScriptCalls(n)
  PROVE  \E a \in {"sf", "send", "su", "os", "cs", "sd"} : Stays(Main, {a})
<1>0. Main \in Thread
      BY Constants
<1>1. PICK f, g \in Frame : Starts(f, n) /\ g.at = "script" /\ g.n = n /\ TwoOn(stack'[Main], f, g, <<>>)
      BY DEF ScriptCalls
<1>2. f.at \in {"sf", "send", "su", "os", "cs", "sd"}
      BY <1>1 DEF Starts
<1>3. \A A : Has(stack'[Main], A) <=> (f.at \in A \/ "script" \in A)
      BY <1>1, HasNone DEF TwoOn
<1>4. \A A : Has(stack[Main], A) <=> "script" \in A
      BY <1>0, HereIs, HasNone
<1>5. ~Lost(stack[Main])
      BY MainCalled
<1>6. ~Lost(stack'[Main])
      BY <1>1 DEF TwoOn, Lost, EndAt
<1>7. Others(Main)
      BY DEF ScriptCalls
<1>8. Stays(Main, {f.at})
      BY <1>3, <1>4, <1>5, <1>6, <1>7 DEF Stays
<1> QED  BY <1>2, <1>8

\* A shutdown that began keeps its place until the script is over.
LEMMA PastKeeps ==
  ASSUME TypeInv, Stacks, NEW t \in Thread, Step(t), Ready(t), NEW P, Stays(t, P),
         NEW a, In(t, a), a # "script",
         t = Main /\ ~Ended(t) /\ Has(stack[t], Down \cup {"return"}) => Has(stack'[t], Down \cup {"return"})
  PROVE  PastSame
<1>1. CASE t \in Listener
  <2>1. MainAlone
        BY <1>1, ListenerLeaves DEF Ready
  <2> QED  BY <2>1 DEF PastSame, PastSd, Scripted, Nth, Idle, main, MainAlone
<1>2. CASE t = Main
  <2>1. HoldsPlace
        BY <1>2, StaysHolds
  <2>2. CASE Lost(stack'[Main])
        BY <1>2, <2>2 DEF PastSame, AnyLost
  <2>3. CASE ~Lost(stack'[Main])
    <3>1. ~Ended(t)
          BY <1>2, <2>3 DEF Ended
    <3>2. ~Idle
          BY <1>2 DEF Idle, TopIs, main, In, Top
    <3> QED  BY <1>2, <2>1, <2>3, <3>1, <3>2 DEF HoldsPlace, PastSame, PastSd, main
  <2> QED  BY <2>2, <2>3
<1> QED  BY <1>1, <1>2, Constants

\* A thread that terminates goes on doing so.
LEMMA LostKeeps ==
  ASSUME NEW t \in Thread, NEW P, Stays(t, P)
  PROVE  AnyLost => AnyLost'
<1>1. \A u \in Thread : Lost(stack[u]) => Lost(stack'[u])
      BY DEF Stays, Others, Ended
<1> QED  BY <1>1 DEF AnyLost

\* One thread is shutting down.
LEMMA EndingAlone ==
  ASSUME NEW t \in Thread, Others(t), attemptShutdownFailed',
         \A u \in Thread : u # t => ~Has(stack[u], Down),
         Has(stack'[t], {"sdUser", "sdTerm"}) => ~terminateTargetStarted' /\ (t \in Listener => AtHome'),
         Has(stack'[t], {"sdUser", "sdTerm", "sdPower"}) => poweroffs' = 0,
         Has(stack'[t], {"sdDown"}) => poweroffs' = IF TopIs(stack'[t], {"send"}) THEN 0 ELSE 1,
         poweroffs' \in {0, 1}, AnyLost' \/ PastSd'
  PROVE  Ending'
<1>1. \A u \in Thread : \A A : u # t /\ A \subseteq Down => ~Has(stack'[u], A)
      BY DEF Others, Has
<1>2. /\ {"sdUser", "sdTerm"} \subseteq Down /\ {"sdUser", "sdTerm", "sdPower"} \subseteq Down
      /\ {"sdDown"} \subseteq Down /\ Down \subseteq Down
      BY DEF Down
<1>3. \A u \in Thread : u # t => /\ ~Has(stack'[u], {"sdUser", "sdTerm"}) /\ ~Has(stack'[u], {"sdDown"})
                                /\ ~Has(stack'[u], {"sdUser", "sdTerm", "sdPower"}) /\ ~Has(stack'[u], Down)
      BY <1>1, <1>2
<1>4. \A l \in Listener : l \in Thread
      BY DEF Thread
<1>5. \A l \in Listener : Has(stack'[l], {"sdUser", "sdTerm"}) => AtHome'
      BY <1>3, <1>4
<1>6. \A u \in Thread : Has(stack'[u], {"sdDown"}) => poweroffs' = IF TopIs(stack'[u], {"send"}) THEN 0 ELSE 1
      BY <1>3
<1> QED  BY <1>3, <1>5, <1>6 DEF Ending

\* Every step of every thread keeps Ending: there is one shutdown, and it sends
\* poweroff once.
LEMMA EndingStep ==
  ASSUME TypeInv, Stacks, Errand, Course, Netcat, Ending, NEW t \in Thread, Step(t)
  PROVE  Ending'
<1>r. Ready(t)
      BY ReadyIs
<1>o. OffSame(t)
      BY <1>r, OffKeeps DEF OffSame
<1>a. ASSUME NEW a, In(t, a), a \in Down
      PROVE  attemptShutdownFailed /\ \A u \in Thread : u # t => ~Has(stack[u], Down)
  <2>1. Has(stack[t], Down)
        BY <1>a, HereIs
  <2> QED  BY <2>1 DEF Ending
<1>p. ASSUME NEW P, Stays(t, P), \A p \in P : p \notin Down \cup {"return"}, NEW a, In(t, a), a # "script"
      PROVE  PastSame
  <2>1. t = Main /\ ~Ended(t) /\ Has(stack[t], Down \cup {"return"}) => Has(stack'[t], Down \cup {"return"})
        BY <1>p DEF Stays
  <2> QED  BY <1>p, <1>r, <2>1, PastKeeps
<1>1. CASE Sends(t)
  <2>1. Stays(t, {"send", "expect"})
        BY <1>1, SendsStays
  <2>2. In(t, "send") /\ (Went(t, "expect") \/ Ended(t))
        BY <1>1, SendsMoves
  <2>3. /\ attemptShutdownFailed' = attemptShutdownFailed /\ terminateTargetStarted' = terminateTargetStarted
        /\ isCurrentUserRoot' = isCurrentUserRoot /\ isSshConn' = isSshConn
        BY <1>1 DEF Sends, ending, conn
  <2>4. PastSame
        BY <1>p, <2>1, <2>2 DEF Down
  <2>5. Top(t).kind # "poweroff" => poweroffs' = poweroffs
    <3>1. poweroffs \in 0 .. 2
          BY DEF TypeInv
    <3> QED  BY <1>1, <3>1 DEF Sends
  <2>6. Top(t).kind = "poweroff" => poweroffs' = poweroffs + 1
        BY <1>1 DEF Sends
  <2>7. CASE Top(t).kind # "poweroff"
    <3>1. ~Has(Below(t), {"sdDown"})
          BY <2>2, <2>7, SdDownBelow
    <3>2. ~Has(stack[t], {"sdDown"})
          BY <2>2, <3>1, HereIs
    <3>3. ~Has(stack'[t], {"sdDown"})
          BY <2>1, <3>2 DEF Stays, Ended
    <3>4. SendSame(t)
          BY <3>3 DEF SendSame
    <3>5. HomeSame
          BY <2>3 DEF HomeSame, AtHome
    <3> QED  BY <1>o, <2>1, <2>3, <2>4, <2>5, <2>7, <3>4, <3>5, EndingKeeps DEF Down
  <2>8. CASE Top(t).kind = "poweroff"
    <3>1. Has(Below(t), {"sdDown"})
          BY <2>2, <2>8, PoweroffAbove
    <3>2. ~Has(stack[t], {"sdUser", "sdTerm", "sdPower"})
          BY <2>2, <3>1, SdOnly
    <3>3. Has(stack[t], {"sdDown"}) /\ Has(stack[t], Down)
      <4>1. Has(stack[t], {"sdDown"})
            BY <2>2, <3>1, HereIs
      <4> QED  BY <4>1 DEF Has, Down
    <3>4. attemptShutdownFailed /\ \A u \in Thread : u # t => ~Has(stack[u], Down)
          BY <3>3 DEF Ending
    <3>5. poweroffs' = 1
      <4>1. TopIs(stack[t], {"send"})
            BY <2>2 DEF TopIs, In, Top
      <4>2. poweroffs = 0
            BY <3>3, <4>1 DEF Ending
      <4> QED  BY <2>6, <2>8, <4>2
    <3>6. ~Has(stack'[t], {"sdUser", "sdTerm", "sdPower"})
          BY <2>1, <3>2 DEF Stays, Ended
    <3>7. ~Has(stack'[t], {"sdUser", "sdTerm"})
          BY <3>6 DEF Has
    <3>8. Has(stack'[t], {"sdDown"}) => ~TopIs(stack'[t], {"send"})
      <4>1. CASE Ended(t)
            BY <4>1 DEF Ended
      <4>2. CASE Went(t, "expect")
        <5>1. Head(stack'[t]).at = "expect"
              BY <2>2, <4>2, WentIs DEF OneOn, At
        <5> QED  BY <5>1 DEF TopIs
      <4> QED  BY <2>2, <4>1, <4>2
    <3>9. AnyLost' \/ PastSd'
      <4>1. AnyLost => AnyLost'
            BY <2>1, LostKeeps
      <4> QED  BY <2>4, <3>4, <4>1 DEF Ending, PastSame
    <3>10. Others(t)
          BY <2>1 DEF Stays
    <3> QED  BY <2>3, <3>4, <3>5, <3>6, <3>7, <3>8, <3>9, <3>10, EndingAlone
  <2> QED  BY <2>7, <2>8
<1>2. CASE Answers(t)
  <2>1. Stays(t, {"expect"})
        BY <1>2, AnswersStays
  <2>2. /\ attemptShutdownFailed' = attemptShutdownFailed /\ terminateTargetStarted' = terminateTargetStarted
        /\ poweroffs' = poweroffs
        BY <1>2 DEF Answers, ending, conn
  <2>3. PICK a \in {"expect"} : In(t, a)
        BY <1>2 DEF Answers
  <2>e. Ended(t) \/ Top(t).kind # "poweroff" \/ stack'[t] = Below(t)
        BY <1>2, AnswersMoves DEF Returned, Long
  <2>4. SendSame(t)
        BY <2>1, <2>3, <2>e, SendSameIs
  <2>5. HomeSame
        BY <1>2 DEF HomeSame, AtHome, Answers, ending, conn
  <2>6. PastSame
        BY <1>p, <2>1, <2>3 DEF Down
  <2> QED  BY <1>o, <2>1, <2>2, <2>4, <2>5, <2>6, EndingKeeps DEF Down
<1>3. CASE TimesOut(t)
  <2>1. Stays(t, {"expect", "timedOut", "kb"})
        BY <1>3, TimesOutStays
  <2>2. /\ attemptShutdownFailed' = attemptShutdownFailed /\ terminateTargetStarted' = terminateTargetStarted
        /\ poweroffs' = poweroffs
        BY <1>3 DEF TimesOut, ending, conn
  <2>3. PICK a \in {"expect"} : In(t, a)
        BY <1>3 DEF TimesOut
  <2>e. Ended(t) \/ Top(t).kind # "poweroff" \/ stack'[t] = Below(t)
        BY <1>3, TimesOutMoves DEF Returned, Long
  <2>4. SendSame(t)
        BY <2>1, <2>3, <2>e, SendSameIs
  <2>5. HomeSame
        BY <1>3 DEF HomeSame, AtHome, TimesOut, ending, conn
  <2>6. PastSame
        BY <1>p, <2>1, <2>3 DEF Down
  <2> QED  BY <1>o, <2>1, <2>2, <2>4, <2>5, <2>6, EndingKeeps DEF Down
<1>4. CASE Resolved(t)
  <2>1. Stays(t, {"timedOut"})
        BY <1>4, ResolvedStays
  <2>2. /\ attemptShutdownFailed' = attemptShutdownFailed /\ terminateTargetStarted' = terminateTargetStarted
        /\ poweroffs' = poweroffs
        BY <1>4 DEF Resolved, ending, conn
  <2>3. PICK a \in {"timedOut"} : In(t, a)
        BY <1>4 DEF Resolved
  <2>4. SendSame(t)
        BY <2>1, <2>3, SendSameIs
  <2>5. HomeSame
        BY <1>4 DEF HomeSame, AtHome, Resolved, ending, conn
  <2>6. PastSame
        BY <1>p, <2>1, <2>3 DEF Down
  <2> QED  BY <1>o, <2>1, <2>2, <2>4, <2>5, <2>6, EndingKeeps DEF Down
<1>5. CASE Eof(t)
  <2>1. Stays(t, {"expect"})
        BY <1>5, EofStays
  <2>2. /\ attemptShutdownFailed' = attemptShutdownFailed /\ terminateTargetStarted' = terminateTargetStarted
        /\ poweroffs' = poweroffs
        BY <1>5 DEF Eof, ending, conn
  <2>3. PICK a \in {"expect"} : In(t, a)
        BY <1>5 DEF Eof
  <2>e. Ended(t) \/ Top(t).kind # "poweroff" \/ stack'[t] = Below(t)
        BY <1>5, EofMoves DEF Returned, Long
  <2>4. SendSame(t)
        BY <2>1, <2>3, <2>e, SendSameIs
  <2>5. HomeSame
        BY <1>5 DEF HomeSame, AtHome, Eof, ending, conn
  <2>6. PastSame
        BY <1>p, <2>1, <2>3 DEF Down
  <2> QED  BY <1>o, <2>1, <2>2, <2>4, <2>5, <2>6, EndingKeeps DEF Down
<1>6. CASE InterruptStarts(t)
  <2>1. Stays(t, {"kb", "kbTry"})
        BY <1>6, InterruptStartsStays
  <2>2. /\ attemptShutdownFailed' = attemptShutdownFailed /\ terminateTargetStarted' = terminateTargetStarted
        /\ poweroffs' = poweroffs
        BY <1>6 DEF InterruptStarts, ending, conn
  <2>3. PICK a \in {"kb"} : In(t, a)
        BY <1>6 DEF InterruptStarts
  <2>4. SendSame(t)
        BY <2>1, <2>3, SendSameIs
  <2>5. HomeSame
        BY <1>6 DEF HomeSame, AtHome, InterruptStarts, ending, conn
  <2>6. PastSame
        BY <1>p, <2>1, <2>3 DEF Down
  <2> QED  BY <1>o, <2>1, <2>2, <2>4, <2>5, <2>6, EndingKeeps DEF Down
<1>7. CASE InterruptTries(t)
  <2>1. Stays(t, {"kbTry", "send", "kbSpace"})
        BY <1>7, InterruptTriesStays
  <2>2. /\ attemptShutdownFailed' = attemptShutdownFailed /\ terminateTargetStarted' = terminateTargetStarted
        /\ poweroffs' = poweroffs
        BY <1>7 DEF InterruptTries, ending, conn
  <2>3. PICK a \in {"kbTry"} : In(t, a)
        BY <1>7 DEF InterruptTries
  <2>4. SendSame(t)
        BY <2>1, <2>3, SendSameIs
  <2>5. HomeSame
        BY <1>7 DEF HomeSame, AtHome, InterruptTries, ending, conn
  <2>6. PastSame
        BY <1>p, <2>1, <2>3 DEF Down
  <2> QED  BY <1>o, <2>1, <2>2, <2>4, <2>5, <2>6, EndingKeeps DEF Down
<1>8. CASE InterruptEnds(t)
  <2>1. Stays(t, {"kbSpace"})
        BY <1>8, InterruptEndsStays
  <2>2. /\ attemptShutdownFailed' = attemptShutdownFailed /\ terminateTargetStarted' = terminateTargetStarted
        /\ poweroffs' = poweroffs
        BY <1>8 DEF InterruptEnds, ending, conn
  <2>3. PICK a \in {"kbSpace"} : In(t, a)
        BY <1>8 DEF InterruptEnds
  <2>4. SendSame(t)
        BY <2>1, <2>3, SendSameIs
  <2>5. HomeSame
        BY <1>8 DEF HomeSame, AtHome, InterruptEnds, ending, conn
  <2>6. PastSame
        BY <1>p, <2>1, <2>3 DEF Down
  <2> QED  BY <1>o, <2>1, <2>2, <2>4, <2>5, <2>6, EndingKeeps DEF Down
<1>9. CASE TerminateSteps(t)
  <2>1. Stays(t, {"term", "tear", "sd", "exit", "td"})
        BY <1>9, TerminateStepsStays
  <2>2. /\ attemptShutdownFailed' = attemptShutdownFailed /\ terminateTargetStarted' = terminateTargetStarted
        /\ poweroffs' = poweroffs
        BY <1>9 DEF TerminateSteps, ending, conn, still
  <2>3. PICK a \in {"term", "tear", "exit"} : In(t, a)
        BY <1>9 DEF TerminateSteps
  <2>4. SendSame(t)
        BY <2>1, <2>3, SendSameIs
  <2>5. HomeSame
        BY <1>9 DEF HomeSame, AtHome, TerminateSteps, ending, conn, still
  <2>6. PastSame
        BY <1>p, <2>1, <2>3 DEF Down
  <2> QED  BY <1>o, <2>1, <2>2, <2>4, <2>5, <2>6, EndingKeeps DEF Down
<1>10. CASE ShutdownStarts(t)
  <2>1. /\ attemptShutdownFailed' /\ terminateTargetStarted' = terminateTargetStarted /\ poweroffs' = poweroffs
        /\ isCurrentUserRoot' = isCurrentUserRoot /\ isSshConn' = isSshConn
        BY <1>10 DEF ShutdownStarts, still, conn
  <2>2. In(t, "sd") /\ ((attemptShutdownFailed /\ Ended(t)) \/ (~attemptShutdownFailed /\ Went(t, "sdUser")))
        BY <1>10, ShutdownStartsMoves
  <2>3. CASE attemptShutdownFailed /\ Ended(t)
    <3>1. \E P : Stays(t, P) /\ \A p \in P : p \notin Down
      <4>1. Stays(t, {})
            BY <2>3, EndStays
      <4> QED  BY <4>1
    <3>2. SendSame(t)
          BY <2>3 DEF SendSame, Ended
    <3>3. HomeSame
          BY <2>1 DEF HomeSame, AtHome
    <3>4. PastSame
          BY <2>3 DEF PastSame, AnyLost, Ended
    <3>5. attemptShutdownFailed' = attemptShutdownFailed
          BY <1>10, <2>3 DEF TypeInv, ShutdownStarts
    <3>6. PICK P : Stays(t, P) /\ \A p \in P : p \notin Down
          BY <3>1
    <3> QED  BY <1>o, <2>1, <3>2, <3>3, <3>4, <3>5, <3>6, EndingKeeps
  <2>4. CASE ~attemptShutdownFailed /\ Went(t, "sdUser")
    <3>1. /\ ~terminateTargetStarted /\ poweroffs = 0 /\ \A u \in Thread : ~Has(stack[u], Down)
          BY <2>4 DEF Ending
    <3>2. Stays(t, {"sd", "sdUser"})
          BY <1>10, ShutdownStartsStays
    <3>3. \A A : Has(stack'[t], A) <=> ("sdUser" \in A \/ Has(Below(t), A))
          BY <2>2, <2>4, WentIs DEF OneOn, At
    <3>4. ~Has(Below(t), {"sdDown"})
          BY <2>2, SdDownBelow
    <3>5. ~Has(stack'[t], {"sdDown"})
          BY <3>3, <3>4
    <3>6. t \in Listener => AtHome'
      <4> SUFFICES ASSUME t \in Listener
                   PROVE  AtHome'
          OBVIOUS
      <4>1. ~Off(stack[t])
            BY <2>2 DEF Off, In, Top
      <4>2. AtHome
            BY <2>4, <4>1 DEF Ending, Clear
      <4> QED  BY <2>1, <4>2 DEF AtHome
    <3>7. AnyLost' \/ PastSd'
      <4>1. CASE Lost(stack[t])
            BY <2>4, <4>1 DEF AnyLost, Went
      <4>2. CASE t \in Listener
            BY <2>2, <2>4, <4>2, ListenerAt DEF AnyLost, Went, CmdAt, KbAt
      <4>3. CASE t = Main /\ ~Lost(stack[t])
        <5>1. Scripted
              BY <2>2, <4>3, MainCalled DEF Scripted, main
        <5>2. Within("sd")
              BY <2>2, <4>3, <5>1, WithinIs
        <5>3. Nth = 9
              BY <5>2 DEF Within, Belongs, SfAt, KbAt, Cmd, CmdAt, OsAt, CsAt
        <5>4. HoldsPlace
              BY <2>2, <3>2, <4>3, StaysHolds
        <5>5. Has(stack'[Main], Down \cup {"return"})
              BY <3>3, <4>3 DEF Down
        <5> QED  BY <4>3, <5>3, <5>4, <5>5 DEF HoldsPlace, PastSd, AnyLost, main
      <4> QED  BY <4>1, <4>2, <4>3, Constants
    <3>8. Others(t)
          BY <2>4 DEF Went
    <3> QED  BY <2>1, <3>1, <3>5, <3>6, <3>7, <3>8, EndingAlone
  <2> QED  BY <2>2, <2>3, <2>4
<1>11. CASE ShutdownSwitchesUser(t)
  <2>1. /\ attemptShutdownFailed' = attemptShutdownFailed /\ terminateTargetStarted' = terminateTargetStarted
        /\ poweroffs' = poweroffs /\ isCurrentUserRoot' = isCurrentUserRoot /\ isSshConn' = isSshConn
        BY <1>11 DEF ShutdownSwitchesUser, still, ending, conn
  <2>0. t \in Listener => isCurrentUserRoot
        BY <1>11, <1>r DEF Ready, ShutdownSwitchesUser
  <2>2. /\ In(t, "sdUser")
        /\ (isCurrentUserRoot /\ Went(t, "sdTerm")) \/ (~isCurrentUserRoot /\ Called(t, F("su"), "sdTerm"))
        BY <1>11, <2>0, ShutdownSwitchesMoves
  <2>3. Stays(t, {"sdUser", "sdTerm", "su"})
        BY <1>11, <2>0, ShutdownSwitchesUserStays
  <2>4. attemptShutdownFailed /\ \A u \in Thread : u # t => ~Has(stack[u], Down)
        BY <1>a, <2>2 DEF Down
  <2>5. ~terminateTargetStarted /\ poweroffs = 0 /\ (t \in Listener => AtHome)
    <3>1. Has(stack[t], {"sdUser", "sdTerm"}) /\ Has(stack[t], {"sdUser", "sdTerm", "sdPower"})
          BY <2>2, HereIs
    <3> QED  BY <3>1 DEF Ending
  <2>6. Has(stack'[t], {"sdTerm"})
    <3>1. CASE Went(t, "sdTerm")
          BY <2>2, <3>1, WentIs DEF OneOn, At
    <3>2. CASE Called(t, F("su"), "sdTerm")
      <4>1. F("su") \in Frame /\ "sdTerm" \in At
            BY FrameIs DEF At
      <4> QED  BY <2>2, <3>2, <4>1, CalledIs DEF TwoOn
    <3> QED  BY <2>2, <3>1, <3>2
  <2>7. ~Has(stack'[t], {"sdDown"})
    <3>1. ~Has(Below(t), {"sdDown"})
          BY <2>2, SdDownBelow
    <3>2. ~Has(stack[t], {"sdDown"})
          BY <2>2, <3>1, HereIs
    <3> QED  BY <2>3, <3>2 DEF Stays, Ended
  <2>8. PastSame
    <3>1. Has(stack'[t], Down \cup {"return"})
          BY <2>6 DEF Has, Down
    <3> QED  BY <1>r, <2>2, <2>3, <3>1, PastKeeps
  <2>9. AnyLost' \/ PastSd'
    <3>1. AnyLost => AnyLost'
          BY <2>3, LostKeeps
    <3> QED  BY <2>4, <2>8, <3>1 DEF Ending, PastSame
  <2>10. Others(t)
        BY <2>3 DEF Stays
  <2> QED  BY <2>1, <2>4, <2>5, <2>7, <2>9, <2>10, EndingAlone DEF AtHome
<1>12. CASE TerminateTargetStarts(t)
  <2>1. /\ attemptShutdownFailed' = attemptShutdownFailed
        /\ poweroffs' = poweroffs /\ isCurrentUserRoot' = isCurrentUserRoot /\ isSshConn' = isSshConn
        BY <1>12 DEF TerminateTargetStarts, still, conn
  <2>0. t \in Listener => ~isSshConn
        BY <1>12, <1>r DEF Ready, TerminateTargetStarts
  <2>2. In(t, "sdTerm") /\ (Called(t, F("cs"), "sdPower") \/ Went(t, "sdPower"))
        BY <1>12, <2>0, TerminateTargetMoves
  <2>3. Stays(t, {"sdTerm", "sdPower", "cs"})
        BY <1>12, <2>0, TerminateTargetStartsStays
  <2>4. attemptShutdownFailed /\ \A u \in Thread : u # t => ~Has(stack[u], Down)
        BY <1>a, <2>2 DEF Down
  <2>5. poweroffs = 0
    <3>1. Has(stack[t], {"sdUser", "sdTerm", "sdPower"})
          BY <2>2, HereIs
    <3> QED  BY <3>1 DEF Ending
  <2>b. ~Has(Below(t), {"sdUser", "sdTerm"}) /\ ~Has(Below(t), {"sdDown"})
    <3>1. "sdTerm" \in SdAt /\ {"sdUser", "sdTerm"} \subseteq Low5 /\ {"sdDown"} \subseteq Low5
          BY DEF SdAt, Low5
    <3> QED  BY <2>2, <3>1, UnderIs
  <2>6. Has(stack'[t], {"sdPower"}) /\ ~Has(stack'[t], {"sdUser", "sdTerm"}) /\ ~Has(stack'[t], {"sdDown"})
    <3>1. CASE Went(t, "sdPower")
      <4>1. \A A : Has(stack'[t], A) <=> ("sdPower" \in A \/ Has(Below(t), A))
            BY <2>2, <3>1, WentIs DEF OneOn, At
      <4> QED  BY <2>b, <4>1
    <3>2. CASE Called(t, F("cs"), "sdPower")
      <4>1. F("cs") \in Frame /\ F("cs").at = "cs" /\ "sdPower" \in At
            BY FrameIs DEF At
      <4>2. \A A : Has(stack'[t], A) <=> ("cs" \in A \/ "sdPower" \in A \/ Has(Below(t), A))
            BY <2>2, <3>2, <4>1, CalledIs DEF TwoOn
      <4> QED  BY <2>b, <4>2
    <3> QED  BY <2>2, <3>1, <3>2
  <2>8. PastSame
    <3>1. Has(stack'[t], Down \cup {"return"})
          BY <2>6 DEF Has, Down
    <3> QED  BY <1>r, <2>2, <2>3, <3>1, PastKeeps
  <2>9. AnyLost' \/ PastSd'
    <3>1. AnyLost => AnyLost'
          BY <2>3, LostKeeps
    <3> QED  BY <2>4, <2>8, <3>1 DEF Ending, PastSame
  <2>10. Others(t)
        BY <2>3 DEF Stays
  <2> QED  BY <2>1, <2>4, <2>5, <2>6, <2>9, <2>10, EndingAlone
<1>13. CASE PowersOff(t)
  <2>1. /\ attemptShutdownFailed' = attemptShutdownFailed /\ terminateTargetStarted' = terminateTargetStarted
        /\ poweroffs' = poweroffs
        BY <1>13 DEF PowersOff, still, ending
  <2>2. \/ In(t, "sdPower") /\ Called(t, Command("poweroff"), "sdDown")
        \/ In(t, "sdDown") /\ Called(t, F("td"), "return")
        BY <1>13, PowersOffMoves
  <2>3. Stays(t, {"sdPower", "sdDown", "send", "return", "td"})
        BY <1>13, PowersOffStays
  <2>p. PICK a \in {"sdPower", "sdDown"} : In(t, a)
        BY <2>2
  <2>4. attemptShutdownFailed /\ \A u \in Thread : u # t => ~Has(stack[u], Down)
        BY <1>a, <2>p DEF Down
  <2>b. ~Has(Below(t), {"sdUser", "sdTerm", "sdPower"}) /\ ~Has(Below(t), {"sdDown"}) /\ ~Has(Below(t), {"sdUser", "sdTerm"})
    <3>1. /\ a \in SdAt /\ {"sdUser", "sdTerm", "sdPower"} \subseteq Low5 /\ {"sdDown"} \subseteq Low5
          /\ {"sdUser", "sdTerm"} \subseteq Low5
          BY DEF SdAt, Low5
    <3> QED  BY <2>p, <3>1, UnderIs
  <2>5. /\ Has(stack'[t], {"sdDown", "return"}) /\ ~Has(stack'[t], {"sdUser", "sdTerm"})
        /\ ~Has(stack'[t], {"sdUser", "sdTerm", "sdPower"})
        /\ Has(stack'[t], {"sdDown"}) => poweroffs' = IF TopIs(stack'[t], {"send"}) THEN 0 ELSE 1
    <3>1. ASSUME In(t, "sdPower"), Called(t, Command("poweroff"), "sdDown")
          PROVE  /\ Has(stack'[t], {"sdDown", "return"}) /\ ~Has(stack'[t], {"sdUser", "sdTerm"})
                 /\ ~Has(stack'[t], {"sdUser", "sdTerm", "sdPower"})
                 /\ poweroffs' = 0 /\ TopIs(stack'[t], {"send"})
      <4>1. Command("poweroff") \in Frame /\ Command("poweroff").at = "send" /\ "sdDown" \in At
            BY CommandIs DEF At, Kind
      <4>2. /\ \A A : Has(stack'[t], A) <=> ("send" \in A \/ "sdDown" \in A \/ Has(Below(t), A))
            /\ stack'[t] # <<>> /\ Head(stack'[t]) = Command("poweroff")
            BY <3>1, <4>1, CalledIs DEF TwoOn
      <4>3. Has(stack[t], {"sdUser", "sdTerm", "sdPower"})
            BY <3>1, HereIs
      <4>4. poweroffs = 0
            BY <4>3 DEF Ending
      <4>5. TopIs(stack'[t], {"send"})
            BY <4>1, <4>2 DEF TopIs
      <4> QED  BY <2>1, <2>b, <4>2, <4>4, <4>5
    <3>2. ASSUME In(t, "sdDown"), Called(t, F("td"), "return")
          PROVE  /\ Has(stack'[t], {"sdDown", "return"}) /\ ~Has(stack'[t], {"sdUser", "sdTerm"})
                 /\ ~Has(stack'[t], {"sdUser", "sdTerm", "sdPower"}) /\ ~Has(stack'[t], {"sdDown"})
      <4>1. F("td") \in Frame /\ F("td").at = "td" /\ "return" \in At
            BY FrameIs DEF At
      <4>2. \A A : Has(stack'[t], A) <=> ("td" \in A \/ "return" \in A \/ Has(Below(t), A))
            BY <3>2, <4>1, CalledIs DEF TwoOn
      <4> QED  BY <2>b, <4>2
    <3> QED  BY <2>2, <3>1, <3>2
  <2>8. PastSame
    <3>1. Has(stack'[t], Down \cup {"return"})
          BY <2>5 DEF Has, Down
    <3> QED  BY <1>r, <2>p, <2>3, <3>1, PastKeeps
  <2>9. AnyLost' \/ PastSd'
    <3>1. AnyLost => AnyLost'
          BY <2>3, LostKeeps
    <3> QED  BY <2>4, <2>8, <3>1 DEF Ending, PastSame
  <2>10. Others(t) /\ poweroffs \in {0, 1}
        BY <2>3 DEF Stays, Ending
  <2> QED  BY <2>1, <2>4, <2>5, <2>9, <2>10, EndingAlone
<1>14. CASE Returns(t)
  <2>1. Stays(t, {"return"})
        BY <1>14, ReturnsStays
  <2>2. In(t, "return") /\ stack'[t] = Below(t)
        BY <1>14, ReturnsMoves DEF Returned
  <2>3. /\ attemptShutdownFailed' = attemptShutdownFailed /\ terminateTargetStarted' = terminateTargetStarted
        /\ poweroffs' = poweroffs /\ isCurrentUserRoot' = isCurrentUserRoot /\ isSshConn' = isSshConn
        BY <1>14 DEF Returns, ending, still, conn
  <2>4. SendSame(t)
        BY <2>1, <2>2, SendSameIs
  <2>5. HomeSame
        BY <2>3 DEF HomeSame, AtHome
  <2>6. PastSame
    <3>1. CASE t \in Listener
      <4>1. MainAlone
            BY <1>r, <3>1, ListenerLeaves DEF Ready
      <4> QED  BY <4>1 DEF PastSame, PastSd, Scripted, Nth, Idle, main, MainAlone
    <3>2. CASE t = Main
      <4> SUFFICES ASSUME PastSd, ~Lost(stack'[Main])
                   PROVE  PastSd'
          BY <3>2 DEF PastSame, AnyLost
      <4>1. HoldsPlace
            BY <2>1, <2>2, <3>2, StaysHolds
      <4>2. Scripted /\ Nth = 9 /\ Scripted' /\ Nth' = 9 /\ ~Lost(stack[Main])
            BY <4>1 DEF HoldsPlace, PastSd
      <4>3. Within("return")
            BY <2>2, <3>2, <4>2, WithinIs
      <4>4. Top(Main).kind = "none"
            BY <4>2, <4>3 DEF Within, Belongs, SdAt, TdAt, Cmd, CmdAt
      <4>5. Below(Main) # <<>>
            BY <4>3 DEF Within
      <4>6. /\ Link(Top(Main), Head(Below(Main)))
            /\ Head(Below(Main)).at \in EndAt => Bot(stack[Main]) = Head(Below(Main))
            BY <2>2, <3>2, <4>5, UnderTop
      <4>7. Role(Top(Main)) = "sd" /\ Top(Main).at = "return"
            BY <4>3, <4>4, RoleIs DEF Within
      <4>8. Head(Below(Main)).at \in {"tear", "script"}
            BY <4>6, <4>7 DEF Link, KbAt, Cmd, CmdAt, TdAt, CsAt, OsAt, ErAt
      <4>9. Head(Below(Main)).at = "script"
            BY <4>2, <4>6, <4>8 DEF Scripted, main, EndAt
      <4>10. Idle'
            BY <2>2, <3>2, <4>5, <4>9 DEF Idle, TopIs, main
      <4> QED  BY <4>2, <4>10 DEF PastSd
    <3> QED  BY <3>1, <3>2, Constants
  <2> QED  BY <1>o, <2>1, <2>3, <2>4, <2>5, <2>6, EndingKeeps DEF Down
<1>15. CASE TearDownStarts(t)
  <2>1. Stays(t, {"td", "tdKill", "send"})
        BY <1>15, TearDownStartsStays
  <2>2. /\ attemptShutdownFailed' = attemptShutdownFailed /\ terminateTargetStarted' = terminateTargetStarted
        /\ poweroffs' = poweroffs
        BY <1>15 DEF TearDownStarts, ending, conn, still
  <2>3. PICK a \in {"td"} : In(t, a)
        BY <1>15 DEF TearDownStarts
  <2>4. SendSame(t)
        BY <2>1, <2>3, SendSameIs
  <2>5. HomeSame
        BY <1>15 DEF HomeSame, AtHome, TearDownStarts, ending, conn, still
  <2>6. PastSame
        BY <1>p, <2>1, <2>3 DEF Down
  <2> QED  BY <1>o, <2>1, <2>2, <2>4, <2>5, <2>6, EndingKeeps DEF Down
<1>16. CASE TearDownKills(t)
  <2>1. Stays(t, {"tdKill"})
        BY <1>16, TearDownKillsStays
  <2>2. /\ attemptShutdownFailed' = attemptShutdownFailed /\ terminateTargetStarted' = terminateTargetStarted
        /\ poweroffs' = poweroffs
        BY <1>16 DEF TearDownKills, ending, conn
  <2>3. PICK a \in {"tdKill"} : In(t, a)
        BY <1>16 DEF TearDownKills
  <2>4. SendSame(t)
        BY <2>1, <2>3, SendSameIs
  <2>5. HomeSame
        BY <1>16 DEF HomeSame, AtHome, TearDownKills, ending, conn
  <2>6. PastSame
        BY <1>p, <2>1, <2>3 DEF Down
  <2> QED  BY <1>o, <2>1, <2>2, <2>4, <2>5, <2>6, EndingKeeps DEF Down
<1>17. CASE SwitchUserStarts(t)
  <2>1. Stays(t, {"su", "suOpen", "cs", "suName", "send"})
        BY <1>17, SwitchUserStartsStays
  <2>2. /\ attemptShutdownFailed' = attemptShutdownFailed /\ terminateTargetStarted' = terminateTargetStarted
        /\ poweroffs' = poweroffs
        BY <1>17 DEF SwitchUserStarts, ending, conn, still
  <2>3. PICK a \in {"su"} : In(t, a)
        BY <1>17 DEF SwitchUserStarts
  <2>4. SendSame(t)
        BY <2>1, <2>3, SendSameIs
  <2>5. HomeSame
    <3>1. t = Main
          BY <1>17, SwitchUserStartsMoves
    <3> QED  BY <2>3, <3>1, ErrandOrderly DEF HomeSame, Errands, SuAt, OsAt, CsAt
  <2>6. PastSame
        BY <1>p, <2>1, <2>3 DEF Down
  <2> QED  BY <1>o, <2>1, <2>2, <2>4, <2>5, <2>6, EndingKeeps DEF Down
<1>18. CASE SwitchUserLogsIn(t)
  <2>1. Stays(t, {"suName", "suPass", "send", "return"})
        BY <1>18, SwitchUserLogsInStays
  <2>2. t = Main
        BY <1>18, SwitchUserLogsInMoves
  <2>3. PICK a \in {"suName", "suPass"} : In(t, a)
        BY <1>18 DEF SwitchUserLogsIn
  <2>4. /\ attemptShutdownFailed' = attemptShutdownFailed /\ terminateTargetStarted' = terminateTargetStarted
        /\ poweroffs' = poweroffs /\ isCurrentUserRoot' = isCurrentUserRoot /\ isSshConn' = isSshConn
        BY <1>18 DEF SwitchUserLogsIn, ending, still, conn
  <2>5. SendSame(t)
        BY <2>1, <2>3, SendSameIs
  <2>6. HomeSame
        BY <2>4 DEF HomeSame, AtHome
  <2>7. PastSame
    <3> SUFFICES ASSUME PastSd
                 PROVE  FALSE
        BY DEF PastSame
    <3>1. Within(a)
          BY <2>2, <2>3, WithinIs DEF PastSd
    <3>2. Nth = 9 /\ Top(Main) \in Belongs(Nth) /\ Top(Main).at = a
          BY <3>1 DEF PastSd, Within
    <3> QED  BY <3>2 DEF Belongs, SdAt, TdAt, Cmd, CmdAt
  <2> QED  BY <1>o, <2>1, <2>4, <2>5, <2>6, <2>7, EndingKeeps DEF Down
<1>19. CASE SwitchUserOpens(t)
  <2>1. Stays(t, {"suOpen", "suOpened", "os"})
        BY <1>19, SwitchUserOpensStays
  <2>2. /\ attemptShutdownFailed' = attemptShutdownFailed /\ terminateTargetStarted' = terminateTargetStarted
        /\ poweroffs' = poweroffs
        BY <1>19 DEF SwitchUserOpens, ending, conn, still
  <2>3. PICK a \in {"suOpen"} : In(t, a)
        BY <1>19 DEF SwitchUserOpens
  <2>4. SendSame(t)
        BY <2>1, <2>3, SendSameIs
  <2>5. HomeSame
    <3>1. t = Main
          BY <1>19, SwitchUserOpensMoves
    <3> QED  BY <2>3, <3>1, ErrandOrderly DEF HomeSame, Errands, SuAt, OsAt, CsAt
  <2>6. PastSame
        BY <1>p, <2>1, <2>3 DEF Down
  <2> QED  BY <1>o, <2>1, <2>2, <2>4, <2>5, <2>6, EndingKeeps DEF Down
<1>20. CASE SwitchUserEnds(t)
  <2>1. Stays(t, {"suOpened"})
        BY <1>20, SwitchUserEndsStays
  <2>2. /\ attemptShutdownFailed' = attemptShutdownFailed /\ terminateTargetStarted' = terminateTargetStarted
        /\ poweroffs' = poweroffs
        BY <1>20 DEF SwitchUserEnds, ending, conn, still
  <2>3. PICK a \in {"suOpened"} : In(t, a)
        BY <1>20 DEF SwitchUserEnds
  <2>4. SendSame(t)
        BY <2>1, <2>3, SendSameIs
  <2>5. HomeSame
        BY <1>20 DEF HomeSame, AtHome, SwitchUserEnds, ending, conn, still
  <2>6. PastSame
        BY <1>p, <2>1, <2>3 DEF Down
  <2> QED  BY <1>o, <2>1, <2>2, <2>4, <2>5, <2>6, EndingKeeps DEF Down
<1>21. CASE OpenStarts(t)
  <2>1. Stays(t, {"os", "osSpawn", "er"})
        BY <1>21, OpenStartsStays
  <2>2. /\ attemptShutdownFailed' = attemptShutdownFailed /\ terminateTargetStarted' = terminateTargetStarted
        /\ poweroffs' = poweroffs
        BY <1>21 DEF OpenStarts, ending, conn, quiet
  <2>3. PICK a \in {"os"} : In(t, a)
        BY <1>21 DEF OpenStarts
  <2>4. SendSame(t)
        BY <2>1, <2>3, SendSameIs
  <2>5. HomeSame
        BY <1>21 DEF HomeSame, AtHome, OpenStarts, ending, conn, quiet
  <2>6. PastSame
        BY <1>p, <2>1, <2>3 DEF Down
  <2> QED  BY <1>o, <2>1, <2>2, <2>4, <2>5, <2>6, EndingKeeps DEF Down
<1>22. CASE OpenSpawns(t)
  <2>1. Stays(t, {"osSpawn", "os", "osPass", "expect"})
        BY <1>22, OpenSpawnsStays
  <2>2. /\ attemptShutdownFailed' = attemptShutdownFailed /\ terminateTargetStarted' = terminateTargetStarted
        /\ poweroffs' = poweroffs
        BY <1>22 DEF OpenSpawns, ending, conn, quiet
  <2>3. PICK a \in {"osSpawn"} : In(t, a)
        BY <1>22 DEF OpenSpawns
  <2>4. SendSame(t)
        BY <2>1, <2>3, SendSameIs
  <2>5. HomeSame
    <3>1. t = Main
          BY <1>22, OpenSpawnsMoves
    <3> QED  BY <2>3, <3>1, ErrandOrderly DEF HomeSame, Errands, SuAt, OsAt, CsAt
  <2>6. PastSame
        BY <1>p, <2>1, <2>3 DEF Down
  <2> QED  BY <1>o, <2>1, <2>2, <2>4, <2>5, <2>6, EndingKeeps DEF Down
<1>23. CASE OpenLogsIn(t)
  <2>1. Stays(t, {"osPass", "osIn", "send", "os"})
        BY <1>23, OpenLogsInStays
  <2>2. /\ attemptShutdownFailed' = attemptShutdownFailed /\ terminateTargetStarted' = terminateTargetStarted
        /\ poweroffs' = poweroffs
        BY <1>23 DEF OpenLogsIn, ending, conn, quiet
  <2>3. PICK a \in {"osPass"} : In(t, a)
        BY <1>23 DEF OpenLogsIn
  <2>4. SendSame(t)
        BY <2>1, <2>3, SendSameIs
  <2>5. HomeSame
    <3>1. t = Main
          BY <1>23, OpenLogsInMoves
    <3> QED  BY <2>3, <3>1, ErrandOrderly DEF HomeSame, Errands, SuAt, OsAt, CsAt
  <2>6. PastSame
        BY <1>p, <2>1, <2>3 DEF Down
  <2> QED  BY <1>o, <2>1, <2>2, <2>4, <2>5, <2>6, EndingKeeps DEF Down
<1>24. CASE OpenEnds(t)
  <2>1. Stays(t, {"osIn", "os"})
        BY <1>24, OpenEndsStays
  <2>2. /\ attemptShutdownFailed' = attemptShutdownFailed /\ terminateTargetStarted' = terminateTargetStarted
        /\ poweroffs' = poweroffs
        BY <1>24 DEF OpenEnds, ending, conn, quiet
  <2>3. PICK a \in {"osIn"} : In(t, a)
        BY <1>24 DEF OpenEnds
  <2>4. SendSame(t)
        BY <2>1, <2>3, SendSameIs
  <2>5. HomeSame
    <3>1. t = Main
          BY <1>24, OpenEndsMoves
    <3> QED  BY <2>3, <3>1, ErrandOrderly DEF HomeSame, Errands, SuAt, OsAt, CsAt
  <2>6. PastSame
        BY <1>p, <2>1, <2>3 DEF Down
  <2> QED  BY <1>o, <2>1, <2>2, <2>4, <2>5, <2>6, EndingKeeps DEF Down
<1>25. CASE CloseStarts(t)
  <2>1. Stays(t, {"cs", "csKill", "send"})
        BY <1>25, CloseStartsStays
  <2>2. /\ attemptShutdownFailed' = attemptShutdownFailed /\ terminateTargetStarted' = terminateTargetStarted
        /\ poweroffs' = poweroffs
        BY <1>25 DEF CloseStarts, ending, conn, quiet
  <2>3. PICK a \in {"cs"} : In(t, a)
        BY <1>25 DEF CloseStarts
  <2>4. SendSame(t)
        BY <2>1, <2>3, SendSameIs
  <2>5. HomeSame
        BY <1>25 DEF HomeSame, AtHome, CloseStarts, ending, conn, quiet
  <2>6. PastSame
        BY <1>p, <2>1, <2>3 DEF Down
  <2> QED  BY <1>o, <2>1, <2>2, <2>4, <2>5, <2>6, EndingKeeps DEF Down
<1>26. CASE Closes(t)
  <2>1. Stays(t, {"csKill"})
        BY <1>26, ClosesStays
  <2>2. /\ attemptShutdownFailed' = attemptShutdownFailed /\ terminateTargetStarted' = terminateTargetStarted
        /\ poweroffs' = poweroffs
        BY <1>26 DEF Closes, ending, conn, quiet
  <2>3. PICK a \in {"csKill"} : In(t, a)
        BY <1>26 DEF Closes
  <2>4. SendSame(t)
        BY <2>1, <2>3, SendSameIs
  <2>5. HomeSame
    <3>1. t = Main
          BY <1>26, ClosesMoves
    <3> QED  BY <2>3, <3>1, ErrandOrderly DEF HomeSame, Errands, SuAt, OsAt, CsAt
  <2>6. PastSame
        BY <1>p, <2>1, <2>3 DEF Down
  <2> QED  BY <1>o, <2>1, <2>2, <2>4, <2>5, <2>6, EndingKeeps DEF Down
<1>27. CASE EnableRootSteps(t)
  <2>1. Stays(t, {"er", "erEcho", "erService", "send", "erDone"})
        BY <1>27, <1>r, EnableRootStepsStays DEF Ready
  <2>2. /\ attemptShutdownFailed' = attemptShutdownFailed /\ terminateTargetStarted' = terminateTargetStarted
        /\ poweroffs' = poweroffs
        BY <1>27 DEF EnableRootSteps, ending, conn, quiet
  <2>3. PICK a \in {"er", "erEcho", "erService", "erDone"} : In(t, a)
        BY <1>27 DEF EnableRootSteps
  <2>4. SendSame(t)
        BY <2>1, <2>3, SendSameIs
  <2>5. HomeSame
        BY <1>27 DEF HomeSame, AtHome, EnableRootSteps, ending, conn, quiet
  <2>6. PastSame
        BY <1>p, <2>1, <2>3 DEF Down
  <2> QED  BY <1>o, <2>1, <2>2, <2>4, <2>5, <2>6, EndingKeeps DEF Down
<1>28. CASE SendFileJoins(t)
  <2>1. Stays(t, {"sfJoin", "sfExists", "send", "sfRetry", "kb"})
        BY <1>28, SendFileJoinsStays
  <2>2. /\ attemptShutdownFailed' = attemptShutdownFailed /\ terminateTargetStarted' = terminateTargetStarted
        /\ poweroffs' = poweroffs
        BY <1>28 DEF SendFileJoins, ending, conn, rest
  <2>3. PICK a \in {"sfJoin"} : In(t, a)
        BY <1>28 DEF SendFileJoins
  <2>4. SendSame(t)
        BY <2>1, <2>3, SendSameIs
  <2>5. HomeSame
        BY <1>28 DEF HomeSame, AtHome, SendFileJoins, ending, conn, rest
  <2>6. PastSame
        BY <1>p, <2>1, <2>3 DEF Down
  <2> QED  BY <1>o, <2>1, <2>2, <2>4, <2>5, <2>6, EndingKeeps DEF Down
<1>29. CASE SendFileExists(t)
  <2>1. Stays(t, {"sfExists", "sfCheck", "sfRetry", "kb"})
        BY <1>29, SendFileExistsStays
  <2>2. /\ attemptShutdownFailed' = attemptShutdownFailed /\ terminateTargetStarted' = terminateTargetStarted
        /\ poweroffs' = poweroffs
        BY <1>29 DEF SendFileExists, ending, conn, rest
  <2>3. PICK a \in {"sfExists"} : In(t, a)
        BY <1>29 DEF SendFileExists
  <2>4. SendSame(t)
        BY <2>1, <2>3, SendSameIs
  <2>5. HomeSame
        BY <1>29 DEF HomeSame, AtHome, SendFileExists, ending, conn, rest
  <2>6. PastSame
        BY <1>p, <2>1, <2>3 DEF Down
  <2> QED  BY <1>o, <2>1, <2>2, <2>4, <2>5, <2>6, EndingKeeps DEF Down
<1>30. CASE SendFileChecks(t)
  <2>1. Stays(t, {"sfCheck", "sfSum", "send", "sfGiveUp", "kb", "sfRetry"})
        BY <1>30, SendFileChecksStays
  <2>2. /\ attemptShutdownFailed' = attemptShutdownFailed /\ terminateTargetStarted' = terminateTargetStarted
        /\ poweroffs' = poweroffs
        BY <1>30 DEF SendFileChecks, ending, conn, rest
  <2>3. PICK a \in {"sfCheck", "sfSum", "sfGiveUp"} : In(t, a)
        BY <1>30 DEF SendFileChecks
  <2>4. SendSame(t)
        BY <2>1, <2>3, SendSameIs
  <2>5. HomeSame
        BY <1>30 DEF HomeSame, AtHome, SendFileChecks, ending, conn, rest
  <2>6. PastSame
        BY <1>p, <2>1, <2>3 DEF Down
  <2> QED  BY <1>o, <2>1, <2>2, <2>4, <2>5, <2>6, EndingKeeps DEF Down
<1>31. CASE SendFileRetries(t)
  <2>1. Stays(t, {"sfRetry", "sf"})
        BY <1>31, SendFileRetriesStays
  <2>2. /\ attemptShutdownFailed' = attemptShutdownFailed /\ terminateTargetStarted' = terminateTargetStarted
        /\ poweroffs' = poweroffs
        BY <1>31 DEF SendFileRetries, ending, conn, rest
  <2>3. PICK a \in {"sfRetry"} : In(t, a)
        BY <1>31 DEF SendFileRetries
  <2>4. SendSame(t)
        BY <2>1, <2>3, SendSameIs
  <2>5. HomeSame
        BY <1>31 DEF HomeSame, AtHome, SendFileRetries, ending, conn, rest
  <2>6. PastSame
        BY <1>p, <2>1, <2>3 DEF Down
  <2> QED  BY <1>o, <2>1, <2>2, <2>4, <2>5, <2>6, EndingKeeps DEF Down
<1>32. CASE SendFileStarts(t)
  <2>1. /\ attemptShutdownFailed' = attemptShutdownFailed /\ terminateTargetStarted' = terminateTargetStarted
        /\ poweroffs' = poweroffs /\ isCurrentUserRoot' = isCurrentUserRoot /\ isSshConn' = isSshConn
        /\ resendAttempts' = resendAttempts
        BY <1>32 DEF SendFileStarts, ending, rest, conn
  <2>2. /\ t = Main /\ ~Lost(stack[t]) /\ In(t, "sf")
        /\ \/ ~isSshConn /\ Listening(t)
           \/ isSshConn /\ Went(t, "sfRetry")
           \/ isSshConn /\ Called(t, Interrupt(SelfProcess), "sfCheck")
        BY <1>32, SendFileStartsMoves
  <2>3. ASSUME NEW P, Stays(t, P), \A p \in P : p \notin Down \cup {"return"}
        PROVE  Ending'
    <3>1. SendSame(t)
          BY <2>2, <2>3, SendSameIs DEF Down
    <3>2. HomeSame
          BY <2>1 DEF HomeSame, AtHome
    <3>3. PastSame
          BY <1>p, <2>2, <2>3
    <3> QED  BY <1>o, <2>1, <2>3, <3>1, <3>2, <3>3, EndingKeeps
  <2>4. CASE Went(t, "sfRetry")
    <3>1. Stays(t, {"sf", "sfRetry"})
          BY <2>2, <2>4, GoStays DEF At
    <3> QED  BY <2>3, <3>1 DEF Down
  <2>5. CASE Called(t, Interrupt(SelfProcess), "sfCheck")
    <3>1. Interrupt(SelfProcess) \in Frame /\ Interrupt(SelfProcess).at = "kb"
          BY <2>2, KbIs DEF In
    <3>2. Stays(t, {"sf", "sfCheck", Interrupt(SelfProcess).at})
          BY <2>2, <2>5, <3>1, CallStays DEF At
    <3> QED  BY <2>3, <3>1, <3>2 DEF Down
  <2>6. CASE ~isSshConn /\ Listening(t)
    <3> DEFINE c == resendAttempts + 1
    <3>1. Scripted
          BY <2>2, MainCalled DEF Scripted, main
    <3>2. Within("sf")
          BY <2>2, <3>1, WithinIs
    <3>3. Nth = 1 /\ AtHome
      <4>1. Nth \in {1, 5}
            BY <3>2 DEF Within, Belongs, SfAt, KbAt, Cmd, CmdAt, OsAt, CsAt, SdAt, TdAt
      <4> QED  BY <2>6, <3>2, <4>1 DEF Within, Flags, AtHome
    <3>4. c \in Listener /\ stack'[c] = <<Try("nc")>> /\ \A u \in Thread : u # t /\ u # c => stack'[u] = stack[u]
          BY <2>6 DEF Listening
    <3>5. stack[c] = <<>>
      <4>1. TopIs(main, {"sf"})
            BY <2>2 DEF TopIs, In, Top, main
      <4> QED  BY <3>1, <3>3, <4>1 DEF Netcat, Current
    <3>6. stack'[t] = Push(Moving(t, "sfJoin"), Below(t)) /\ (Lost(stack'[t]) <=> Lost(stack[t]))
          BY <2>6 DEF Listening, Moving
    <3>7. Moving(t, "sfJoin") \in Frame /\ Moving(t, "sfJoin").at = "sfJoin"
      <4>1. Top(t) \in Frame /\ "sfJoin" \in At
            BY <2>2, HereIs DEF At
      <4> QED  BY <4>1, Moved DEF Moving
    <3>8. \A A : Has(stack'[t], A) <=> ("sfJoin" \in A \/ Has(Below(t), A))
      <4>1. Below(t) \in Seq(Frame)
            BY <2>2, HereIs
      <4> QED  BY <3>6, <3>7, <4>1, HasPush
    <3>9. \A A : Has(stack'[c], A) <=> "send" \in A
      <4> DEFINE f == Try("nc")
      <4>1. /\ f \in Frame /\ f.at = "send" /\ <<>> \in Seq(Frame)
            BY CommandIs DEF Kind
      <4>2. stack'[c] = Push(f, <<>>)
            BY <3>4 DEF Push
      <4> HIDE DEF f
      <4>3. \A A : ~Has(<<>>, A)
            BY HasNone
      <4>4. \A A : Has(Push(f, <<>>), A) <=> (f.at \in A \/ Has(<<>>, A))
            BY <4>1, HasPush
      <4> QED  BY <4>1, <4>2, <4>3, <4>4
    <3>10. \A A : Has(stack[t], A) <=> ("sf" \in A \/ Has(Below(t), A))
          BY <2>2, HereIs
    <3>11. \A u \in Thread : \A A : A \subseteq Down => (Has(stack'[u], A) => Has(stack[u], A))
      <4> SUFFICES ASSUME NEW u \in Thread, NEW A, A \subseteq Down
                   PROVE  Has(stack'[u], A) => Has(stack[u], A)
          OBVIOUS
      <4>1. "sfJoin" \notin A /\ "send" \notin A
            BY DEF Down
      <4>2. CASE u = t
            BY <3>8, <3>10, <4>1, <4>2
      <4>3. CASE u = c
            BY <3>9, <4>1, <4>3
      <4>4. CASE u # t /\ u # c
            BY <3>4, <4>4
      <4> QED  BY <4>2, <4>3, <4>4
    <3>12. /\ {"sdUser", "sdTerm"} \subseteq Down /\ {"sdUser", "sdTerm", "sdPower"} \subseteq Down
           /\ {"sdDown"} \subseteq Down /\ Down \subseteq Down
          BY DEF Down
    <3>13. /\ \A u \in Thread : Has(stack'[u], Down) => Has(stack[u], Down)
           /\ \A u \in Thread : Has(stack'[u], {"sdUser", "sdTerm"}) => Has(stack[u], {"sdUser", "sdTerm"})
           /\ \A u \in Thread : Has(stack'[u], {"sdUser", "sdTerm", "sdPower"}) => Has(stack[u], {"sdUser", "sdTerm", "sdPower"})
           /\ \A u \in Thread : Has(stack'[u], {"sdDown"}) => Has(stack[u], {"sdDown"})
          BY <3>11, <3>12
    <3>14. AnyLost => AnyLost'
      <4>1. ~Lost(stack[c])
            BY <3>5 DEF Lost
      <4>2. \A u \in Thread : Lost(stack[u]) => Lost(stack'[u])
            BY <3>4, <3>6, <4>1
      <4> QED  BY <4>2 DEF AnyLost
    <3>15. AtHome'
          BY <2>1, <3>3 DEF AtHome
    <3>16. \A u \in Thread : Has(stack'[u], {"sdDown"}) => u # t /\ u # c
      <4>1. ~Has(Below(t), {"sdDown"})
            BY <2>2, SdDownBelow
      <4>2. ~Has(stack'[t], {"sdDown"}) /\ ~Has(stack'[c], {"sdDown"})
            BY <3>8, <3>9, <4>1
      <4> QED  BY <4>2
    <3>17. \A u \in Thread : Has(stack'[u], {"sdDown"}) => poweroffs' = IF TopIs(stack'[u], {"send"}) THEN 0 ELSE 1
          BY <2>1, <3>4, <3>13, <3>16 DEF Ending
    <3>18. attemptShutdownFailed' => AnyLost'
          BY <2>1, <3>3, <3>14 DEF Ending, PastSd
    <3>19. /\ ~attemptShutdownFailed' => /\ ~terminateTargetStarted' /\ poweroffs' = 0
                                         /\ \A u \in Thread : ~Has(stack'[u], Down)
           /\ \A u, v \in Thread : Has(stack'[u], Down) /\ Has(stack'[v], Down) => u = v
           /\ \A u \in Thread : Has(stack'[u], {"sdUser", "sdTerm"}) => ~terminateTargetStarted'
           /\ \A u \in Thread : Has(stack'[u], {"sdUser", "sdTerm", "sdPower"}) => poweroffs' = 0
           /\ poweroffs' \in {0, 1}
          BY <2>1, <3>13 DEF Ending
    <3> QED  BY <3>15, <3>17, <3>18, <3>19 DEF Ending
  <2> QED  BY <2>2, <2>4, <2>5, <2>6
<1>33. CASE t = Main /\ ScriptGoes
  <2>1. /\ attemptShutdownFailed' = attemptShutdownFailed /\ terminateTargetStarted' = terminateTargetStarted
        /\ poweroffs' = poweroffs /\ isCurrentUserRoot' = isCurrentUserRoot /\ isSshConn' = isSshConn
        BY <1>33 DEF ScriptGoes, ending, rest, conn
  <2>2. Scripted => Nth \in 0 .. 9
        BY CourseIs
  <2>3. /\ In(Main, "script") /\ Below(Main) = <<>> /\ Nth \in 0 .. 8
        /\ Ended(Main) \/ ScriptCalls(Nth + 1)
        BY <1>33, <2>2, ScriptGoesMoves
  <2>4. PastSame
    <3>1. ~PastSd
          BY <2>3 DEF PastSd
    <3> QED  BY <3>1 DEF PastSame
  <2>5. HomeSame
        BY <2>1 DEF HomeSame, AtHome
  <2>6. \E P : Stays(t, P) /\ \A p \in P : p \notin Down
    <3>1. CASE Ended(Main)
      <4>1. Stays(t, {})
            BY <1>33, <3>1, EndStays
      <4> QED  BY <4>1
    <3>2. CASE ScriptCalls(Nth + 1)
      <4>1. Nth + 1 \in 1 .. 9
            BY <2>3
      <4>2. PICK a \in {"sf", "send", "su", "os", "cs", "sd"} : Stays(Main, {a})
            BY <2>3, <3>2, <4>1, ScriptStays
      <4>3. \A p \in {a} : p \notin Down
            BY DEF Down
      <4> QED  BY <1>33, <4>2, <4>3
    <3> QED  BY <2>3, <3>1, <3>2
  <2>7. PICK P : Stays(t, P) /\ \A p \in P : p \notin Down
        BY <2>6
  <2>8. SendSame(t)
    <3>1. ~Has(stack[Main], {"sdDown"})
      <4>1. Main \in Thread
            BY Constants
      <4>2. Has(stack[Main], {"sdDown"}) <=> ("script" \in {"sdDown"} \/ Has(Below(Main), {"sdDown"}))
            BY <2>3, <4>1, HereIs
      <4>3. ~Has(Below(Main), {"sdDown"})
            BY <2>3, HasNone
      <4> QED  BY <4>2, <4>3
    <3>2. ~Has(stack'[t], {"sdDown"})
          BY <1>33, <2>7, <3>1 DEF Stays, Ended, Down
    <3> QED  BY <3>2 DEF SendSame
  <2> QED  BY <1>o, <2>1, <2>4, <2>5, <2>7, <2>8, EndingKeeps
<1> QED  BY <1>1, <1>2, <1>3, <1>4, <1>5, <1>6, <1>7, <1>8, <1>9, <1>10, <1>11, <1>12, <1>13,
            <1>14, <1>15, <1>16, <1>17, <1>18, <1>19, <1>20, <1>21, <1>22, <1>23, <1>24, <1>25,
            <1>26, <1>27, <1>28, <1>29, <1>30, <1>31, <1>32, <1>33 DEF Step

------------------------------------------------------------------------------
(***************************************************************************)
(* What only grows: the flags of the ending.  The steps of a listener.     *)
(***************************************************************************)

\* What only grows: the end of the TTY's process, and the flags of the shutdown.
Grown ==
    /\ tty = "closed" => tty' = "closed"
    /\ terminateTargetStarted => terminateTargetStarted'
    /\ targetTearDownCalled => targetTearDownCalled'

\* The flags of the ending are never taken back.
LEMMA GrownStep ==
  ASSUME TypeInv, NEW t \in Thread, Step(t)
  PROVE  Grown
<1>1. CASE Sends(t)
      BY <1>1 DEF TypeInv, Grown, Sends, ending, conn
<1>2. CASE Answers(t)
      BY <1>2 DEF Answers, Shows, Screen, ending, Grown
<1>3. CASE TimesOut(t)
      BY <1>3 DEF TypeInv, Grown, TimesOut, ending, conn
<1>4. CASE Resolved(t)
      BY <1>4 DEF TypeInv, Grown, Resolved, ending, conn
<1>5. CASE Eof(t)
      BY <1>5 DEF TypeInv, Grown, Eof, ending, conn
<1>6. CASE InterruptStarts(t)
      BY <1>6 DEF TypeInv, Grown, InterruptStarts, ending, conn
<1>7. CASE InterruptTries(t)
      BY <1>7 DEF TypeInv, Grown, InterruptTries, ending, conn
<1>8. CASE InterruptEnds(t)
      BY <1>8 DEF TypeInv, Grown, InterruptEnds, ending, conn
<1>9. CASE TerminateSteps(t)
      BY <1>9 DEF TypeInv, Grown, TerminateSteps, ending, conn, still
<1>10. CASE ShutdownStarts(t)
      BY <1>10 DEF TypeInv, Grown, ShutdownStarts, ending, conn, still
<1>11. CASE ShutdownSwitchesUser(t)
      BY <1>11 DEF TypeInv, Grown, ShutdownSwitchesUser, ending, conn, still
<1>12. CASE TerminateTargetStarts(t)
      BY <1>12 DEF TypeInv, Grown, TerminateTargetStarts, ending, conn, still
<1>13. CASE PowersOff(t)
      BY <1>13 DEF TypeInv, Grown, PowersOff, ending, conn, still
<1>14. CASE Returns(t)
      BY <1>14 DEF TypeInv, Grown, Returns, ending, conn, still
<1>15. CASE TearDownStarts(t)
      BY <1>15 DEF TypeInv, Grown, TearDownStarts, ending, conn, still
<1>16. CASE TearDownKills(t)
      BY <1>16 DEF TearDownKills, Shows, Grown, TypeInv
<1>17. CASE SwitchUserStarts(t)
      BY <1>17 DEF TypeInv, Grown, SwitchUserStarts, ending, conn, still
<1>18. CASE SwitchUserLogsIn(t)
      BY <1>18 DEF TypeInv, Grown, SwitchUserLogsIn, ending, conn, still
<1>19. CASE SwitchUserOpens(t)
      BY <1>19 DEF TypeInv, Grown, SwitchUserOpens, ending, conn, still
<1>20. CASE SwitchUserEnds(t)
      BY <1>20 DEF TypeInv, Grown, SwitchUserEnds, ending, conn, still
<1>21. CASE OpenStarts(t)
      BY <1>21 DEF TypeInv, Grown, OpenStarts, ending, conn, quiet
<1>22. CASE OpenSpawns(t)
      BY <1>22 DEF TypeInv, Grown, OpenSpawns, ending, conn, quiet
<1>23. CASE OpenLogsIn(t)
      BY <1>23 DEF TypeInv, Grown, OpenLogsIn, ending, conn, quiet
<1>24. CASE OpenEnds(t)
      BY <1>24 DEF TypeInv, Grown, OpenEnds, ending, conn, quiet
<1>25. CASE CloseStarts(t)
      BY <1>25 DEF TypeInv, Grown, CloseStarts, ending, conn, quiet
<1>26. CASE Closes(t)
      BY <1>26 DEF TypeInv, Grown, Closes, ending, conn, quiet
<1>27. CASE EnableRootSteps(t)
      BY <1>27 DEF TypeInv, Grown, EnableRootSteps, ending, conn, quiet
<1>28. CASE SendFileJoins(t)
      BY <1>28 DEF TypeInv, Grown, SendFileJoins, ending, conn, rest
<1>29. CASE SendFileExists(t)
      BY <1>29 DEF TypeInv, Grown, SendFileExists, ending, conn, rest
<1>30. CASE SendFileChecks(t)
      BY <1>30 DEF TypeInv, Grown, SendFileChecks, ending, conn, rest
<1>31. CASE SendFileRetries(t)
      BY <1>31 DEF TypeInv, Grown, SendFileRetries, ending, conn, rest
<1>32. CASE SendFileStarts(t)
      BY <1>32 DEF TypeInv, Grown, SendFileStarts, ending, conn, rest
<1>33. CASE ScriptGoes
      BY <1>33 DEF TypeInv, Grown, ScriptGoes, ending, conn, rest
<1> QED  BY <1>1, <1>2, <1>3, <1>4, <1>5, <1>6, <1>7, <1>8, <1>9, <1>10, <1>11, <1>12, <1>13,
            <1>14, <1>15, <1>16, <1>17, <1>18, <1>19, <1>20, <1>21, <1>22, <1>23, <1>24, <1>25,
            <1>26, <1>27, <1>28, <1>29, <1>30, <1>31, <1>32, <1>33 DEF Step

\* A step of a listener, which only enters keyboardInterrupt after a time-out.
EntersKb(t, P) ==
    "kb" \in P => In(t, "kb") \/ (In(t, "expect") /\ Top(t).kind \in Long)

LEMMA ListenerStays ==
  ASSUME TypeInv, Stacks, NEW t \in Listener, Step(t), Ready(t)
  PROVE  \E P : Stays(t, P) /\ EntersKb(t, P)
<1>0. t \in Thread
      BY DEF Thread
<1>s. SharedStep(t)
      BY ListenerLeaves DEF Ready
<1>1. CASE Sends(t)
  <2>1. Stays(t, {"send", "expect"})
        BY <1>0, <1>1, SendsStays
  <2> QED  BY <2>1 DEF EntersKb
<1>2. CASE Answers(t)
  <2>1. Stays(t, {"expect"})
        BY <1>0, <1>2, AnswersStays
  <2> QED  BY <2>1 DEF EntersKb
<1>3. CASE TimesOut(t)
  <2>0. In(t, "expect")
        BY <1>3 DEF TimesOut
  <2>1. CASE Top(t).kind \in Long
    <3>1. Stays(t, {"expect", "timedOut", "kb"})
          BY <1>0, <1>3, TimesOutStays
    <3> QED  BY <2>0, <2>1, <3>1 DEF EntersKb
  <2>2. CASE Top(t).kind \notin Long
    <3>1. Ended(t) \/ Returned(t, "timeout")
          BY <1>0, <1>3, <2>2, TimesOutMoves
    <3>2. Stays(t, {"expect"})
          BY <1>0, <2>0, <3>1, EndStays, ReturnStays
    <3> QED  BY <3>2 DEF EntersKb
  <2> QED  BY <2>1, <2>2
<1>4. CASE Resolved(t)
  <2>1. Stays(t, {"timedOut"})
        BY <1>0, <1>4, ResolvedStays
  <2> QED  BY <2>1 DEF EntersKb
<1>5. CASE Eof(t)
  <2>1. Stays(t, {"expect"})
        BY <1>0, <1>5, EofStays
  <2> QED  BY <2>1 DEF EntersKb
<1>6. CASE InterruptStarts(t)
  <2>1. Stays(t, {"kb", "kbTry"}) /\ In(t, "kb")
        BY <1>0, <1>6, InterruptStartsStays DEF InterruptStarts
  <2> QED  BY <2>1 DEF EntersKb
<1>7. CASE InterruptTries(t)
  <2>1. Stays(t, {"kbTry", "send", "kbSpace"})
        BY <1>0, <1>7, InterruptTriesStays
  <2> QED  BY <2>1 DEF EntersKb
<1>8. CASE InterruptEnds(t)
  <2>1. Stays(t, {"kbSpace"})
        BY <1>0, <1>8, InterruptEndsStays
  <2> QED  BY <2>1 DEF EntersKb
<1>9. CASE TerminateSteps(t)
  <2>1. Stays(t, {"term", "tear", "sd", "exit", "td"})
        BY <1>0, <1>9, TerminateStepsStays
  <2> QED  BY <2>1 DEF EntersKb
<1>10. CASE ShutdownStarts(t)
  <2>1. Stays(t, {"sd", "sdUser"})
        BY <1>0, <1>10, ShutdownStartsStays
  <2> QED  BY <2>1 DEF EntersKb
<1>11. CASE ShutdownSwitchesUser(t)
  <2>0. In(t, "sdUser")
        BY <1>11 DEF ShutdownSwitchesUser
  <2>1. Stays(t, {"sdUser", "sdTerm", "su"})
        BY <1>0, <1>11, <2>0, ShutdownSwitchesUserStays DEF Ready
  <2> QED  BY <2>1 DEF EntersKb
<1>12. CASE TerminateTargetStarts(t)
  <2>0. In(t, "sdTerm")
        BY <1>12 DEF TerminateTargetStarts
  <2>1. Stays(t, {"sdTerm", "sdPower", "cs"})
        BY <1>0, <1>12, <2>0, TerminateTargetStartsStays DEF Ready
  <2> QED  BY <2>1 DEF EntersKb
<1>13. CASE PowersOff(t)
  <2>1. Stays(t, {"sdPower", "sdDown", "send", "return", "td"})
        BY <1>0, <1>13, PowersOffStays
  <2> QED  BY <2>1 DEF EntersKb
<1>14. CASE Returns(t)
  <2>1. Stays(t, {"return"})
        BY <1>0, <1>14, ReturnsStays
  <2> QED  BY <2>1 DEF EntersKb
<1>15. CASE TearDownStarts(t)
  <2>1. Stays(t, {"td", "tdKill", "send"})
        BY <1>0, <1>15, TearDownStartsStays
  <2> QED  BY <2>1 DEF EntersKb
<1>16. CASE TearDownKills(t)
  <2>1. Stays(t, {"tdKill"})
        BY <1>0, <1>16, TearDownKillsStays
  <2> QED  BY <2>1 DEF EntersKb
<1> QED  BY <1>s, <1>1, <1>2, <1>3, <1>4, <1>5, <1>6, <1>7, <1>8, <1>9, <1>10, <1>11, <1>12,
            <1>13, <1>14, <1>15, <1>16 DEF SharedStep

\* A stack of one frame.
LEMMA OneFrame ==
  ASSUME NEW s \in Seq(Frame), Len(s) = 1
  PROVE  s # <<>> /\ Head(s) = Bot(s)
<1>1. s # <<>>
  <2>1. Len(<<>>) = 0
        OBVIOUS
  <2>2. s = <<>> => Len(s) = Len(<<>>)
        OBVIOUS
  <2> QED  BY <2>1, <2>2
<1> DEFINE h == Head(s)
           T == Tail(s)
<1>2. h \in Frame /\ T \in Seq(Frame) /\ s = Push(h, T)
      BY <1>1, UnPush
<1> HIDE DEF h, T
<1>3. Len(Push(h, T)) = Len(T) + 1 /\ Len(T) \in Nat /\ (T = <<>> <=> Len(T) = 0)
      BY <1>2, PushIs
<1> DEFINE k == Len(T)
<1>4. k \in Nat /\ k + 1 = 1
      BY <1>2, <1>3
<1> HIDE DEF k
<1>5. k = 0
      BY <1>4
<1>6. Bot(s) = h
      BY <1>2, <1>3, <1>5, BotPush DEF k
<1> QED  BY <1>1, <1>6 DEF h

\* A listener whose command is over is not terminating.
LEMMA OffNotLost ==
  ASSUME NEW s \in Seq(Frame), Off(s)
  PROVE  ~Lost(s)
<1>1. CASE s = <<>>
      BY <1>1 DEF Lost
<1>2. CASE Len(s) = 1 /\ Head(s).at = "timedOut"
      BY <1>2, OneFrame DEF Lost, EndAt
<1> QED  BY <1>1, <1>2 DEF Off

\* Whoever steps is inside something.
LEMMA StepsNotEmpty ==
  ASSUME NEW t \in Thread, SharedStep(t)
  PROVE  stack[t] # <<>>
BY DEF SharedStep, Sends, Answers, TimesOut, Resolved, Eof, InterruptStarts, InterruptTries,
   InterruptEnds,
       TerminateSteps, ShutdownStarts, ShutdownSwitchesUser, TerminateTargetStarts, PowersOff, Returns,
       TearDownStarts, TearDownKills, In

\* The first frame of a listener that interrupts is its command.
LEMMA ListenerDeep ==
  ASSUME TypeInv, Stacks, NEW l \in Listener, stack[l] # <<>>, ~Lost(stack[l])
  PROVE  /\ Head(stack[l]).proc = "tty"
         /\ \/ Below(l) = <<>> /\ Head(stack[l]).at \in CmdAt /\ Head(stack[l]).kind = "nc" /\ Len(stack[l]) = 1
            \/ /\ Below(l) # <<>> /\ Bot(stack[l]).at = "timedOut"
               /\ \/ Head(stack[l]).at \in KbAt
                  \/ Head(stack[l]).kind \in {"break", "plain"} /\ Has(Below(l), Held)
               /\ Head(stack[l]).at # "kb" => ~Has(stack[l], {"kb"})
<1>1. Listens(stack[l])
      BY ListenerShape
<1>2. <<>> \in Seq(Frame)
      BY PushIs
<1>3. CASE \E c \in Frame : stack[l] = Push(c, <<>>) /\ c.at \in CmdAt /\ c.kind = "nc" /\ c.proc = "tty"
  <2>1. PICK c \in Frame : stack[l] = Push(c, <<>>) /\ c.at \in CmdAt /\ c.kind = "nc" /\ c.proc = "tty"
        BY <1>3
  <2>2. Head(Push(c, <<>>)) = c /\ Tail(Push(c, <<>>)) = <<>>
        BY <1>2, PushIs
  <2>3. Len(Push(c, <<>>)) = Len(<<>>) + 1 /\ Len(<<>>) = 0
        BY <1>2, PushIs
  <2> QED  BY <2>1, <2>2, <2>3 DEF Below
<1>4. CASE \E k, c \in Frame : stack[l] = Push(k, Push(c, <<>>)) /\ k.at \in KbAt /\ k.proc = "tty" /\ c.at = "timedOut"
  <2>1. PICK k, c \in Frame : stack[l] = Push(k, Push(c, <<>>)) /\ k.at \in KbAt /\ k.proc = "tty" /\ c.at = "timedOut"
        BY <1>4
  <2>2. TwoOn(stack[l], k, c, <<>>)
        BY <1>2, <2>1, TwoIs
  <2>3. Push(c, <<>>) \in Seq(Frame) /\ Push(c, <<>>) # <<>>
        BY <1>2, PushIs
  <2>4. Tail(stack[l]) = Push(c, <<>>)
        BY <2>1, <2>3, PushIs
  <2>5. Head(stack[l]) = k /\ Bot(stack[l]) = c
        BY <2>2 DEF TwoOn
  <2>6. Has(stack[l], {"kb"}) <=> (k.at \in {"kb"} \/ c.at \in {"kb"} \/ Has(<<>>, {"kb"}))
        BY <2>2 DEF TwoOn
  <2>7. ~Has(<<>>, {"kb"})
        BY HasNone
  <2> QED  BY <2>1, <2>3, <2>4, <2>5, <2>6, <2>7 DEF Below
<1>5. CASE \E f, k, c \in Frame : /\ stack[l] = Push(f, Push(k, Push(c, <<>>))) /\ c.at = "timedOut"
                                 /\ f.at \in {"send", "expect"} /\ f.proc = "tty"
                                 /\ \/ k.at = "kbTry" /\ f.kind = "break"
                                    \/ k.at = "kbSpace" /\ f.kind = "plain"
  <2>1. PICK f, k, c \in Frame : /\ stack[l] = Push(f, Push(k, Push(c, <<>>))) /\ c.at = "timedOut"
                                 /\ f.at \in {"send", "expect"} /\ f.proc = "tty"
                                 /\ \/ k.at = "kbTry" /\ f.kind = "break"
                                    \/ k.at = "kbSpace" /\ f.kind = "plain"
        BY <1>5
  <2> DEFINE b == Push(k, Push(c, <<>>))
  <2>2. TwoOn(b, k, c, <<>>)
        BY <1>2, TwoIs
  <2>3. b \in Seq(Frame) /\ b # <<>>
        BY <1>2, PushIs
  <2>4. stack[l] = Push(f, b)
        BY <2>1
  <2> HIDE DEF b
  <2>5. Head(stack[l]) = f /\ Tail(stack[l]) = b
        BY <2>3, <2>4, PushIs
  <2>6. Bot(stack[l]) = c
    <3>1. Bot(Push(f, b)) = Bot(b)
          BY <2>3, BotPush
    <3> QED  BY <2>2, <2>4, <3>1 DEF TwoOn
  <2>7. /\ \A A : ~Has(<<>>, A)
        /\ \A A : Has(Push(f, b), A) <=> (f.at \in A \/ Has(b, A))
        BY <2>3, HasNone, HasPush
  <2>8. Has(b, Held) /\ ~Has(b, {"kb"})
        BY <2>1, <2>2, <2>7 DEF TwoOn, Held
  <2>9. ~Has(stack[l], {"kb"})
        BY <2>1, <2>4, <2>7, <2>8
  <2> QED  BY <2>1, <2>3, <2>5, <2>6, <2>8, <2>9 DEF Below
<1> QED  BY <1>1, <1>3, <1>4, <1>5 DEF Listens

------------------------------------------------------------------------------
(***************************************************************************)
(* Listeners that terminate.                                               *)
(***************************************************************************)

\* A listener only terminates once the TTY has ended, or for an interrupt under way.
LEMMA NewlyLost ==
  ASSUME TypeInv, Stacks, Interrupted, NEW t \in Listener, Step(t), Ready(t),
         ~Lost(stack[t]), Lost(stack'[t])
  PROVE  \/ tty = "closed"
         \/ /\ keyboardInterruptTriggered /\ keyboardInterruptTriggered'
            /\ Has(stack[t], Held) \/ In(t, "kb")
<1>0. t \in Thread
      BY DEF Thread
<1>1. SharedStep(t)
      BY ListenerLeaves DEF Ready
<1>2. stack[t] # <<>>
      BY <1>0, <1>1, StepsNotEmpty
<1>3. Top(t).proc = "tty" /\ Screen(Top(t).proc) = tty
      BY <1>2, ListenerDeep DEF Top, Screen
<1>4. ASSUME NEW a, In(t, a)
      PROVE  a \in CmdAt \cup KbAt
      BY <1>4, ListenerAt
<1>5. CASE Sends(t)
      BY <1>0, <1>3, <1>5, SendsMoves DEF Went
<1>6. CASE Answers(t)
      BY <1>0, <1>6, AnswersMoves DEF Returned
<1>7. CASE TimesOut(t)
  <2>1. In(t, "expect") /\ Top(t).eoe
        BY <1>0, <1>7, TimesOutMoves DEF Called, Returned
  <2>2. FrameOK(Top(t))
        BY <1>0, <2>1, TopIs_OK
  <2>3. Top(t).at = "expect" /\ Top(t) = Head(stack[t])
        BY <2>1 DEF In, Top
  <2>4. Top(t).kind # "nc"
        BY <2>1, <2>2, <2>3 DEF FrameOK, CmdAt
  <2>5. Has(Below(t), Held)
        BY <1>2, <2>3, <2>4, ListenerDeep DEF KbAt
  <2>6. Has(stack[t], Held)
        BY <1>0, <2>1, <2>5, HereIs
  <2>7. keyboardInterruptTriggered
        BY <1>0, <2>6 DEF Interrupted
  <2>8. keyboardInterruptTriggered' = keyboardInterruptTriggered
        BY <1>7 DEF TimesOut
  <2> QED  BY <2>6, <2>7, <2>8
<1>8. CASE Resolved(t)
      BY <1>0, <1>8, ResolvedMoves DEF Returned
<1>9. CASE Eof(t)
      BY <1>0, <1>3, <1>9, EofMoves
<1>10. CASE InterruptStarts(t)
  <2>1. ~Returned(t, "ok") /\ ~Went(t, "kbTry")
        BY DEF Returned, Went
  <2>2. In(t, "kb") /\ keyboardInterruptTriggered /\ keyboardInterruptTriggered' = keyboardInterruptTriggered
        BY <1>0, <1>10, <2>1, InterruptStartsMoves
  <2> QED  BY <2>2
<1>11. CASE InterruptTries(t)
      BY <1>0, <1>11, InterruptTriesMoves DEF TriesAgain, Called, Went
<1>12. CASE InterruptEnds(t)
      BY <1>0, <1>12, InterruptEndsMoves DEF Returned
<1>13. CASE TerminateSteps(t)
      BY <1>4, <1>13 DEF TerminateSteps, CmdAt, KbAt
<1>14. CASE ShutdownStarts(t) \/ ShutdownSwitchesUser(t) \/ TerminateTargetStarts(t)
  <2>1. \E a \in {"sd", "sdUser", "sdTerm"} : In(t, a)
        BY <1>14 DEF ShutdownStarts, ShutdownSwitchesUser, TerminateTargetStarts
  <2> QED  BY <1>4, <2>1 DEF CmdAt, KbAt
<1>15. CASE PowersOff(t) \/ Returns(t) \/ TearDownStarts(t) \/ TearDownKills(t)
      BY <1>4, <1>15 DEF PowersOff, Returns, TearDownStarts, TearDownKills, CmdAt, KbAt
<1> QED  BY <1>1, <1>5, <1>6, <1>7, <1>8, <1>9, <1>10, <1>11, <1>12, <1>13, <1>14,
            <1>15 DEF SharedStep

\* What a listener's step leaves of the other listeners, and of its own end.
LEMMA ListenersKeep ==
  ASSUME TypeInv, Stacks, NEW t \in Listener, Step(t), Ready(t)
  PROVE  /\ MainAlone /\ Others(t) /\ Grown /\ stack[t] # <<>>
         /\ \A l \in Listener : Off(stack[l]) => Off(stack'[l])
         /\ \A l \in Listener : stack[l] = <<>> => stack'[l] = <<>>
         /\ \A l \in Listener : Lost(stack[l]) => Lost(stack'[l])
         /\ Silent => Silent'
<1>0. t \in Thread /\ \A l \in Listener : l \in Thread
      BY DEF Thread
<1>1. MainAlone /\ Others(t) /\ SharedStep(t)
      BY ListenerLeaves DEF Ready
<1>2. stack[t] # <<>>
      BY <1>0, <1>1, StepsNotEmpty
<1>3. Grown
      BY <1>0, GrownStep
<1>4. \A l \in Listener : Off(stack[l]) => Off(stack'[l])
      BY <1>0, <1>1, OffKeeps DEF Others
<1>5. \A l \in Listener : stack[l] = <<>> => stack'[l] = <<>>
      BY <1>0, <1>1, <1>2 DEF Others
<1>6. PICK P : Stays(t, P)
      BY ListenerStays
<1>7. \A l \in Listener : Lost(stack[l]) => Lost(stack'[l])
      BY <1>0, <1>6 DEF Stays, Others, Ended
<1>8. Silent => Silent'
      BY <1>3, <1>4 DEF Silent, Clear, Grown
<1> QED  BY <1>1, <1>2, <1>3, <1>4, <1>5, <1>7, <1>8

\* A listener that has been interrupted is not asked to interrupt again.
LEMMA ListenerCalm ==
  ASSUME TypeInv, Stacks, Stacks', stack' \in [Thread -> Seq(Frame)], NEW t \in Listener,
         Step(t), Ready(t),
         ~Waits(stack[t]), ~TopIs(stack[t], {"kb"})
  PROVE  ~Waits(stack'[t]) /\ ~TopIs(stack'[t], {"kb"})
<1>0. t \in Thread /\ stack[t] \in Seq(Frame) /\ stack'[t] \in Seq(Frame)
      BY DEF Thread, TypeInv
<1>1. stack[t] # <<>>
      BY ListenersKeep
<1>2. ASSUME Lost(stack'[t])
      PROVE  ~Waits(stack'[t]) /\ ~TopIs(stack'[t], {"kb"})
  <2>1. ~Waits(stack'[t])
        BY <1>0, <1>2, OneFrame DEF Waits, Lost, EndAt
  <2>2. ~Has(stack'[t], KbAt \cup SfAt)
        BY <1>0, <1>2 DEF Stacks, Good
  <2>3. ASSUME TopIs(stack'[t], {"kb"})
        PROVE  FALSE
    <3>1. stack'[t] # <<>> /\ Head(stack'[t]).at = "kb"
          BY <2>3 DEF TopIs
    <3> DEFINE h == Head(stack'[t])
               T == Tail(stack'[t])
    <3>2. h \in Frame /\ T \in Seq(Frame) /\ stack'[t] = Push(h, T) /\ h.at = "kb"
          BY <1>0, <3>1, UnPush
    <3> HIDE DEF h, T
    <3>4. Has(Push(h, T), KbAt \cup SfAt)
          BY <3>2, HasPush DEF KbAt
    <3>3. Has(stack'[t], KbAt \cup SfAt)
          BY <3>2, <3>4
    <3> QED  BY <2>2, <3>3
  <2> QED  BY <2>1, <2>3
<1>3. CASE Off(stack[t])
  <2>1. stack'[t] = <<>>
        BY <1>3, OffStep
  <2>2. Len(stack'[t]) = 0
        BY <2>1
  <2> QED  BY <2>1, <2>2 DEF Waits, TopIs
<1>4. CASE Lost(stack[t])
  <2>1. Lost(stack'[t])
        BY <1>4, ListenersKeep
  <2> QED  BY <1>2, <2>1
<1>5. CASE ~Off(stack[t]) /\ ~Lost(stack[t]) /\ ~Lost(stack'[t])
  <2>1. Head(stack[t]).at # "kb"
        BY <1>1 DEF TopIs
  <2>2. ~(Below(t) = <<>> /\ Head(stack[t]).at \in CmdAt /\ Len(stack[t]) = 1)
        BY <1>5 DEF Off, Waits, CmdAt
  <2>3. /\ Below(t) # <<>> /\ Bot(stack[t]).at = "timedOut" /\ ~Has(stack[t], {"kb"})
        /\ Head(stack[t]).at \in KbAt \/ Head(stack[t]).kind \in {"break", "plain"}
        BY <1>1, <1>5, <2>1, <2>2, ListenerDeep
  <2>4. PICK P : Stays(t, P) /\ EntersKb(t, P)
        BY ListenerStays
  <2>5. "kb" \notin P
    <3>1. ~In(t, "kb")
          BY <2>1 DEF In, Top
    <3>2. ~(In(t, "expect") /\ Top(t).kind \in Long)
          BY <2>3 DEF In, Top, Long, KbAt
    <3> QED  BY <2>4, <3>1, <3>2 DEF EntersKb
  <2>6. ~Ended(t)
        BY <1>5 DEF Ended
  <2>7. stack'[t] # <<>> /\ Bot(stack'[t]).at = "timedOut"
        BY <2>3, <2>4, <2>6 DEF Stays
  <2>8. ~Has(stack'[t], {"kb"})
        BY <2>3, <2>4, <2>5, <2>6 DEF Stays
  <2>9. ~Waits(stack'[t])
        BY <1>0, <2>7, OneFrame DEF Waits
  <2>10. Head(stack'[t]).at # "kb"
    <3>1. Head(stack'[t]) \in Frame /\ Tail(stack'[t]) \in Seq(Frame) /\ stack'[t] = Push(Head(stack'[t]), Tail(stack'[t]))
          BY <1>0, <2>7, UnPush
    <3> QED  BY <2>8, <3>1, HasPush
  <2> QED  BY <2>9, <2>10 DEF TopIs
<1> QED  BY <1>2, <1>3, <1>4, <1>5

------------------------------------------------------------------------------
(***************************************************************************)
(* Listeners and the transfer over netcat.                                 *)
(***************************************************************************)

\* The listeners that keep the place of the flag.
LEMMA LostInOrder ==
  ASSUME TypeInv, Stacks, Interrupted, Netcat, Scripted, NEW t \in Listener, Step(t), Ready(t),
         ~terminateTargetStarted', NEW l \in Listener, Lost(stack'[l])
  PROVE  tty' = "closed" \/ (keyboardInterruptTriggered' /\ ~Has(main, Held))
<1>0. t \in Thread /\ l \in Thread /\ t # Main /\ Main \in Thread
      BY Constants DEF Thread
<1>1. Grown /\ Others(t) /\ MainAlone /\ SharedStep(t) /\ stack[t] # <<>>
      BY ListenersKeep, ListenerLeaves DEF Ready
<1>2. ~terminateTargetStarted
      BY <1>1 DEF Grown
<1>3. CASE Lost(stack[l])
  <2>1. tty = "closed" \/ (keyboardInterruptTriggered /\ ~Has(main, Held))
        BY <1>2, <1>3 DEF Netcat
  <2>2. CASE tty = "closed"
        BY <1>1, <2>2 DEF Grown
  <2>3. CASE keyboardInterruptTriggered /\ ~Has(main, Held)
    <3>1. l = Current
      <4>1. ~Off(stack[l])
            BY <1>0, <1>3, OffNotLost DEF TypeInv
      <4> QED  BY <1>2, <4>1 DEF Netcat
    <3>2. ~InterruptEnds(t)
      <4> SUFFICES ASSUME InterruptEnds(t)
                   PROVE  FALSE
          OBVIOUS
      <4>1. In(t, "kbSpace")
            BY DEF InterruptEnds
      <4>2. Has(stack[t], KbAt \cup SfAt)
            BY <1>0, <4>1, HereIs DEF KbAt
      <4>3. ~Lost(stack[t])
            BY <1>0, <4>2 DEF Stacks, Good
      <4>4. ~Off(stack[t])
            BY <4>1 DEF Off, In, Top
      <4>5. t = Current
            BY <1>2, <4>4 DEF Netcat
      <4> QED  BY <1>3, <3>1, <4>3, <4>5
    <3>3. keyboardInterruptTriggered'
      <4>1. CASE InterruptStarts(t)
            BY <2>3, <4>1 DEF InterruptStarts
      <4>2. CASE ~InterruptStarts(t)
            BY <1>1, <2>3, <3>2, <4>2 DEF SharedStep, Sends, Answers, TimesOut, Resolved, Eof,
               InterruptTries,
               TerminateSteps, ShutdownStarts, ShutdownSwitchesUser, TerminateTargetStarts, PowersOff, Returns,
               TearDownStarts, TearDownKills, still
      <4> QED  BY <4>1, <4>2
    <3> QED  BY <2>3, <3>3
  <2> QED  BY <2>1, <2>2, <2>3
<1>4. CASE ~Lost(stack[l])
  <2>1. l = t
        BY <1>0, <1>1, <1>4 DEF Others
  <2>2. \/ tty = "closed"
        \/ /\ keyboardInterruptTriggered /\ keyboardInterruptTriggered'
           /\ Has(stack[t], Held) \/ In(t, "kb")
        BY <1>4, <2>1, NewlyLost
  <2>3. CASE tty = "closed"
        BY <1>1, <2>3 DEF Grown
  <2>4. CASE keyboardInterruptTriggered' /\ Has(stack[t], Held)
    <3>1. ~Has(main, Held)
          BY <1>0, <2>4 DEF Interrupted, main
    <3> QED  BY <2>4, <3>1
  <2>5. CASE keyboardInterruptTriggered' /\ In(t, "kb")
    <3>1. ~Off(stack[t]) /\ ~Lost(stack[t])
          BY <1>4, <2>1, <2>5 DEF Off, In, Top
    <3>2. t = Current
          BY <1>2, <3>1 DEF Netcat
    <3>3. ~Has(main, {"kbTry"})
          BY <1>2, <3>1, <3>2 DEF Netcat
    <3>4. ~Silent
          BY <1>2, <3>1 DEF Silent, Clear
    <3>5. ~Has(main, {"sf", "sfExists", "sfCheck", "sfSum", "sfGiveUp", "kbSpace"})
          BY <3>4 DEF Netcat
    <3>6. ~Has(main, Held)
          BY <3>3, <3>5 DEF Held, Has
    <3> QED  BY <2>5, <3>6
  <2> QED  BY <2>2, <2>3, <2>4, <2>5
<1> QED  BY <1>3, <1>4

\* Every step of a listener keeps Netcat.
LEMMA NetcatOfListener ==
  ASSUME TypeInv, Stacks, Stacks', TypeInv', Interrupted, Netcat, NEW t \in Listener, Step(t),
         Ready(t)
  PROVE  Netcat'
<1>0. t \in Thread /\ Main \in Thread
      BY Constants DEF Thread
<1>1. /\ MainAlone /\ Others(t) /\ Grown /\ stack[t] # <<>>
      /\ \A l \in Listener : Off(stack[l]) => Off(stack'[l])
      /\ \A l \in Listener : stack[l] = <<>> => stack'[l] = <<>>
      /\ \A l \in Listener : Lost(stack[l]) => Lost(stack'[l])
      /\ Silent => Silent'
      BY ListenersKeep
<1>2. main' = main /\ Nth' = Nth /\ (Scripted' <=> Scripted) /\ (Idle' <=> Idle) /\ Current' = Current
      BY <1>1 DEF MainAlone, main, Nth, Scripted, Idle, Current
<1> SUFFICES ASSUME Scripted, Scripted'
             PROVE  Netcat'
    BY <1>2 DEF Netcat
<1>3. Current \in Listener
      BY Constants DEF TypeInv, Current, Listener
<1>n1. terminateTargetStarted' \/ \A l \in Listener : l # Current' => Off(stack'[l])
      BY <1>1, <1>2 DEF Netcat, Grown
<1>n2. Nth' = 0 \/ (Nth' = 1 /\ ~Idle') => \A l \in Listener : l > Current' => stack'[l] = <<>>
      BY <1>1, <1>2 DEF Netcat
<1>n3. Nth' = 0 \/ (Nth' = 1 /\ TopIs(main', {"sf"})) => stack'[Current'] = <<>>
      BY <1>1, <1>2, <1>3 DEF Netcat
<1>n4. Nth' >= 2 \/ Idle' => Silent'
      BY <1>1, <1>2 DEF Netcat
<1>n5. Has(main', {"sf", "sfExists", "sfCheck", "sfSum", "sfGiveUp", "kbSpace"}) => Silent'
      BY <1>1, <1>2 DEF Netcat
<1>n6. TopIs(main', {"sfRetry"}) => Silent'
      BY <1>1, <1>2 DEF Netcat
<1>n7. TopIs(main', {"kbTry"}) /\ Head(main').n > 0 => Silent'
      BY <1>1, <1>2 DEF Netcat
<1>n8. Has(main', {"kbTry"}) => \/ terminateTargetStarted' \/ Off(stack'[Current'])
                                \/ Lost(stack'[Current']) /\ tty' = "closed"
      BY <1>1, <1>2, <1>3 DEF Netcat, Grown
<1>n9. Has(main', {"kb"}) => \/ terminateTargetStarted'
                             \/ ~Waits(stack'[Current']) /\ ~TopIs(stack'[Current'], {"kb"})
  <2> SUFFICES ASSUME Has(main, {"kb"}), ~terminateTargetStarted'
               PROVE  ~Waits(stack'[Current]) /\ ~TopIs(stack'[Current], {"kb"})
      BY <1>2
  <2>1. ~Waits(stack[Current]) /\ ~TopIs(stack[Current], {"kb"})
        BY <1>1 DEF Netcat, Grown
  <2>2. CASE t = Current
    <3>1. stack' \in [Thread -> Seq(Frame)]
          BY DEF TypeInv
    <3> QED  BY <2>1, <2>2, <3>1, ListenerCalm
  <2>3. CASE t # Current
    <3>1. Current \in Thread
          BY <1>3 DEF Thread
    <3>2. stack'[Current] = stack[Current]
          BY <1>1, <2>3, <3>1 DEF Others
    <3> QED  BY <2>1, <3>2
  <2> QED  BY <2>2, <2>3
<1>n10. ~terminateTargetStarted' => \A l \in Listener : Lost(stack'[l]) =>
           tty' = "closed" \/ (keyboardInterruptTriggered' /\ ~Has(main', Held))
      BY <1>2, LostInOrder
<1> QED  BY <1>n1, <1>n2, <1>n3, <1>n4, <1>n5, <1>n6, <1>n7, <1>n8, <1>n9, <1>n10 DEF Netcat

\* The rest of the invariant is about the main thread.
LEMMA MainOfListener ==
  ASSUME TypeInv, Stacks, Errand, Course, Closing, Screens, NEW t \in Listener, Step(t),
         Ready(t)
  PROVE  Errand' /\ Course' /\ Closing' /\ Screens'
<1>0. t \in Thread /\ Main \in Thread
      BY Constants DEF Thread
<1>1. MainAlone /\ Others(t) /\ SharedStep(t) /\ stack[t] # <<>>
      BY ListenersKeep, ListenerLeaves DEF Ready
<1>2. /\ main' = main /\ Nth' = Nth /\ (Scripted' <=> Scripted) /\ (Idle' <=> Idle) /\ (PastSd' <=> PastSd)
      /\ ret'[Main] = ret[Main] /\ Belongs(Nth') = Belongs(Nth)
      BY <1>1 DEF MainAlone, main, Nth, Scripted, Idle, PastSd
<1>3. Errand'
      BY <1>1, <1>2 DEF Errand, MainAlone
<1>4. Course'
      BY <1>1, <1>2 DEF Course, MainAlone
<1>5. Closing'
  <2>1. CASE ~PastSd
        BY <1>2, <2>1 DEF Closing
  <2>2. CASE PastSd
    <3>1. Clear
          BY <2>2 DEF Closing
    <3>2. Resolved(t)
          BY <3>1, OffStep DEF Clear
    <3>3. Clear'
          BY <3>1, ListenersKeep DEF Clear
    <3>4. tty' = tty /\ poweroffs' = poweroffs /\ targetTearDownCalled' = targetTearDownCalled
          BY <3>2 DEF Resolved, ending
    <3> QED  BY <1>2, <3>3, <3>4 DEF Closing
  <2> QED  BY <2>1, <2>2
<1>6. Screens'
  <2> SUFFICES ASSUME Scripted', ~AnyLost'
               PROVE  Screens'
      BY DEF Screens
  <2>1. PICK P : Stays(t, P)
        BY ListenerStays
  <2>2. ~AnyLost
        BY <1>0, <2>1, LostKeeps
  <2>3. ~Lost(stack[t])
        BY <1>0, <2>2 DEF AnyLost
  <2>4. ASSUME NEW a, In(t, a)
        PROVE  a \in CmdAt \cup KbAt
        BY <2>3, <2>4, ListenerAt
  <2>5. tty' = tty /\ ssh' = ssh
    <3>1. CASE Answers(t)
      <4>1. Head(stack[t]).proc = "tty" /\ Head(stack[t]).kind \in {"nc", "break", "plain"}
        <5>1. Head(stack[t]).at \notin KbAt
              BY <3>1 DEF Answers, In, Top, KbAt
        <5> QED  BY <1>1, <2>3, <5>1, ListenerDeep
      <4>2. /\ Answer(Top(t).kind, tty) # "silent" /\ Shows("tty", Answer(Top(t).kind, tty))
        <5>1. Top(t).proc = "tty" /\ Screen(Top(t).proc) = tty
              BY <4>1 DEF Top, Screen
        <5> QED  BY <1>0, <3>1, <5>1, AnswersMoves
      <4>3. Top(t).kind \in {"nc", "break", "plain"}
            BY <4>1 DEF Top
      <4>4. Answer(Top(t).kind, tty) = tty
            BY <4>2, <4>3 DEF Answer
      <4> QED  BY <4>2, <4>4 DEF Shows
    <3>2. CASE Sends(t) \/ TimesOut(t) \/ Resolved(t) \/ Eof(t) \/ InterruptStarts(t) \/ InterruptTries(t) \/ InterruptEnds(t)
          BY <3>2 DEF Sends, TimesOut, Resolved, Eof, InterruptStarts, InterruptTries,
             InterruptEnds, conn
    <3>3. CASE TerminateSteps(t) \/ ShutdownStarts(t) \/ ShutdownSwitchesUser(t) \/ TerminateTargetStarts(t) \/ PowersOff(t)
               \/ Returns(t) \/ TearDownStarts(t)
          BY <3>3 DEF TerminateSteps, ShutdownStarts, ShutdownSwitchesUser,
             TerminateTargetStarts, PowersOff,
             Returns, TearDownStarts, still, conn
    <3>4. ~TearDownKills(t)
          BY <2>4 DEF TearDownKills, CmdAt, KbAt
    <3> QED  BY <1>1, <3>1, <3>2, <3>3, <3>4 DEF SharedStep
  <2> QED  BY <1>2, <2>2, <2>5 DEF Screens
<1> QED  BY <1>3, <1>4, <1>5, <1>6

------------------------------------------------------------------------------
(***************************************************************************)
(* What main leaves alone.                                                 *)
(***************************************************************************)

\* The main thread only starts a listener.
LEMMA MainOthers ==
  ASSUME TypeInv, Stacks, Step(Main), Ready(Main)
  PROVE  Others(Main) \/ (In(Main, "sf") /\ ~isSshConn /\ Listening(Main) /\ SendFileStarts(Main))
<1> DEFINE t == Main
<1>0. t \in Thread /\ t \notin Listener
      BY Constants
<1>1. CASE Sends(t)
      BY <1>0, <1>1, SendsStays DEF Stays
<1>2. CASE Answers(t)
      BY <1>0, <1>2, AnswersStays DEF Stays
<1>3. CASE TimesOut(t)
      BY <1>0, <1>3, TimesOutStays DEF Stays
<1>4. CASE Resolved(t)
      BY <1>0, <1>4, ResolvedStays DEF Stays
<1>5. CASE Eof(t)
      BY <1>0, <1>5, EofStays DEF Stays
<1>6. CASE InterruptStarts(t)
      BY <1>0, <1>6, InterruptStartsStays DEF Stays
<1>7. CASE InterruptTries(t)
      BY <1>0, <1>7, InterruptTriesStays DEF Stays
<1>8. CASE InterruptEnds(t)
      BY <1>0, <1>8, InterruptEndsStays DEF Stays
<1>9. CASE TerminateSteps(t)
      BY <1>0, <1>9, TerminateMoves DEF Went, Called, Others
<1>10. CASE ShutdownStarts(t)
      BY <1>0, <1>10, ShutdownStartsStays DEF Stays
<1>11. CASE ShutdownSwitchesUser(t)
      BY <1>0, <1>11, ShutdownSwitchesUserStays DEF Stays
<1>12. CASE TerminateTargetStarts(t)
      BY <1>0, <1>12, TerminateTargetStartsStays DEF Stays
<1>13. CASE PowersOff(t)
      BY <1>0, <1>13, PowersOffStays DEF Stays
<1>14. CASE Returns(t)
      BY <1>0, <1>14, ReturnsStays DEF Stays
<1>15. CASE TearDownStarts(t)
      BY <1>0, <1>15, TearDownStartsStays DEF Stays
<1>16. CASE TearDownKills(t)
      BY <1>0, <1>16, TearDownKillsStays DEF Stays
<1>17. CASE SwitchUserStarts(t)
      BY <1>0, <1>17, SwitchUserStartsStays DEF Stays
<1>18. CASE SwitchUserLogsIn(t)
      BY <1>0, <1>18, SwitchUserLogsInStays DEF Stays
<1>19. CASE SwitchUserOpens(t)
      BY <1>0, <1>19, SwitchUserOpensStays DEF Stays
<1>20. CASE SwitchUserEnds(t)
      BY <1>0, <1>20, SwitchUserEndsStays DEF Stays
<1>21. CASE OpenStarts(t)
      BY <1>0, <1>21, OpenStartsStays DEF Stays
<1>22. CASE OpenSpawns(t)
      BY <1>0, <1>22, OpenSpawnsStays DEF Stays
<1>23. CASE OpenLogsIn(t)
      BY <1>0, <1>23, OpenLogsInStays DEF Stays
<1>24. CASE OpenEnds(t)
      BY <1>0, <1>24, OpenEndsStays DEF Stays
<1>25. CASE CloseStarts(t)
      BY <1>0, <1>25, CloseStartsStays DEF Stays
<1>26. CASE Closes(t)
      BY <1>0, <1>26, ClosesStays DEF Stays
<1>27. CASE EnableRootSteps(t)
      BY <1>0, <1>27, EnableRootStepsStays DEF Stays, Ready
<1>28. CASE SendFileJoins(t)
      BY <1>0, <1>28, SendFileJoinsStays DEF Stays
<1>29. CASE SendFileExists(t)
      BY <1>0, <1>29, SendFileExistsStays DEF Stays
<1>30. CASE SendFileChecks(t)
      BY <1>0, <1>30, SendFileChecksStays DEF Stays
<1>31. CASE SendFileRetries(t)
      BY <1>0, <1>31, SendFileRetriesStays DEF Stays
<1>32. CASE SendFileStarts(t)
      BY <1>0, <1>32, SendFileStartsMoves DEF Went, Called
<1>33. CASE ScriptGoes
  <2>1. \A u \in Thread : u # Main => stack'[u] = stack[u]
    <3>1. CASE Terminate(Main, FALSE)
          BY <3>1 DEF Terminate, TypeInv
    <3>2. CASE \E fs : Become(Main, fs)
          BY <3>2 DEF Become, TypeInv
    <3> QED  BY <1>33, <3>1, <3>2 DEF ScriptGoes
  <2> QED  BY <2>1 DEF Others
<1> QED  BY <1>1, <1>2, <1>3, <1>4, <1>5, <1>6, <1>7, <1>8, <1>9, <1>10, <1>11, <1>12, <1>13,
            <1>14, <1>15, <1>16, <1>17, <1>18, <1>19, <1>20, <1>21, <1>22, <1>23, <1>24, <1>25,
            <1>26, <1>27, <1>28, <1>29, <1>30, <1>31, <1>32, <1>33 DEF Step

------------------------------------------------------------------------------
(***************************************************************************)
(* The transfer over netcat, seen from main.                               *)
(***************************************************************************)

\* sendFile calls nobody from its first line.
LEMMA NoSf ==
  ASSUME TypeInv, Stacks, NEW t \in Thread, NEW a, In(t, a)
  PROVE  ~Has(Below(t), {"sf"})
<1> DEFINE b == Below(t)
           f == Top(t)
<1>1. f \in Frame /\ b \in Seq(Frame) /\ stack[t] = Push(f, b)
      BY Acts
<1>2. Legal(stack[t])
      BY TopIs_OK
<1> SUFFICES ASSUME NEW i \in 1 .. Len(b), b[i].at = "sf"
             PROVE  FALSE
    BY DEF Has
<1> HIDE DEF b, f
<1>3. Len(b) \in Nat /\ Len(Push(f, b)) = Len(b) + 1 /\ Push(f, b)[i + 1] = b[i]
      BY <1>1, PushIs
<1>4. i \in 1 .. Len(Push(f, b)) - 1
      BY <1>3
<1>5. Link(Push(f, b)[i], Push(f, b)[i + 1])
      BY <1>1, <1>2, <1>4 DEF Legal
<1> DEFINE g == b[i]
           h == Push(f, b)[i]
<1>6. Link(h, g) /\ g.at = "sf"
      BY <1>3, <1>5
<1> HIDE DEF g, h
<1> QED  BY <1>6 DEF Link

\* Nothing is left to say once the listeners are done, or the target goes down.
LEMMA SilentNetcat ==
  ASSUME TypeInv', Silent', Current' \in Listener,
         Nth' = 0 \/ (Nth' = 1 /\ ~Idle') => \A l \in Listener : l > Current' => stack'[l] = <<>>,
         Nth' = 0 \/ (Nth' = 1 /\ TopIs(main', {"sf"})) => stack'[Current'] = <<>>
  PROVE  Netcat'
<1>1. CASE terminateTargetStarted'
      BY <1>1 DEF Netcat
<1>2. CASE Clear'
  <2>1. \A l \in Listener : Off(stack'[l])
        BY <1>2 DEF Clear
  <2>2. \A l \in Listener : ~Lost(stack'[l])
    <3> SUFFICES ASSUME NEW l \in Listener
                 PROVE  ~Lost(stack'[l])
        OBVIOUS
    <3>1. stack'[l] \in Seq(Frame)
          BY DEF TypeInv, Thread
    <3> QED  BY <2>1, <3>1, OffNotLost
  <2>3. ~Waits(stack'[Current']) /\ ~TopIs(stack'[Current'], {"kb"})
    <3>1. CASE stack'[Current'] = <<>>
      <4>1. Len(stack'[Current']) = 0
            BY <3>1
      <4> QED  BY <3>1, <4>1 DEF Waits, TopIs
    <3>2. CASE Head(stack'[Current']).at = "timedOut"
          BY <3>2 DEF Waits, TopIs
    <3> QED  BY <2>1, <3>1, <3>2 DEF Off
  <2> QED  BY <2>1, <2>2, <2>3 DEF Netcat, Silent
<1> QED  BY <1>1, <1>2 DEF Silent

\* There is a listener for every transfer.
LEMMA CurrentIs ==
  ASSUME TypeInv
  PROVE  Current \in Listener /\ Current \in Thread /\ Current # Main
<1>1. Current \in Listener
      BY Constants DEF TypeInv, Current, Listener
<1> QED  BY <1>1, Constants DEF Thread

\* Inside the first call of the script.
First(a) == Within(a) /\ Nth = 1

\* The first call is root's, on the TTY.
LEMMA FirstIs ==
  ASSUME NEW a, First(a)
  PROVE  /\ Top(Main).proc = "tty" /\ isCurrentUserRoot /\ ~isSshConn /\ SelfProcess = "tty"
         /\ a \in SfAt \cup KbAt \/ Cmd(Top(Main), {"plain", "exists", "break"})
         /\ a \in SfAt \cup KbAt \cup CmdAt
         /\ ~Idle
<1>1. Top(Main) \in Belongs(1) /\ Top(Main).at = a
      BY DEF First, Within
<1>2. /\ Top(Main).proc = "tty"
      /\ a \in SfAt \cup KbAt \/ Cmd(Top(Main), {"plain", "exists", "break"})
      BY <1>1 DEF Belongs
<1>3. isCurrentUserRoot /\ ~isSshConn
      BY DEF First, Within, Flags
<1>4. ~Idle
      BY <1>1, <1>2 DEF Idle, TopIs, main, Top, SfAt, KbAt, Cmd, CmdAt
<1> QED  BY <1>1, <1>2, <1>3, <1>4 DEF Cmd, SelfProcess

\* Once the listeners are done, a step of the first call changes nothing of that.
LEMMA FirstSilent ==
  ASSUME TypeInv, Stacks, TypeInv', Netcat, Silent, NEW a, First(a), a # "sf",
         NEW P, Stays(Main, P), "sf" \notin P, HoldsPlace,
         resendAttempts' = resendAttempts, Grown
  PROVE  Netcat'
<1>0. Main \in Thread /\ \A l \in Listener : l \in Thread /\ l # Main
      BY Constants DEF Thread
<1> SUFFICES ASSUME Scripted'
             PROVE  Netcat'
    BY DEF Netcat
<1>1. ~Lost(stack'[Main]) /\ Nth' = Nth
      BY DEF HoldsPlace, Lost, Scripted, main, EndAt
<1>2. \A l \in Listener : stack'[l] = stack[l]
      BY <1>0 DEF Stays, Others
<1>3. Current' = Current /\ Current' \in Listener
      BY CurrentIs DEF Current
<1>4. Silent'
      BY <1>2 DEF Silent, Clear, Grown
<1>5. ~Has(stack[Main], {"sf"})
  <2>1. In(Main, a)
        BY DEF First, Within
  <2>2. ~Has(Below(Main), {"sf"})
        BY <1>0, <2>1, NoSf
  <2>3. Has(stack[Main], {"sf"}) <=> (a \in {"sf"} \/ Has(Below(Main), {"sf"}))
        BY <1>0, <2>1, HereIs
  <2> QED  BY <2>2, <2>3
<1>6. ~Has(stack'[Main], {"sf"})
  <2>1. ~Ended(Main)
        BY <1>1 DEF Ended
  <2> QED  BY <1>5, <2>1 DEF Stays
<1>7. ~TopIs(main', {"sf"})
  <2> SUFFICES ASSUME TopIs(main', {"sf"})
               PROVE  FALSE
      OBVIOUS
  <2> DEFINE h == Head(stack'[Main])
             T == Tail(stack'[Main])
  <2>1. h \in Frame /\ T \in Seq(Frame) /\ stack'[Main] = Push(h, T) /\ h.at = "sf"
    <3>1. stack'[Main] # <<>> /\ stack'[Main] \in Seq(Frame) /\ Head(stack'[Main]).at \in {"sf"}
          BY <1>0 DEF TypeInv, TopIs, main
    <3> QED  BY <3>1, UnPush
  <2> HIDE DEF h, T
  <2>2. Has(Push(h, T), {"sf"})
        BY <2>1, HasPush
  <2> QED  BY <1>6, <2>1, <2>2
<1>8. \A l \in Listener : l > Current' => stack'[l] = <<>>
  <2>1. Nth = 1 /\ ~Idle
        BY FirstIs DEF First
  <2>2. Scripted
        BY DEF First, Within
  <2> QED  BY <1>2, <1>3, <2>1, <2>2 DEF Netcat
<1>9. Nth' = 1
      BY <1>1 DEF First
<1> QED  BY <1>3, <1>4, <1>7, <1>8, <1>9, SilentNetcat

------------------------------------------------------------------------------
(***************************************************************************)
(* Main is past the transfer.                                              *)
(***************************************************************************)

\* The places of sendFile and keyboardInterrupt that come after the listener.
After == {"sf", "sfExists", "sfCheck", "sfSum", "sfGiveUp", "kbSpace"}

\* While a listener is still at it.
LEMMA LoudIs ==
  ASSUME TypeInv, Stacks, Netcat, ~Silent, NEW a, First(a)
  PROVE  /\ ~terminateTargetStarted /\ ~Off(stack[Current])
         /\ ~Has(main, After) /\ a \notin After \cup {"sfRetry"}
         /\ a = "kbTry" => Top(Main).n = 0
         /\ Has(main, {"kbTry"}) => Lost(stack[Current]) /\ tty = "closed"
         /\ Has(main, {"kb"}) => ~Waits(stack[Current]) /\ ~TopIs(stack[Current], {"kb"})
         /\ \A l \in Listener : Lost(stack[l]) => tty = "closed" \/ (keyboardInterruptTriggered /\ ~Has(main, Held))
<1>1. Scripted /\ In(Main, a) /\ Main \in Thread /\ Top(Main) \in Frame
      BY Constants DEF First, Within
<1>2. ~terminateTargetStarted
      BY DEF Silent
<1>3. ~Off(stack[Current])
      BY <1>1, <1>2 DEF Silent, Clear, Netcat
<1>4. ~Has(main, After)
      BY <1>1 DEF Netcat, After
<1>5. a \notin After
      BY <1>1, <1>4, HereIs DEF main
<1>6. a # "sfRetry"
      BY <1>1 DEF Netcat, TopIs, main, In, Top
<1>7. a = "kbTry" => Top(Main).n = 0
  <2>1. Top(Main).n \in Nat
        BY <1>1 DEF Frame
  <2>2. a = "kbTry" => ~(Top(Main).n > 0)
        BY <1>1 DEF Netcat, TopIs, main, In, Top
  <2> QED  BY <2>1, <2>2
<1>8. Has(main, {"kbTry"}) => Lost(stack[Current]) /\ tty = "closed"
      BY <1>1, <1>2, <1>3 DEF Netcat
<1>9. Has(main, {"kb"}) => ~Waits(stack[Current]) /\ ~TopIs(stack[Current], {"kb"})
      BY <1>1, <1>2 DEF Netcat
<1>10. \A l \in Listener : Lost(stack[l]) => tty = "closed" \/ (keyboardInterruptTriggered /\ ~Has(main, Held))
      BY <1>1, <1>2 DEF Netcat
<1> QED  BY <1>2, <1>3, <1>4, <1>5, <1>6, <1>7, <1>8, <1>9, <1>10

\* Then the main thread only runs commands to interrupt, of a TTY that has ended.
LEMMA LoudCommand ==
  ASSUME TypeInv, Stacks, Netcat, ~Silent, NEW a \in CmdAt, First(a)
  PROVE  /\ a \in {"send", "expect"} /\ Top(Main).kind = "break" /\ Head(Below(Main)).at = "kbTry"
         /\ Has(Below(Main), {"kbTry"}) /\ Has(main, {"kbTry"})
         /\ Lost(stack[Current]) /\ tty = "closed" /\ Screen(Top(Main).proc) = "closed"
<1> DEFINE f == Top(Main)
           g == Head(Below(Main))
<1>1. /\ In(Main, a) /\ Main \in Thread /\ Below(Main) # <<>> /\ f \in Frame /\ f.at = a /\ Nth = 1
      /\ Below(Main) \in Seq(Frame) /\ Calls(Below(Main), Belongs(1)) /\ Scripted
      BY Constants DEF First, Within
<1>2. Cmd(f, {"plain", "exists", "break"})
      BY FirstIs DEF CmdAt, SfAt, KbAt
<1>3. /\ Link(f, g) /\ FrameOK(f) /\ g \in Frame
      /\ \A A : g.at \in A => Has(Below(Main), A)
      BY <1>1, UnderTop
<1>4. \A A : Has(main, A) <=> (a \in A \/ Has(Below(Main), A))
      BY <1>1, HereIs DEF main
<1>5. ~Has(main, After)
      BY LoudIs
<1>6. g.at \notin After
      BY <1>3, <1>4, <1>5
<1>7. g \in Belongs(1) \/ (g.at = "script" /\ g.n = 1)
  <2> DEFINE T == Tail(Below(Main))
  <2>1. Below(Main) = Push(g, T) /\ T \in Seq(Frame)
        BY <1>1, UnPush
  <2>2. Calls(Push(g, T), Belongs(1)) <=> (T = <<>> \/ (g \in Belongs(1) /\ Calls(T, Belongs(1))))
        BY <1>3, <2>1, CallsPush
  <2>3. Bot(Push(g, T)) = IF T = <<>> THEN g ELSE Bot(T)
        BY <1>3, <2>1, BotPush
  <2>4. Bot(main) = Bot(Below(Main))
        BY <1>1, HereIs DEF main
  <2>5. Bot(main).at = "script" /\ Bot(main).n = 1
        BY <1>1 DEF Nth, Scripted
  <2> QED  BY <1>1, <2>1, <2>2, <2>3, <2>4, <2>5
<1> HIDE DEF g, f
<1>8. g.at \in SfAt \cup KbAt \cup CmdAt \cup {"script"}
      BY <1>7 DEF Belongs, Cmd
<1>9. ~(g.at = "script" /\ g.n = 1 /\ Link(f, g))
  <2> SUFFICES ASSUME g.at = "script", g.n = 1, Link(f, g)
               PROVE  FALSE
      OBVIOUS
  <2>1. CalledAt(f, 1)
        BY DEF Link
  <2>2. Role(f) = "sf"
        BY <2>1 DEF CalledAt
  <2>3. Role(f) = "cmd"
        BY <1>2, RoleIs DEF Cmd
  <2> QED  BY <2>2, <2>3
<1>10. g.at # "script"
      BY <1>3, <1>7, <1>9 DEF Belongs, SfAt, KbAt, Cmd, CmdAt
<1>11. g.at = "kbTry" /\ f.kind = "break"
      BY <1>2, <1>3, <1>6, <1>8, <1>10 DEF Link, Cmd, SfAt, KbAt, CmdAt, After
<1>12. a # "timedOut"
      BY <1>1, <1>3, <1>11 DEF FrameOK, Long
<1>13. Has(Below(Main), {"kbTry"}) /\ Has(main, {"kbTry"})
      BY <1>3, <1>4, <1>11
<1>14. Lost(stack[Current]) /\ tty = "closed"
      BY <1>13, LoudIs
<1>15. Screen(f.proc) = "closed"
  <2>1. f.proc = "tty"
        BY FirstIs DEF f
  <2> QED  BY <1>14, <2>1 DEF Screen
<1> QED  BY <1>11, <1>12, <1>13, <1>14, <1>15 DEF f, g, CmdAt

\* While a listener may be running, main keeps out of its way.
LEMMA LoudKeeps ==
  ASSUME TypeInv, Stacks, Netcat, ~Silent, NEW a, First(a), Others(Main), Nth' = 1, ~Idle',
         resendAttempts' = resendAttempts, terminateTargetStarted' = terminateTargetStarted,
         ~TopIs(main', {"sf", "sfRetry"}), ~Has(main', After),
         TopIs(main', {"kbTry"}) => ~(Head(main').n > 0),
         Has(main', {"kbTry"}) => Lost(stack[Current]) /\ tty' = "closed",
         Has(main', {"kb"}) => ~Waits(stack[Current]) /\ ~TopIs(stack[Current], {"kb"}),
         \A l \in Listener : Lost(stack[l]) =>
             tty' = "closed" \/ (keyboardInterruptTriggered' /\ ~Has(main', Held))
  PROVE  Netcat'
<1>1. \A l \in Listener : stack'[l] = stack[l]
      BY Constants DEF Others, Thread
<1>2. Current' = Current /\ Current \in Listener
      BY CurrentIs DEF Current
<1>3. ~terminateTargetStarted /\ ~terminateTargetStarted'
      BY LoudIs
<1>4. \A l \in Listener : l # Current => Off(stack[l])
      BY <1>3 DEF Netcat, First, Within
<1>5. \A l \in Listener : l > Current => stack[l] = <<>>
      BY FirstIs DEF Netcat, First, Within
<1>6. ~TopIs(main', {"sf"}) /\ ~TopIs(main', {"sfRetry"})
      BY DEF TopIs
<1>7. ~Has(main', {"sf", "sfExists", "sfCheck", "sfSum", "sfGiveUp", "kbSpace"})
      BY DEF After
<1>8. stack'[Current'] = stack[Current]
      BY <1>1, <1>2
<1>n1. terminateTargetStarted' \/ \A l \in Listener : l # Current' => Off(stack'[l])
      BY <1>1, <1>2, <1>4
<1>n2. Nth' = 0 \/ (Nth' = 1 /\ ~Idle') => \A l \in Listener : l > Current' => stack'[l] = <<>>
      BY <1>1, <1>2, <1>5
<1>n3. ~(Nth' = 0 \/ (Nth' = 1 /\ TopIs(main', {"sf"}))) /\ ~(Nth' >= 2 \/ Idle')
      BY <1>6
<1>n4. ~(TopIs(main', {"kbTry"}) /\ Head(main').n > 0)
      OBVIOUS
<1>n5. Has(main', {"kbTry"}) => \/ terminateTargetStarted' \/ Off(stack'[Current'])
                                \/ Lost(stack'[Current']) /\ tty' = "closed"
      BY <1>8
<1>n6. Has(main', {"kb"}) => \/ terminateTargetStarted'
                             \/ ~Waits(stack'[Current']) /\ ~TopIs(stack'[Current'], {"kb"})
      BY <1>8
<1>n7. \A l \in Listener : Lost(stack'[l]) =>
             tty' = "closed" \/ (keyboardInterruptTriggered' /\ ~Has(main', Held))
      BY <1>1
<1> QED  BY <1>6, <1>7, <1>n1, <1>n2, <1>n3, <1>n4, <1>n5, <1>n6, <1>n7 DEF Netcat

------------------------------------------------------------------------------
(***************************************************************************)
(* The first call of the script: the only one with a listener.             *)
(***************************************************************************)

\* The steps of the first call of the script.
LEMMA FirstSteps ==
  ASSUME TypeInv, Step(Main), NEW a, First(a)
  PROVE  \/ Sends(Main) \/ Answers(Main) \/ TimesOut(Main) \/ Resolved(Main) \/ Eof(Main)
         \/ InterruptStarts(Main) \/ InterruptTries(Main) \/ InterruptEnds(Main)
         \/ SendFileStarts(Main) \/ SendFileJoins(Main) \/ SendFileExists(Main)
         \/ SendFileChecks(Main) \/ SendFileRetries(Main)
<1>1. a \in SfAt \cup KbAt \cup CmdAt /\ In(Main, a)
      BY FirstIs DEF First, Within
<1>2. ASSUME NEW b, In(Main, b)
      PROVE  b \in SfAt \cup KbAt \cup CmdAt
      BY <1>1, <1>2 DEF In
<1>3. ~TerminateSteps(Main)
  <2>1. TerminateSteps(Main) => \E b \in {"term", "tear", "exit"} : In(Main, b)
        BY DEF TerminateSteps
  <2> QED  BY <1>2, <2>1 DEF SfAt, KbAt, CmdAt
<1>4. ~ShutdownStarts(Main)
  <2>1. ShutdownStarts(Main) => \E b \in {"sd"} : In(Main, b)
        BY DEF ShutdownStarts
  <2> QED  BY <1>2, <2>1 DEF SfAt, KbAt, CmdAt
<1>5. ~ShutdownSwitchesUser(Main)
  <2>1. ShutdownSwitchesUser(Main) => \E b \in {"sdUser"} : In(Main, b)
        BY DEF ShutdownSwitchesUser
  <2> QED  BY <1>2, <2>1 DEF SfAt, KbAt, CmdAt
<1>6. ~TerminateTargetStarts(Main)
  <2>1. TerminateTargetStarts(Main) => \E b \in {"sdTerm"} : In(Main, b)
        BY DEF TerminateTargetStarts
  <2> QED  BY <1>2, <2>1 DEF SfAt, KbAt, CmdAt
<1>7. ~PowersOff(Main)
  <2>1. PowersOff(Main) => \E b \in {"sdPower", "sdDown"} : In(Main, b)
        BY DEF PowersOff
  <2> QED  BY <1>2, <2>1 DEF SfAt, KbAt, CmdAt
<1>8. ~Returns(Main)
  <2>1. Returns(Main) => \E b \in {"return"} : In(Main, b)
        BY DEF Returns
  <2> QED  BY <1>2, <2>1 DEF SfAt, KbAt, CmdAt
<1>9. ~TearDownStarts(Main)
  <2>1. TearDownStarts(Main) => \E b \in {"td"} : In(Main, b)
        BY DEF TearDownStarts
  <2> QED  BY <1>2, <2>1 DEF SfAt, KbAt, CmdAt
<1>10. ~TearDownKills(Main)
  <2>1. TearDownKills(Main) => \E b \in {"tdKill"} : In(Main, b)
        BY DEF TearDownKills
  <2> QED  BY <1>2, <2>1 DEF SfAt, KbAt, CmdAt
<1>11. ~SwitchUserStarts(Main)
  <2>1. SwitchUserStarts(Main) => \E b \in {"su"} : In(Main, b)
        BY DEF SwitchUserStarts
  <2> QED  BY <1>2, <2>1 DEF SfAt, KbAt, CmdAt
<1>12. ~SwitchUserLogsIn(Main)
  <2>1. SwitchUserLogsIn(Main) => \E b \in {"suName", "suPass"} : In(Main, b)
        BY DEF SwitchUserLogsIn
  <2> QED  BY <1>2, <2>1 DEF SfAt, KbAt, CmdAt
<1>13. ~SwitchUserOpens(Main)
  <2>1. SwitchUserOpens(Main) => \E b \in {"suOpen"} : In(Main, b)
        BY DEF SwitchUserOpens
  <2> QED  BY <1>2, <2>1 DEF SfAt, KbAt, CmdAt
<1>14. ~SwitchUserEnds(Main)
  <2>1. SwitchUserEnds(Main) => \E b \in {"suOpened"} : In(Main, b)
        BY DEF SwitchUserEnds
  <2> QED  BY <1>2, <2>1 DEF SfAt, KbAt, CmdAt
<1>15. ~OpenStarts(Main)
  <2>1. OpenStarts(Main) => \E b \in {"os"} : In(Main, b)
        BY DEF OpenStarts
  <2> QED  BY <1>2, <2>1 DEF SfAt, KbAt, CmdAt
<1>16. ~OpenSpawns(Main)
  <2>1. OpenSpawns(Main) => \E b \in {"osSpawn"} : In(Main, b)
        BY DEF OpenSpawns
  <2> QED  BY <1>2, <2>1 DEF SfAt, KbAt, CmdAt
<1>17. ~OpenLogsIn(Main)
  <2>1. OpenLogsIn(Main) => \E b \in {"osPass"} : In(Main, b)
        BY DEF OpenLogsIn
  <2> QED  BY <1>2, <2>1 DEF SfAt, KbAt, CmdAt
<1>18. ~OpenEnds(Main)
  <2>1. OpenEnds(Main) => \E b \in {"osIn"} : In(Main, b)
        BY DEF OpenEnds
  <2> QED  BY <1>2, <2>1 DEF SfAt, KbAt, CmdAt
<1>19. ~CloseStarts(Main)
  <2>1. CloseStarts(Main) => \E b \in {"cs"} : In(Main, b)
        BY DEF CloseStarts
  <2> QED  BY <1>2, <2>1 DEF SfAt, KbAt, CmdAt
<1>20. ~Closes(Main)
  <2>1. Closes(Main) => \E b \in {"csKill"} : In(Main, b)
        BY DEF Closes
  <2> QED  BY <1>2, <2>1 DEF SfAt, KbAt, CmdAt
<1>21. ~EnableRootSteps(Main)
  <2>1. EnableRootSteps(Main) => \E b \in {"er", "erEcho", "erService", "erDone"} : In(Main, b)
        BY DEF EnableRootSteps
  <2> QED  BY <1>2, <2>1 DEF SfAt, KbAt, CmdAt
<1>22. ~ScriptGoes
  <2>1. ScriptGoes => In(Main, "script")
        BY DEF ScriptGoes
  <2> QED  BY <1>2, <2>1 DEF SfAt, KbAt, CmdAt
<1> QED  BY <1>3, <1>4, <1>5, <1>6, <1>7, <1>8, <1>9, <1>10, <1>11, <1>12, <1>13, <1>14, <1>15,
            <1>16, <1>17, <1>18, <1>19, <1>20, <1>21, <1>22 DEF Step

\* Every step of the first call keeps Netcat.
LEMMA NetcatFirst ==
  ASSUME TypeInv, Stacks, TypeInv', Interrupted, Netcat, Ready(Main), Step(Main), NEW a,
         First(a)
  PROVE  Netcat'
<1> SUFFICES ASSUME Scripted'
             PROVE  Netcat'
    BY DEF Netcat
<1>0. Main \in Thread /\ In(Main, a) /\ Below(Main) # <<>> /\ a # "script" /\ Scripted
      BY FirstIs, Constants DEF First, Within, SfAt, KbAt, CmdAt
<1>g. Grown
      BY <1>0, GrownStep
<1>h. HoldsPlace
  <2>1. ~ScriptGoes
        BY <1>0 DEF ScriptGoes, In
  <2> QED  BY <2>1, MainHolds DEF Ready
<1>n. ~Lost(stack'[Main]) /\ Nth' = 1 /\ ~Ended(Main)
      BY <1>h DEF HoldsPlace, Lost, Scripted, main, EndAt, First, Ended
<1>k. \A A : Has(main, A) <=> (a \in A \/ Has(Below(Main), A))
      BY <1>0, HereIs DEF main
<1>s. ASSUME Silent, a # "sf", NEW P, Stays(Main, P), "sf" \notin P,
             resendAttempts' = resendAttempts
      PROVE  Netcat'
      BY <1>g, <1>h, <1>s, FirstSilent
<1>l. ASSUME ~Silent
      PROVE  /\ ~terminateTargetStarted /\ ~Off(stack[Current])
             /\ ~Has(main, After) /\ a \notin After \cup {"sfRetry"} /\ ~Has(Below(Main), After)
             /\ \A l \in Listener : Lost(stack[l]) => tty = "closed" \/ (keyboardInterruptTriggered /\ ~Has(main, Held))
      BY <1>k, <1>l, LoudIs
<1>1. CASE Sends(Main)
  <2>a. a = "send"
        BY <1>0, <1>1 DEF Sends, In
  <2>s. CASE Silent
    <3>1. Stays(Main, {"send", "expect"})
          BY <1>0, <1>1, SendsStays
    <3>2. resendAttempts' = resendAttempts
          BY <1>1 DEF Sends, attempts, rest
    <3> QED  BY <1>s, <2>a, <2>s, <3>1, <3>2
  <2>l. CASE ~Silent
    <3>1. Went(Main, "expect")
          BY <1>0, <1>n, <1>1, SendsMoves
    <3>2. OneOn(main', Moving(Main, "expect"), Below(Main)) /\ Moving(Main, "expect").at = "expect"
      <4>1. "expect" \in At
            BY DEF At
      <4> QED  BY <1>0, <3>1, <4>1, WentIs DEF main
    <3>3. /\ Head(main').at = "expect" /\ \A A : Has(main', A) <=> ("expect" \in A \/ Has(Below(Main), A))
          BY <3>2 DEF OneOn
    <3>4. tty = "closed" /\ Lost(stack[Current])
          BY <1>0, <2>a, <2>l, LoudCommand DEF CmdAt
    <3>5. tty' = tty /\ terminateTargetStarted' = terminateTargetStarted /\ resendAttempts' = resendAttempts
          BY <1>1 DEF Sends, attempts, ending
    <3>6. ~Has(main', After)
          BY <1>l, <2>l, <3>3 DEF After
    <3>7. Has(main', {"kb"}) => ~Waits(stack[Current]) /\ ~TopIs(stack[Current], {"kb"})
      <4>1. Has(main', {"kb"}) => Has(main, {"kb"})
            BY <1>k, <3>3
      <4> QED  BY <2>l, <4>1, LoudIs
    <3>8. ~TopIs(main', {"sf", "sfRetry"}) /\ ~TopIs(main', {"kbTry"})
          BY <3>3 DEF TopIs
    <3>9. ~Idle'
          BY <3>2, <3>3 DEF Idle, TopIs
    <3>10. Others(Main)
          BY <3>1 DEF Went
    <3> QED  BY <1>n, <2>l, <3>4, <3>5, <3>6, <3>7, <3>8, <3>9, <3>10, LoudKeeps
  <2> QED  BY <2>s, <2>l
<1>2. CASE Answers(Main)
  <2>a. a = "expect"
        BY <1>0, <1>2 DEF Answers, In
  <2>s. CASE Silent
    <3>1. Stays(Main, {"expect"})
          BY <1>0, <1>2, AnswersStays
    <3>2. resendAttempts' = resendAttempts
          BY <1>2 DEF Answers, attempts, rest
    <3> QED  BY <1>s, <2>a, <2>s, <3>1, <3>2
  <2>l. CASE ~Silent
    <3>1. Screen(Top(Main).proc) # "closed"
          BY <1>0, <1>2, AnswersMoves
    <3> QED  BY <2>a, <2>l, <3>1, LoudCommand DEF CmdAt
  <2> QED  BY <2>s, <2>l
<1>3. CASE TimesOut(Main)
  <2>a. a = "expect"
        BY <1>0, <1>3 DEF TimesOut, In
  <2>s. CASE Silent
    <3>1. Stays(Main, {"expect", "timedOut", "kb"})
          BY <1>0, <1>3, TimesOutStays
    <3>2. resendAttempts' = resendAttempts
          BY <1>3 DEF TimesOut, attempts, rest
    <3> QED  BY <1>s, <2>a, <2>s, <3>1, <3>2
  <2>l. CASE ~Silent
    <3>1. Screen(Top(Main).proc) # "closed"
          BY <1>0, <1>3, TimesOutMoves
    <3> QED  BY <2>a, <2>l, <3>1, LoudCommand DEF CmdAt
  <2> QED  BY <2>s, <2>l
<1>4. CASE Resolved(Main)
  <2>a. a = "timedOut"
        BY <1>0, <1>4 DEF Resolved, In
  <2>s. CASE Silent
    <3>1. Stays(Main, {"timedOut"})
          BY <1>0, <1>4, ResolvedStays
    <3>2. resendAttempts' = resendAttempts
          BY <1>4 DEF Resolved, attempts, rest
    <3> QED  BY <1>s, <2>a, <2>s, <3>1, <3>2
  <2>l. CASE ~Silent
    <3> QED  BY <2>a, <2>l, LoudCommand DEF CmdAt
  <2> QED  BY <2>s, <2>l
<1>5. CASE Eof(Main)
  <2>a. a = "expect"
        BY <1>0, <1>5 DEF Eof, In
  <2>s. CASE Silent
    <3>1. Stays(Main, {"expect"})
          BY <1>0, <1>5, EofStays
    <3>2. resendAttempts' = resendAttempts
          BY <1>5 DEF Eof, attempts, rest
    <3> QED  BY <1>s, <2>a, <2>s, <3>1, <3>2
  <2>l. CASE ~Silent
    <3>1. Top(Main).kind = "break"
          BY <2>a, <2>l, LoudCommand DEF CmdAt
    <3> QED  BY <1>0, <1>n, <1>5, <3>1, EofMoves
  <2> QED  BY <2>s, <2>l
<1>6. CASE InterruptStarts(Main)
  <2>a. a = "kb"
        BY <1>0, <1>6 DEF InterruptStarts, In
  <2>s. CASE Silent
    <3>1. Stays(Main, {"kb", "kbTry"})
          BY <1>0, <1>6, InterruptStartsStays
    <3>2. resendAttempts' = resendAttempts
          BY <1>6 DEF InterruptStarts, attempts, rest
    <3> QED  BY <1>s, <2>a, <2>s, <3>1, <3>2
  <2>l. CASE ~Silent
    <3>1. ~keyboardInterruptTriggered /\ keyboardInterruptTriggered' /\ Went(Main, "kbTry")
          BY <1>0, <1>l, <1>n, <1>6, <2>l, InterruptStartsMoves
    <3>2. /\ OneOn(main', Moving(Main, "kbTry"), Below(Main)) /\ Moving(Main, "kbTry").at = "kbTry"
          /\ Moving(Main, "kbTry").n = Top(Main).n
      <4>1. "kbTry" \in At
            BY DEF At
      <4> QED  BY <1>0, <3>1, <4>1, WentIs DEF main
    <3>3. /\ Head(main') = Moving(Main, "kbTry") /\ \A A : Has(main', A) <=> ("kbTry" \in A \/ Has(Below(Main), A))
          BY <3>2 DEF OneOn
    <3>4. Top(Main).n = 0
      <4>1. FrameOK(Top(Main)) /\ Top(Main).at = "kb"
            BY <1>0, <2>a, TopIs_OK DEF In
      <4> QED  BY <4>1 DEF FrameOK
    <3>5. tty' = tty /\ terminateTargetStarted' = terminateTargetStarted /\ resendAttempts' = resendAttempts
          BY <1>6 DEF InterruptStarts, attempts, ending
    <3>6. ~Has(main', After)
          BY <1>l, <2>l, <3>3 DEF After
    <3>7. ~Has(Below(Main), {"kb"})
      <4>1. "kb" \in Low /\ {"kb"} \subseteq Low
            BY DEF Low, KbAt
      <4> QED  BY <1>0, <2>a, <4>1, UnderIs
    <3>8. ~TopIs(main', {"sf", "sfRetry"}) /\ ~(Head(main').n > 0) /\ ~Has(main', {"kb"})
          BY <3>2, <3>3, <3>4, <3>7 DEF TopIs
    <3>9. ~Idle'
          BY <3>2, <3>3 DEF Idle, TopIs
    <3>10. Others(Main)
          BY <3>1 DEF Went
    <3>11. \A l \in Listener : Lost(stack[l]) => tty' = "closed"
          BY <1>l, <2>l, <3>1, <3>5
    <3>12. Lost(stack[Current])
      <4> SUFFICES ASSUME ~Lost(stack[Current])
                   PROVE  FALSE
          OBVIOUS
      <4>1. Current \in Listener /\ Current \in Thread
            BY CurrentIs
      <4>2. stack[Current] # <<>>
            BY <1>l, <2>l DEF Off
      <4>3. Has(main, {"kb"})
            BY <1>k, <2>a
      <4>4. ~Waits(stack[Current]) /\ ~TopIs(stack[Current], {"kb"})
            BY <2>l, <4>3, LoudIs
      <4>5. ~(Below(Current) = <<>> /\ Head(stack[Current]).at \in CmdAt /\ Len(stack[Current]) = 1)
            BY <1>l, <2>l, <4>4 DEF Off, Waits, CmdAt
      <4>6. Head(stack[Current]).at \in KbAt \/ Has(Below(Current), Held)
            BY <4>1, <4>2, <4>5, ListenerDeep
      <4>7. In(Current, Head(stack[Current]).at)
            BY <4>2 DEF In, Top
      <4>8. \A A : Has(stack[Current], A) <=> (Head(stack[Current]).at \in A \/ Has(Below(Current), A))
            BY <4>1, <4>7, HereIs
      <4>9. Head(stack[Current]).at # "kb"
            BY <4>2, <4>4 DEF TopIs
      <4>10. Has(stack[Current], Held)
            BY <4>6, <4>8, <4>9 DEF Held, KbAt
      <4> QED  BY <3>1, <4>1, <4>10 DEF Interrupted
    <3>13. tty' = "closed"
          BY <3>11, <3>12, CurrentIs
    <3> QED  BY <1>n, <2>l, <3>5, <3>6, <3>8, <3>9, <3>10, <3>12, <3>13, LoudKeeps
  <2> QED  BY <2>s, <2>l
<1>7. CASE InterruptTries(Main)
  <2>a. a = "kbTry"
        BY <1>0, <1>7 DEF InterruptTries, In
  <2>s. CASE Silent
    <3>1. Stays(Main, {"kbTry", "send", "kbSpace"})
          BY <1>0, <1>7, InterruptTriesStays
    <3>2. resendAttempts' = resendAttempts
          BY <1>7 DEF InterruptTries, attempts, rest
    <3> QED  BY <1>s, <2>a, <2>s, <3>1, <3>2
  <2>l. CASE ~Silent
    <3>1. Top(Main).n = 0
          BY <2>a, <2>l, LoudIs
    <3>2. TriesAgain(Main)
          BY <1>0, <1>7, <3>1, InterruptTriesMoves
    <3>3. PICK f, g \in Frame : TwoOn(main', f, g, Below(Main)) /\ f.at = "send" /\ g.at = "kbTry"
          BY <1>0, <2>a, <3>2, TriesStays DEF main
    <3>4. Head(main').at = "send" /\ \A A : Has(main', A) <=> ("send" \in A \/ "kbTry" \in A \/ Has(Below(Main), A))
          BY <3>3 DEF TwoOn
    <3>5. tty' = tty /\ terminateTargetStarted' = terminateTargetStarted /\ resendAttempts' = resendAttempts
          BY <1>7 DEF InterruptTries, attempts, ending
    <3>6. Lost(stack[Current]) /\ tty = "closed"
      <4>1. Has(main, {"kbTry"})
            BY <1>k, <2>a
      <4> QED  BY <2>l, <4>1, LoudIs
    <3>7. ~Has(main', After)
          BY <1>l, <2>l, <3>4 DEF After
    <3>8. Has(main', {"kb"}) => ~Waits(stack[Current]) /\ ~TopIs(stack[Current], {"kb"})
      <4>1. Has(main', {"kb"}) => Has(main, {"kb"})
            BY <1>k, <3>4
      <4> QED  BY <2>l, <4>1, LoudIs
    <3>9. ~TopIs(main', {"sf", "sfRetry"}) /\ ~TopIs(main', {"kbTry"})
          BY <3>4 DEF TopIs
    <3>10. ~Idle'
          BY <3>4 DEF Idle, TopIs
    <3>11. Others(Main)
          BY <3>2 DEF TriesAgain
    <3> QED  BY <1>n, <2>l, <3>5, <3>6, <3>7, <3>8, <3>9, <3>10, <3>11, LoudKeeps
  <2> QED  BY <2>s, <2>l
<1>8. CASE InterruptEnds(Main)
  <2>a. a = "kbSpace"
        BY <1>0, <1>8 DEF InterruptEnds, In
  <2>s. CASE Silent
    <3>1. Stays(Main, {"kbSpace"})
          BY <1>0, <1>8, InterruptEndsStays
    <3>2. resendAttempts' = resendAttempts
          BY <1>8 DEF InterruptEnds, attempts, rest
    <3> QED  BY <1>s, <2>a, <2>s, <3>1, <3>2
  <2>l. CASE ~Silent
    <3> QED  BY <1>l, <2>a, <2>l DEF After
  <2> QED  BY <2>s, <2>l
<1>9. CASE SendFileStarts(Main)
  <2>1. In(Main, "sf") /\ Listening(Main) /\ a = "sf"
        BY <1>0, <1>9, SendFileStartsMoves, FirstIs DEF In
  <2> DEFINE c == Current
  <2>2. c \in Listener /\ stack'[c] = <<Try("nc")>> /\ \A l \in Listener : l # c => stack'[l] = stack[l]
        BY <2>1, CurrentIs, Constants DEF Listening, Current, Thread
  <2>3. stack'[Main] = Push(Moving(Main, "sfJoin"), Below(Main))
        BY <2>1 DEF Listening, Moving
  <2>4. OneOn(main', Moving(Main, "sfJoin"), Below(Main)) /\ Moving(Main, "sfJoin").at = "sfJoin"
    <3>1. Top(Main) \in Frame /\ Below(Main) \in Seq(Frame) /\ "sfJoin" \in At
          BY <1>0, HereIs DEF At
    <3>2. Moving(Main, "sfJoin") \in Frame /\ Moving(Main, "sfJoin").at = "sfJoin"
          BY <3>1, Moved DEF Moving
    <3> QED  BY <2>3, <3>1, <3>2, OneIs DEF main
  <2>5. Head(main').at = "sfJoin" /\ \A A : Has(main', A) <=> ("sfJoin" \in A \/ Has(Below(Main), A))
        BY <2>4 DEF OneOn
  <2>6. \A A : A \subseteq Low4 => ~Has(Below(Main), A)
    <3>1. "sf" \in SuAt \cup SfAt
          BY DEF SfAt
    <3> QED  BY <1>0, <2>1, <3>1, UnderIs
  <2>7. /\ After \subseteq Low4 /\ {"kbTry"} \subseteq Low4 /\ {"kb"} \subseteq Low4 /\ Held \subseteq Low4
        BY DEF After, Held, Low4, Low3, Low, KbAt, SfAt
  <2>8. ~Has(main', After) /\ ~Has(main', {"kbTry"}) /\ ~Has(main', {"kb"}) /\ ~Has(main', Held) /\ ~Has(main, Held)
        BY <1>k, <2>1, <2>5, <2>6, <2>7 DEF After, Held
  <2>9. ~TopIs(main', {"sf"}) /\ ~TopIs(main', {"sfRetry"}) /\ ~TopIs(main', {"kbTry"}) /\ ~Idle'
        BY <2>5 DEF TopIs, Idle
  <2>10. /\ resendAttempts' = resendAttempts /\ terminateTargetStarted' = terminateTargetStarted /\ tty' = tty
         /\ keyboardInterruptTriggered' = keyboardInterruptTriggered
        BY <1>9 DEF SendFileStarts, rest, ending
  <2>11. Current' = c
        BY <2>10 DEF Current
  <2>12. ~Lost(stack'[c])
    <3> DEFINE f == Try("nc")
    <3>1. f \in Frame /\ f.at = "send" /\ <<>> \in Seq(Frame)
          BY CommandIs DEF Kind
    <3>2. stack'[c] = Push(f, <<>>)
          BY <2>2 DEF Push
    <3> HIDE DEF f
    <3>3. Bot(Push(f, <<>>)) = f
          BY <3>1, BotPush
    <3> QED  BY <3>1, <3>2, <3>3 DEF Lost, EndAt
  <2> HIDE DEF c
  <2>n1. terminateTargetStarted' \/ \A l \in Listener : l # Current' => Off(stack'[l])
        BY <1>0, <2>2, <2>10, <2>11 DEF Netcat, c
  <2>n2. \A l \in Listener : l > Current' => stack'[l] = <<>>
    <3>1. \A l \in Listener : l > c => stack[l] = <<>>
          BY <1>0, FirstIs DEF Netcat, First, c
    <3>2. \A l \in Listener : l > c => l # c
          BY <2>2 DEF Listener
    <3> QED  BY <2>2, <2>11, <3>1, <3>2
  <2>n10. ~terminateTargetStarted' => \A l \in Listener : Lost(stack'[l]) =>
             tty' = "closed" \/ (keyboardInterruptTriggered' /\ ~Has(main', Held))
    <3>1. ~terminateTargetStarted => \A l \in Listener : Lost(stack[l]) =>
             tty = "closed" \/ (keyboardInterruptTriggered /\ ~Has(main, Held))
          BY <1>0 DEF Netcat
    <3> QED  BY <2>2, <2>8, <2>10, <2>12, <3>1
  <2>n0. ~(Nth' = 0) /\ ~(Nth' >= 2)
        BY <1>n
  <2> QED  BY <2>8, <2>9, <2>n0, <2>n1, <2>n2, <2>n10 DEF Netcat, After
<1>10. CASE SendFileJoins(Main)
  <2>a. a = "sfJoin"
        BY <1>0, <1>10 DEF SendFileJoins, In
  <2>s. CASE Silent
    <3>1. Stays(Main, {"sfJoin", "sfExists", "send", "sfRetry", "kb"})
          BY <1>0, <1>10, SendFileJoinsStays
    <3>2. resendAttempts' = resendAttempts
          BY <1>10 DEF SendFileJoins, attempts, rest
    <3> QED  BY <1>s, <2>a, <2>s, <3>1, <3>2
  <2>l. CASE ~Silent
    <3>1. stack[Current] # <<>>
          BY <1>l, <2>l DEF Off
    <3>2. Called(Main, Interrupt(SelfProcess), "sfRetry") /\ ~InCommand(Current)
          BY <1>0, <1>10, <3>1, SendFileJoinsMoves, FirstIs DEF BacksOff, Current
    <3> DEFINE f == Interrupt(SelfProcess)
               g == Moving(Main, "sfRetry")
    <3>3. f \in Frame /\ f.at = "kb"
          BY <1>0, KbIs DEF In
    <3>4. TwoOn(main', f, g, Below(Main)) /\ g.at = "sfRetry"
      <4>1. "sfRetry" \in At
            BY DEF At
      <4> QED  BY <1>0, <3>2, <3>3, <4>1, CalledIs DEF main
    <3> HIDE DEF f, g
    <3>5. Head(main').at = "kb" /\ \A A : Has(main', A) <=> ("kb" \in A \/ "sfRetry" \in A \/ Has(Below(Main), A))
          BY <3>3, <3>4 DEF TwoOn
    <3>6. tty' = tty /\ terminateTargetStarted' = terminateTargetStarted /\ resendAttempts' = resendAttempts
          /\ keyboardInterruptTriggered' = keyboardInterruptTriggered
          BY <1>10 DEF SendFileJoins, rest, ending
    <3>7. ~Has(main', After)
          BY <1>l, <2>l, <3>5 DEF After
    <3>8. ~Waits(stack[Current]) /\ ~TopIs(stack[Current], {"kb"})
          BY <3>2 DEF InCommand, Waits, TopIs, In, Top
    <3>9. ~TopIs(main', {"sf", "sfRetry"}) /\ ~TopIs(main', {"kbTry"})
          BY <3>5 DEF TopIs
    <3>10. Has(main', {"kbTry"}) => Lost(stack[Current]) /\ tty' = "closed"
      <4>1. Has(main', {"kbTry"}) => Has(main, {"kbTry"})
            BY <1>k, <3>5
      <4> QED  BY <2>l, <3>6, <4>1, LoudIs
    <3>11. ~Idle'
          BY <3>5 DEF Idle, TopIs
    <3>12. \A l \in Listener : Lost(stack[l]) => tty' = "closed" \/ (keyboardInterruptTriggered' /\ ~Has(main', Held))
      <4>1. Has(main', Held) => Has(main, Held)
            BY <1>k, <3>5 DEF Held
      <4> QED  BY <1>l, <2>l, <3>6, <4>1
    <3>13. Others(Main)
          BY <3>2 DEF Called
    <3> QED  BY <1>n, <2>l, <3>6, <3>7, <3>8, <3>9, <3>10, <3>11, <3>12, <3>13, LoudKeeps
  <2> QED  BY <2>s, <2>l
<1>11. CASE SendFileExists(Main)
  <2>a. a = "sfExists"
        BY <1>0, <1>11 DEF SendFileExists, In
  <2>s. CASE Silent
    <3>1. Stays(Main, {"sfExists", "sfCheck", "sfRetry", "kb"})
          BY <1>0, <1>11, SendFileExistsStays
    <3>2. resendAttempts' = resendAttempts
          BY <1>11 DEF SendFileExists, attempts, rest
    <3> QED  BY <1>s, <2>a, <2>s, <3>1, <3>2
  <2>l. CASE ~Silent
    <3> QED  BY <1>l, <2>a, <2>l DEF After
  <2> QED  BY <2>s, <2>l
<1>12. CASE SendFileChecks(Main)
  <2>1. a \in {"sfCheck", "sfSum", "sfGiveUp"}
        BY <1>0, <1>12 DEF SendFileChecks, In
  <2>2. Silent
        BY <1>l, <2>1 DEF After
  <2>3. CASE resendAttempts' = resendAttempts
    <3>1. Stays(Main, {"sfCheck", "sfSum", "send", "sfGiveUp", "kb", "sfRetry"})
          BY <1>0, <1>12, SendFileChecksStays
    <3> QED  BY <1>s, <2>1, <2>2, <2>3, <3>1
  <2>4. CASE resendAttempts' = 0 /\ In(Main, "sfSum") /\ Returned(Main, "ok")
    <3>1. Head(Below(Main)).at = "script"
      <4> DEFINE f == Top(Main)
                 g == Head(Below(Main))
      <4>1. Link(f, g) /\ f.at = "sfSum"
            BY <1>0, <2>4, UnderTop DEF In
      <4> HIDE DEF f, g
      <4>2. Role(f) = "sf" /\ ~Cmd(f, {"plain"})
            BY <4>1, RoleIs DEF SfAt, Cmd, CmdAt
      <4>3. g.at = "script"
            BY <4>1, <4>2 DEF Link, Cmd, CmdAt, KbAt, TdAt, CsAt, OsAt, ErAt
      <4> QED  BY <4>3 DEF g
    <3>2. stack'[Main] = Below(Main) /\ Others(Main)
          BY <2>4 DEF Returned
    <3>3. Idle' /\ ~TopIs(main', {"sf"})
          BY <1>0, <3>1, <3>2 DEF Idle, TopIs, main
    <3>4. \A l \in Listener : stack'[l] = stack[l]
          BY <3>2, Constants DEF Others, Thread
    <3>5. Silent'
          BY <1>g, <2>2, <3>4 DEF Silent, Clear, Grown
    <3>6. Current' \in Listener
          BY <2>4, Constants DEF Current, Listener
    <3> QED  BY <1>n, <3>3, <3>5, <3>6, SilentNetcat
  <2> QED  BY <1>0, <1>12, <2>3, <2>4, SendFileChecksMoves
<1>13. CASE SendFileRetries(Main)
  <2>1. /\ In(Main, "sfRetry") /\ resendAttempts < LimitResend - 1 /\ resendAttempts' = resendAttempts + 1
        /\ Went(Main, "sf") /\ a = "sfRetry"
        BY <1>0, <1>n, <1>13, SendFileRetriesMoves DEF In
  <2>2. Silent
        BY <1>l, <2>1
  <2>3. \A l \in Listener : stack'[l] = stack[l]
        BY <2>1, Constants DEF Went, Others, Thread
  <2>4. Silent'
        BY <1>g, <2>2, <2>3 DEF Silent, Clear, Grown
  <2>5. Current' = Current + 1 /\ Current' \in Listener /\ Current \in Nat
    <3>1. resendAttempts \in Nat /\ resendAttempts + 1 < LimitResend
          BY <2>1, Constants DEF TypeInv
    <3> QED  BY <2>1, <3>1, Constants DEF Current, Listener
  <2>6. \A l \in Listener : l > Current => stack[l] = <<>>
        BY <1>0, FirstIs DEF Netcat, First
  <2>7. \A l \in Listener : l >= Current' => stack'[l] = <<>>
    <3> SUFFICES ASSUME NEW l \in Listener, l >= Current'
                 PROVE  stack'[l] = <<>>
        OBVIOUS
    <3>1. l > Current
          BY <2>5 DEF Listener
    <3> QED  BY <2>3, <2>6, <3>1
  <2>8. (\A l \in Listener : l > Current' => stack'[l] = <<>>) /\ stack'[Current'] = <<>>
        BY <2>5, <2>7 DEF Listener
  <2> QED  BY <2>4, <2>5, <2>8, SilentNetcat
<1> QED  BY FirstSteps, <1>1, <1>2, <1>3, <1>4, <1>5, <1>6, <1>7, <1>8, <1>9, <1>10, <1>11,
            <1>12, <1>13

------------------------------------------------------------------------------
(***************************************************************************)
(* Every step of main keeps Netcat.                                        *)
(***************************************************************************)

\* Where each step finds its thread.
At_OK(t) ==
    /\ Sends(t) => \E b \in {"send"} : In(t, b)
    /\ Answers(t) => \E b \in {"expect"} : In(t, b)
    /\ TimesOut(t) => \E b \in {"expect"} : In(t, b)
    /\ Resolved(t) => \E b \in {"timedOut"} : In(t, b)
    /\ Eof(t) => \E b \in {"expect"} : In(t, b)
    /\ InterruptStarts(t) => \E b \in {"kb"} : In(t, b)
    /\ InterruptTries(t) => \E b \in {"kbTry"} : In(t, b)
    /\ InterruptEnds(t) => \E b \in {"kbSpace"} : In(t, b)
    /\ TerminateSteps(t) => \E b \in {"term", "tear", "exit"} : In(t, b)
    /\ ShutdownStarts(t) => \E b \in {"sd"} : In(t, b)
    /\ ShutdownSwitchesUser(t) => \E b \in {"sdUser"} : In(t, b)
    /\ TerminateTargetStarts(t) => \E b \in {"sdTerm"} : In(t, b)
    /\ PowersOff(t) => \E b \in {"sdPower", "sdDown"} : In(t, b)
    /\ Returns(t) => \E b \in {"return"} : In(t, b)
    /\ TearDownStarts(t) => \E b \in {"td"} : In(t, b)
    /\ TearDownKills(t) => \E b \in {"tdKill"} : In(t, b)
    /\ SwitchUserStarts(t) => \E b \in {"su"} : In(t, b)
    /\ SwitchUserLogsIn(t) => \E b \in {"suName", "suPass"} : In(t, b)
    /\ SwitchUserOpens(t) => \E b \in {"suOpen"} : In(t, b)
    /\ SwitchUserEnds(t) => \E b \in {"suOpened"} : In(t, b)
    /\ OpenStarts(t) => \E b \in {"os"} : In(t, b)
    /\ OpenSpawns(t) => \E b \in {"osSpawn"} : In(t, b)
    /\ OpenLogsIn(t) => \E b \in {"osPass"} : In(t, b)
    /\ OpenEnds(t) => \E b \in {"osIn"} : In(t, b)
    /\ CloseStarts(t) => \E b \in {"cs"} : In(t, b)
    /\ Closes(t) => \E b \in {"csKill"} : In(t, b)
    /\ EnableRootSteps(t) => \E b \in {"er", "erEcho", "erService", "erDone"} : In(t, b)
    /\ SendFileJoins(t) => \E b \in {"sfJoin"} : In(t, b)
    /\ SendFileExists(t) => \E b \in {"sfExists"} : In(t, b)
    /\ SendFileChecks(t) => \E b \in {"sfCheck", "sfSum", "sfGiveUp"} : In(t, b)
    /\ SendFileRetries(t) => \E b \in {"sfRetry"} : In(t, b)
    /\ SendFileStarts(t) => \E b \in {"sf"} : In(t, b)

\* Where each action begins.
LEMMA ActsAt ==
  ASSUME NEW t
  PROVE  At_OK(t)
<1>1. Sends(t) => \E b \in {"send"} : In(t, b)
      BY DEF Sends
<1>2. Answers(t) => \E b \in {"expect"} : In(t, b)
      BY DEF Answers
<1>3. TimesOut(t) => \E b \in {"expect"} : In(t, b)
      BY DEF TimesOut
<1>4. Resolved(t) => \E b \in {"timedOut"} : In(t, b)
      BY DEF Resolved
<1>5. Eof(t) => \E b \in {"expect"} : In(t, b)
      BY DEF Eof
<1>6. InterruptStarts(t) => \E b \in {"kb"} : In(t, b)
      BY DEF InterruptStarts
<1>7. InterruptTries(t) => \E b \in {"kbTry"} : In(t, b)
      BY DEF InterruptTries
<1>8. InterruptEnds(t) => \E b \in {"kbSpace"} : In(t, b)
      BY DEF InterruptEnds
<1>9. TerminateSteps(t) => \E b \in {"term", "tear", "exit"} : In(t, b)
      BY DEF TerminateSteps
<1>10. ShutdownStarts(t) => \E b \in {"sd"} : In(t, b)
      BY DEF ShutdownStarts
<1>11. ShutdownSwitchesUser(t) => \E b \in {"sdUser"} : In(t, b)
      BY DEF ShutdownSwitchesUser
<1>12. TerminateTargetStarts(t) => \E b \in {"sdTerm"} : In(t, b)
      BY DEF TerminateTargetStarts
<1>13. PowersOff(t) => \E b \in {"sdPower", "sdDown"} : In(t, b)
      BY DEF PowersOff
<1>14. Returns(t) => \E b \in {"return"} : In(t, b)
      BY DEF Returns
<1>15. TearDownStarts(t) => \E b \in {"td"} : In(t, b)
      BY DEF TearDownStarts
<1>16. TearDownKills(t) => \E b \in {"tdKill"} : In(t, b)
      BY DEF TearDownKills
<1>17. SwitchUserStarts(t) => \E b \in {"su"} : In(t, b)
      BY DEF SwitchUserStarts
<1>18. SwitchUserLogsIn(t) => \E b \in {"suName", "suPass"} : In(t, b)
      BY DEF SwitchUserLogsIn
<1>19. SwitchUserOpens(t) => \E b \in {"suOpen"} : In(t, b)
      BY DEF SwitchUserOpens
<1>20. SwitchUserEnds(t) => \E b \in {"suOpened"} : In(t, b)
      BY DEF SwitchUserEnds
<1>21. OpenStarts(t) => \E b \in {"os"} : In(t, b)
      BY DEF OpenStarts
<1>22. OpenSpawns(t) => \E b \in {"osSpawn"} : In(t, b)
      BY DEF OpenSpawns
<1>23. OpenLogsIn(t) => \E b \in {"osPass"} : In(t, b)
      BY DEF OpenLogsIn
<1>24. OpenEnds(t) => \E b \in {"osIn"} : In(t, b)
      BY DEF OpenEnds
<1>25. CloseStarts(t) => \E b \in {"cs"} : In(t, b)
      BY DEF CloseStarts
<1>26. Closes(t) => \E b \in {"csKill"} : In(t, b)
      BY DEF Closes
<1>27. EnableRootSteps(t) => \E b \in {"er", "erEcho", "erService", "erDone"} : In(t, b)
      BY DEF EnableRootSteps
<1>28. SendFileJoins(t) => \E b \in {"sfJoin"} : In(t, b)
      BY DEF SendFileJoins
<1>29. SendFileExists(t) => \E b \in {"sfExists"} : In(t, b)
      BY DEF SendFileExists
<1>30. SendFileChecks(t) => \E b \in {"sfCheck", "sfSum", "sfGiveUp"} : In(t, b)
      BY DEF SendFileChecks
<1>31. SendFileRetries(t) => \E b \in {"sfRetry"} : In(t, b)
      BY DEF SendFileRetries
<1>32. SendFileStarts(t) => \E b \in {"sf"} : In(t, b)
      BY DEF SendFileStarts
<1> QED  BY <1>1, <1>2, <1>3, <1>4, <1>5, <1>6, <1>7, <1>8, <1>9, <1>10, <1>11, <1>12, <1>13,
            <1>14, <1>15, <1>16, <1>17, <1>18, <1>19, <1>20, <1>21, <1>22, <1>23, <1>24, <1>25,
            <1>26, <1>27, <1>28, <1>29, <1>30, <1>31, <1>32 DEF At_OK

LEMMA NotAtScript ==
  ASSUME Step(Main), ~ScriptGoes
  PROVE  ~In(Main, "script") /\ stack[Main] # <<>>
<1>1. \E b : In(Main, b) /\ b # "script"
      BY ActsAt DEF At_OK, Step
<1> QED  BY <1>1 DEF In

\* Every step of every thread keeps Netcat.
LEMMA NetcatStep ==
  ASSUME TypeInv, Stacks, TypeInv', Stacks', Errand, Course, Interrupted, Netcat, Ending,
         NEW t \in Thread, Step(t)
  PROVE  Netcat'
<1>r. Ready(t)
      BY ReadyIs
<1>1. CASE t \in Listener
      BY <1>1, <1>r, NetcatOfListener
<1>2. CASE t = Main
  <2> SUFFICES ASSUME Scripted'
               PROVE  Netcat'
      BY DEF Netcat
  <2>0. Main \in Thread /\ ~Ended(Main) /\ ~Lost(stack'[Main])
        BY Constants DEF Ended, Scripted, main, Lost, EndAt
  <2>g. Grown
        BY <1>2, GrownStep
  <2>c. Current' \in Listener
    <3>1. resendAttempts' \in 0 .. LimitResend - 1
          BY DEF TypeInv
    <3>2. LimitResend \in Nat \ {0}
          BY Constants
    <3>3. resendAttempts' + 1 \in 1 .. LimitResend
      <4> DEFINE k == resendAttempts'
      <4>1. k \in 0 .. LimitResend - 1 /\ LimitResend \in Nat
            BY <3>1, <3>2
      <4> HIDE DEF k
      <4>2. k + 1 \in 1 .. LimitResend
            BY <4>1
      <4> QED  BY <4>2 DEF k
    <3> QED  BY <3>3 DEF Current, Listener
  <2>3. CASE ScriptGoes
    <3>1. Scripted => Nth \in 0 .. 9
          BY CourseIs
    <3>2. /\ Scripted /\ Idle /\ Nth \in 0 .. 8 /\ ScriptCalls(Nth + 1)
          BY <2>0, <2>3, <3>1, ScriptGoesMoves
    <3>3. PICK f, g \in Frame : /\ Starts(f, Nth + 1) /\ g.at = "script" /\ g.n = Nth + 1
                               /\ TwoOn(stack'[Main], f, g, <<>>)
          BY <3>2 DEF ScriptCalls
    <3>4. Nth' = Nth + 1
          BY <3>3 DEF TwoOn, Nth, main
    <3>5. \A l \in Listener : stack'[l] = stack[l]
          BY <3>2, Constants DEF ScriptCalls, Others, Thread
    <3>6. Current' = Current
          BY <2>3 DEF ScriptGoes, Current
    <3>7. Current \in Listener
          BY CurrentIs
    <3>8. Silent
      <4>1. CASE Nth = 0
        <5>1. stack[Current] = <<>>
              BY <3>2, <4>1 DEF Netcat
        <5>2. Off(stack[Current])
              BY <5>1 DEF Off
        <5>3. terminateTargetStarted \/ \A l \in Listener : l # Current => Off(stack[l])
              BY <3>2 DEF Netcat
        <5> QED  BY <5>2, <5>3 DEF Silent, Clear
      <4>2. CASE Nth # 0
            BY <3>2, <4>2 DEF Netcat
      <4> QED  BY <4>1, <4>2
    <3>9. Silent'
          BY <2>g, <3>5, <3>8 DEF Silent, Clear, Grown
    <3>10. CASE Nth = 0
      <4>1. stack[Current] = <<>> /\ \A l \in Listener : l > Current => stack[l] = <<>>
            BY <3>2, <3>10 DEF Netcat
      <4>2. stack'[Current'] = <<>> /\ \A l \in Listener : l > Current' => stack'[l] = <<>>
            BY <3>5, <3>6, <3>7, <4>1
      <4> QED  BY <2>c, <3>9, <4>2, SilentNetcat
    <3>11. CASE Nth # 0
      <4>1. ~(Nth' = 0) /\ ~(Nth' = 1)
            BY <3>2, <3>4, <3>11
      <4> QED  BY <2>c, <3>9, <4>1, SilentNetcat
    <3> QED  BY <3>10, <3>11
  <2>4. CASE ~ScriptGoes
    <3>1. HoldsPlace
          BY <1>2, <1>r, <2>4, MainHolds DEF Ready
    <3>2. Scripted /\ Nth' = Nth
          BY <2>0, <3>1 DEF HoldsPlace
    <3> DEFINE a == Top(Main).at
    <3>3. In(Main, a) /\ a # "script"
          BY <1>2, <2>4, NotAtScript DEF In
    <3>4. Within(a)
          BY <3>2, <3>3, WithinIs
    <3> HIDE DEF a
    <3>5. CASE Nth = 1
      <4>1. First(a)
            BY <3>4, <3>5 DEF First
      <4> QED  BY <1>2, <1>r, <4>1, NetcatFirst
    <3>6. Nth \in 1 .. 9
      <4>1. Top(Main) \in Belongs(Nth) /\ Nth \in 0 .. 9
            BY <3>4 DEF Within
      <4>2. Nth # 0
            BY <4>1 DEF Belongs
      <4> QED  BY <4>1, <4>2
    <3>7. CASE Nth # 1
      <4>1. ~(In(Main, "sf") /\ ~isSshConn)
        <5> SUFFICES ASSUME In(Main, "sf"), ~isSshConn
                     PROVE  FALSE
            OBVIOUS
        <5>1. Within("sf")
              BY <3>2, WithinIs
        <5>2. Nth = 5
              BY <3>7, <5>1 DEF Within, Belongs, KbAt, Cmd, CmdAt, OsAt, CsAt, SdAt, TdAt
        <5> QED  BY <5>1, <5>2 DEF Within, Flags
      <4>2. Others(Main)
            BY <1>2, <1>r, <4>1, MainOthers
      <4>3. \A l \in Listener : stack'[l] = stack[l]
            BY <4>2, Constants DEF Others, Thread
      <4>4. Silent
            BY <3>2, <3>6, <3>7 DEF Netcat
      <4>5. Silent'
            BY <2>g, <4>3, <4>4 DEF Silent, Clear, Grown
      <4>6. ~(Nth' = 0) /\ ~(Nth' = 1)
            BY <3>2, <3>6, <3>7
      <4> QED  BY <2>c, <4>5, <4>6, SilentNetcat
    <3> QED  BY <3>5, <3>7
  <2> QED  BY <2>3, <2>4
<1> QED  BY <1>1, <1>2, Constants

------------------------------------------------------------------------------
(***************************************************************************)
(* The last call of the script, the shutdown.                              *)
(***************************************************************************)

\* Below a shutdown there is no other function.
LEMMA UnderSd ==
  ASSUME NEW f \in Frame, NEW s \in Seq(Frame), Legal(Push(f, s)),
         f.at \in SdAt \/ (f.at = "return" /\ f.kind = "none")
  PROVE  ~Has(s, Low5 \cup {"return"})
<1>1. Rank(f) = 5
      BY RankIs, Places DEF SdAt
<1> SUFFICES ASSUME NEW i \in 1 .. Len(s), s[i].at \in Low5 \cup {"return"}
             PROVE  FALSE
    BY DEF Has
<1> DEFINE g == s[i]
<1>2. Rank(f) < Rank(g)
      BY Beneath
<1>3. g.at \in Low5 \cup {"return"}
      OBVIOUS
<1> HIDE DEF g
<1>4. Rank(g) <= 5
      BY <1>3, RankIs DEF Low5, Low4, Low3
<1>5. Rank(g) \in 1 .. 6 /\ Rank(f) \in 1 .. 6
      BY RankIn
<1> QED  BY <1>1, <1>2, <1>4, <1>5

\* Inside the last call of the script.
Ninth(a) == Within(a) /\ Nth = 9

\* The shutdown is root's, on the TTY.
LEMMA NinthIs ==
  ASSUME TypeInv, Stacks, NEW a, Ninth(a)
  PROVE  /\ isCurrentUserRoot /\ ~isSshConn /\ SelfProcess = "tty" /\ ~Idle
         /\ a \in SdAt \cup TdAt \cup {"return", "send", "expect"}
         /\ a = "return" => Top(Main).kind = "none"
         /\ a \in {"send", "expect"} => /\ Top(Main).kind \in {"poweroff", "quit"} /\ Top(Main).eoe
                                        /\ Top(Main).proc = "tty" /\ Screen(Top(Main).proc) = tty
         /\ a \in SdAt \cup {"return"} => ~Has(Below(Main), Low5 \cup {"return"})
         /\ a \in TdAt => Head(Below(Main)).at = "return" /\ Has(Below(Main), {"return"})
         /\ a \in {"send", "expect"} /\ Top(Main).kind = "poweroff" =>
               Head(Below(Main)).at = "sdDown" /\ ~Has(Below(Main), {"return"}) /\ Has(Below(Main), {"sdDown"})
         /\ a \in {"send", "expect"} /\ Top(Main).kind = "quit" =>
               Head(Below(Main)).at = "tdKill" /\ Has(Below(Main), {"return"})
<1> DEFINE f == Top(Main)
           b == Below(Main)
           g == Head(b)
           c == Tail(b)
<1>1. /\ In(Main, a) /\ Main \in Thread /\ b # <<>> /\ f \in Frame /\ f.at = a /\ Nth = 9
      /\ b \in Seq(Frame) /\ Calls(b, Belongs(9)) /\ f \in Belongs(9) /\ Flags /\ Scripted
      BY Constants DEF Ninth, Within
<1>2. isCurrentUserRoot /\ ~isSshConn /\ SelfProcess = "tty"
      BY <1>1 DEF Flags, SelfProcess
<1>3. /\ Link(f, g) /\ FrameOK(f) /\ g \in Frame
      /\ \A A : g.at \in A => Has(b, A)
      BY <1>1, UnderTop
<1>4. /\ \/ f.at \in SdAt \cup TdAt
         \/ f.at = "return" /\ f.kind = "none"
         \/ Cmd(f, {"poweroff", "quit"}) /\ f.proc = "tty" /\ f.eoe
      BY <1>1 DEF Belongs
<1>5. a # "timedOut"
      BY <1>1, <1>3, <1>4 DEF FrameOK, Long, Cmd, SdAt, TdAt
<1>6. b = Push(g, c) /\ c \in Seq(Frame)
      BY <1>1, UnPush
<1>7. Legal(Push(f, b)) /\ Legal(b)
  <2>1. stack[Main] = Push(f, b) /\ Legal(stack[Main])
        BY <1>1, Acts, TopIs_OK
  <2> QED  BY <1>1, <2>1, LegalPush
<1>8. g \in Belongs(9) \/ (g.at = "script" /\ g.n = 9)
  <2>1. Calls(Push(g, c), Belongs(9)) <=> (c = <<>> \/ (g \in Belongs(9) /\ Calls(c, Belongs(9))))
        BY <1>3, <1>6, CallsPush
  <2>2. Bot(Push(g, c)) = IF c = <<>> THEN g ELSE Bot(c)
        BY <1>3, <1>6, BotPush
  <2>3. Bot(main) = Bot(b)
        BY <1>1, HereIs DEF main
  <2>4. Bot(main).at = "script" /\ Bot(main).n = 9
        BY <1>1 DEF Nth, Scripted
  <2> QED  BY <1>1, <1>6, <2>1, <2>2, <2>3, <2>4
<1> HIDE DEF f, b, g, c
<1>9. g.at \in SdAt \cup TdAt \cup CmdAt \cup {"return", "script"} /\ (g.at = "return" => g.kind = "none")
      BY <1>8 DEF Belongs, Cmd, SdAt, TdAt, CmdAt
<1>10. a \in SdAt \cup {"return"} => ~Has(b, Low5 \cup {"return"})
      BY <1>1, <1>4, <1>7, UnderSd DEF Cmd, CmdAt, SdAt, TdAt
<1>11. ASSUME a \in TdAt, Link(f, g)
       PROVE  g.at = "return"
  <2>1. f.at \in TdAt
        BY <1>1, <1>11
  <2>2. Role(f) = "td"
        BY <2>1, RoleIs
  <2>3. ~(g.at = "script" /\ g.n = 9 /\ CalledAt(f, g.n))
        BY <2>2 DEF CalledAt
  <2>4. g.at # "script"
        BY <1>8, <1>11, <2>3 DEF Link, Belongs, SdAt, TdAt, Cmd, CmdAt
  <2> QED  BY <1>9, <1>11, <2>1, <2>2, <2>4 DEF Link, Cmd, CmdAt, SdAt, TdAt, KbAt, CsAt, OsAt,
              ErAt
<1>12. ASSUME a \in {"send", "expect"}
       PROVE  /\ Cmd(f, {"poweroff", "quit"}) /\ f.proc = "tty" /\ f.eoe
              /\ f.kind = "poweroff" => g.at = "sdDown"
              /\ f.kind = "quit" => g.at = "tdKill"
  <2>1. Cmd(f, {"poweroff", "quit"}) /\ f.proc = "tty" /\ f.eoe
        BY <1>1, <1>4, <1>12 DEF SdAt, TdAt
  <2>2. Role(f) = "cmd"
        BY <2>1, RoleIs DEF Cmd
  <2>3. ~(g.at = "script" /\ g.n = 9 /\ CalledAt(f, g.n))
        BY <2>2 DEF CalledAt
  <2>4. g.at # "script"
        BY <1>3, <1>8, <2>3 DEF Link, Belongs, SdAt, TdAt, Cmd, CmdAt
  <2>5. f.at \notin KbAt \cup TdAt \cup CsAt \cup OsAt \cup ErAt
        BY <2>1 DEF Cmd, CmdAt, KbAt, TdAt, CsAt, OsAt, ErAt
  <2> QED  BY <1>3, <1>9, <2>1, <2>2, <2>4, <2>5 DEF Link, Cmd, CmdAt, SdAt, TdAt
<1>13. Legal(Push(g, c)) /\ \A A : Has(Push(g, c), A) <=> (g.at \in A \/ Has(c, A))
      BY <1>3, <1>6, <1>7, HasPush
<1>14. g.at = "sdDown" => ~Has(b, {"return"})
  <2> SUFFICES ASSUME g.at = "sdDown"
               PROVE  ~Has(b, {"return"})
      OBVIOUS
  <2>1. ~Has(c, Low5 \cup {"return"})
        BY <1>3, <1>6, <1>13, UnderSd DEF SdAt
  <2>2. ~Has(c, {"return"})
        BY <2>1 DEF Has
  <2> QED  BY <1>6, <1>13, <2>2
<1>15. g.at = "tdKill" => Has(b, {"return"})
  <2> SUFFICES ASSUME g.at = "tdKill"
               PROVE  Has(b, {"return"})
      OBVIOUS
  <2>1. c # <<>> /\ g \in Belongs(9)
    <3>1. g \in Belongs(9)
          BY <1>8
    <3>2. c = <<>> => Bot(b) = g
          BY <1>3, <1>6, BotPush
    <3>3. Bot(main) = Bot(b) /\ Bot(main).at = "script"
          BY <1>1, HereIs DEF main, Scripted, b
    <3> QED  BY <3>1, <3>2, <3>3
  <2> DEFINE h == Head(c)
             d == Tail(c)
  <2>2. h \in Frame /\ d \in Seq(Frame) /\ c = Push(h, d)
        BY <1>6, <2>1, UnPush
  <2>3. Link(g, h)
        BY <1>3, <1>6, <1>13, <2>1, LegalPush
  <2>4. h \in Belongs(9) \/ (h.at = "script" /\ h.n = 9)
    <3>1. Calls(Push(g, c), Belongs(9)) <=> (c = <<>> \/ (g \in Belongs(9) /\ Calls(c, Belongs(9))))
          BY <1>3, <1>6, CallsPush
    <3>2. Calls(c, Belongs(9))
          BY <1>1, <1>6, <2>1, <3>1
    <3>3. Calls(Push(h, d), Belongs(9)) <=> (d = <<>> \/ (h \in Belongs(9) /\ Calls(d, Belongs(9))))
          BY <2>2, CallsPush
    <3>4. Bot(Push(h, d)) = IF d = <<>> THEN h ELSE Bot(d)
          BY <2>2, BotPush
    <3>5. Bot(Push(g, c)) = IF c = <<>> THEN g ELSE Bot(c)
          BY <1>3, <1>6, BotPush
    <3>6. Bot(main) = Bot(b) /\ Bot(main).at = "script" /\ Bot(main).n = 9
          BY <1>1, HereIs DEF main, Scripted, Nth, b
    <3> QED  BY <1>6, <2>1, <2>2, <3>2, <3>3, <3>4, <3>5, <3>6
  <2>5. Has(Push(h, d), {"return"}) <=> (h.at \in {"return"} \/ Has(d, {"return"}))
        BY <2>2, HasPush
  <2> HIDE DEF h, d
  <2>6. g.at \in TdAt
        BY DEF TdAt
  <2>7. Role(g) = "td"
        BY <2>6, RoleIs
  <2>8. ~(h.at = "script" /\ h.n = 9 /\ CalledAt(g, h.n))
        BY <2>7 DEF CalledAt
  <2>9. h.at # "script"
        BY <2>3, <2>4, <2>8 DEF Link, Belongs, SdAt, TdAt, Cmd, CmdAt
  <2>10. h.at \in SdAt \cup TdAt \cup CmdAt \cup {"return"} /\ (h.at = "return" => h.kind = "none")
        BY <2>4, <2>9 DEF Belongs, Cmd, SdAt, TdAt, CmdAt
  <2>11. h.at = "return"
        BY <2>3, <2>6, <2>7, <2>9, <2>10 DEF Link, Cmd, CmdAt, SdAt, TdAt, KbAt, CsAt, OsAt,
           ErAt
  <2> QED  BY <1>6, <1>13, <2>2, <2>5, <2>11
<1>16. ~Idle
  <2>1. Idle => a = "script"
        BY <1>1 DEF Idle, TopIs, main, In, Top
  <2> QED  BY <2>1, <1>1, <1>4 DEF SdAt, TdAt, Cmd, CmdAt
<1>17. a \in SdAt \cup TdAt \cup {"return", "send", "expect"} /\ (a = "return" => f.kind = "none")
      BY <1>1, <1>4, <1>5 DEF Cmd, CmdAt, SdAt, TdAt
<1>18. f.proc = "tty" => Screen(f.proc) = tty
      BY DEF Screen
<1>19. Has(b, {"return"}) \/ g.at # "return"
      BY <1>3, <1>6, <1>13
<1>20. Has(b, {"sdDown"}) \/ g.at # "sdDown"
      BY <1>3, <1>6, <1>13
<1>21. a \in {"send", "expect"} => f.kind \in {"poweroff", "quit"} /\ f.eoe /\ f.proc = "tty"
      BY <1>12 DEF Cmd
<1> QED  BY <1>2, <1>3, <1>10, <1>11, <1>12, <1>14, <1>15, <1>16, <1>17, <1>18, <1>19, <1>20,
            <1>21 DEF f, b, g

------------------------------------------------------------------------------
(***************************************************************************)
(* Every step of main keeps Closing.                                       *)
(***************************************************************************)

\* A step inside the last call, once it is past its beginning.
LEMMA ClosingKeeps ==
  ASSUME Scripted, Scripted', Nth = 9, Nth' = 9, Others(Main), PastSd' => Clear,
         Has(main', {"return"}) \/ Idle' => poweroffs' = 1 /\ tty' = "closed",
         TopIs(main', {"sdDown"}) => tty' = "closed",
         TopIs(main', {"return"}) \/ Idle' => targetTearDownCalled'
  PROVE  Closing'
<1>1. PastSd' => Clear'
      BY Constants DEF Others, Thread, Clear
<1> QED  BY <1>1 DEF Closing

\* Every step of the last call keeps Closing.
LEMMA ClosingNinth ==
  ASSUME TypeInv, Stacks, Course, Netcat, Ending, Closing, NEW a, Ninth(a), Step(Main),
         ~ScriptGoes,
         Scripted', Nth' = 9, ~Ended(Main), Ready(Main)
  PROVE  Closing'
<1> DEFINE b == Below(Main)
<1>0. Main \in Thread /\ In(Main, a) /\ Scripted /\ Nth = 9 /\ b # <<>> /\ b \in Seq(Frame) /\ Top(Main) \in Frame
      BY Constants DEF Ninth, Within
<1>g. Grown
      BY <1>0, GrownStep
<1>s. ~In(Main, "sf")
  <2>1. a # "sf"
        BY NinthIs DEF SdAt, TdAt
  <2> QED  BY <1>0, <2>1 DEF In
<1>o. Others(Main)
      BY <1>s, MainOthers
<1>k. \A A : Has(main, A) <=> (a \in A \/ Has(b, A))
      BY <1>0, HereIs DEF main
<1>c. PastSd => /\ Clear
                /\ Has(main, {"return"}) => poweroffs = 1 /\ tty = "closed"
                /\ TopIs(main, {"sdDown"}) => tty = "closed"
                /\ TopIs(main, {"return"}) => targetTearDownCalled
      BY DEF Closing
<1>p. a # "sd" => PastSd
  <2> SUFFICES ASSUME a # "sd"
               PROVE  Has(main, Down \cup {"return"})
      BY <1>0 DEF PastSd
  <2>1. a \in SdAt \cup {"return"} => a \in Down \cup {"return"}
        BY DEF SdAt, Down
  <2>2. a \in TdAt => Has(b, {"return"})
        BY NinthIs
  <2>3. a \in {"send", "expect"} => Has(b, {"return"}) \/ Has(b, {"sdDown"})
        BY NinthIs
  <2>4. Has(b, {"return"}) \/ Has(b, {"sdDown"}) => Has(b, Down \cup {"return"})
        BY DEF Has, Down
  <2> QED  BY <1>k, <2>1, <2>2, <2>3, <2>4, NinthIs
<1>r. a # "sd" => /\ Clear
                  /\ Has(main, {"return"}) => poweroffs = 1 /\ tty = "closed"
                  /\ TopIs(main, {"sdDown"}) => tty = "closed"
                  /\ TopIs(main, {"return"}) => targetTearDownCalled
      BY <1>c, <1>p
<1>t. \A A : TopIs(main, A) <=> a \in A
      BY <1>0 DEF TopIs, main, In, Top
<1>n. a \in SdAt => ~Has(b, {"return"})
  <2>1. a \in SdAt => ~Has(b, Low5 \cup {"return"})
        BY NinthIs
  <2> QED  BY <2>1 DEF Has
\* The top goes on to c.
<1>w. ASSUME NEW c \in At, c \notin {"return", "script", "sdDown"}, Went(Main, c)
      PROVE  /\ Has(main', {"return"}) <=> Has(b, {"return"})
             /\ ~Idle' /\ ~TopIs(main', {"return"}) /\ ~TopIs(main', {"sdDown"})
  <2>1. OneOn(main', Moving(Main, c), b) /\ Moving(Main, c).at = c
        BY <1>0, <1>w, WentIs DEF main
  <2> HIDE DEF b
  <2>2. Head(main').at = c /\ \A A : Has(main', A) <=> (c \in A \/ Has(b, A))
        BY <2>1 DEF OneOn
  <2> QED  BY <1>w, <2>2 DEF Idle, TopIs
\* The top goes on to c, and has called f.
<1>v. ASSUME NEW c \in At, NEW f \in Frame, f.at \notin {"return", "script", "sdDown"},
             Called(Main, f, c)
      PROVE  /\ Has(main', {"return"}) <=> (c = "return" \/ Has(b, {"return"}))
             /\ ~Idle' /\ ~TopIs(main', {"return"}) /\ ~TopIs(main', {"sdDown"})
  <2>1. TwoOn(main', f, Moving(Main, c), b) /\ Moving(Main, c).at = c
        BY <1>0, <1>v, CalledIs DEF main
  <2> HIDE DEF b
  <2>2. Head(main').at = f.at /\ \A A : Has(main', A) <=> (f.at \in A \/ c \in A \/ Has(b, A))
        BY <2>1 DEF TwoOn
  <2> QED  BY <1>v, <2>2 DEF Idle, TopIs
<1>a. \A x : In(Main, x) => x = a
      BY <1>0 DEF In
<1> HIDE DEF b
<1>1. CASE Sends(Main)
  <2>1. Went(Main, "expect") /\ a = "send"
        BY <1>0, <1>1, <1>a, SendsMoves
  <2>2. /\ Has(main', {"return"}) <=> Has(b, {"return"})
        /\ ~Idle' /\ ~TopIs(main', {"return"}) /\ ~TopIs(main', {"sdDown"})
        BY <1>w, <2>1 DEF At
  <2>3. tty' = tty /\ (Top(Main).kind # "poweroff" => poweroffs' = poweroffs)
    <3>1. poweroffs' = poweroffs + (IF Top(Main).kind = "poweroff" THEN 1 ELSE 0) /\ tty' = tty
          BY <1>1 DEF Sends
    <3> QED  BY <3>1 DEF TypeInv
  <2>4. Has(b, {"return"}) => Top(Main).kind # "poweroff" /\ poweroffs = 1 /\ tty = "closed"
        BY <1>k, <1>r, <2>1, NinthIs DEF b
  <2> QED  BY <1>0, <1>o, <1>r, <2>1, <2>2, <2>3, <2>4, ClosingKeeps
<1>2. CASE Answers(Main)
  <2>1. /\ a = "expect" /\ stack'[Main] = b /\ Screen(Top(Main).proc) # "closed"
        /\ Answer(Top(Main).kind, Screen(Top(Main).proc)) # "silent"
        /\ Shows(Top(Main).proc, Answer(Top(Main).kind, Screen(Top(Main).proc)))
        BY <1>0, <1>2, <1>a, AnswersMoves DEF Returned, b
  <2>2. Top(Main).proc = "tty" /\ Screen(Top(Main).proc) = tty /\ Top(Main).kind \in {"poweroff", "quit"}
        BY <2>1, NinthIs
  <2>3. tty' = "closed"
    <3> DEFINE k == Top(Main).kind
    <3>1. k \in {"poweroff", "quit"} /\ Answer(k, tty) # "silent" /\ tty' = Answer(k, tty)
          BY <2>1, <2>2 DEF Shows
    <3> HIDE DEF k
    <3>2. Answer(k, tty) = "closed"
          BY <3>1 DEF Answer
    <3> QED  BY <3>1, <3>2
  <2>4. ~Has(b, {"return"})
        BY <1>k, <1>r, <2>1, <2>2
  <2>5. Head(b).at \in {"sdDown", "tdKill"}
        BY <2>1, <2>2, NinthIs DEF b
  <2>6. ~Has(main', {"return"}) /\ ~Idle' /\ ~TopIs(main', {"return"})
        BY <2>1, <2>4, <2>5 DEF Idle, TopIs, main
  <2> QED  BY <1>0, <1>o, <1>r, <2>1, <2>3, <2>6, ClosingKeeps
<1>3. ~TimesOut(Main)
  <2>1. TimesOut(Main) => a = "expect"
        BY <1>a DEF TimesOut
  <2>2. TimesOut(Main) => Top(Main).eoe
        BY <2>1, NinthIs
  <2> QED  BY <1>0, <2>2, TimesOutMoves
<1>4. ~Resolved(Main)
      BY <1>a, NinthIs DEF Resolved, SdAt, TdAt
<1>5. CASE Eof(Main)
  <2>1. /\ a = "expect" /\ stack'[Main] = b /\ Screen(Top(Main).proc) = "closed"
        BY <1>0, <1>5, <1>a, EofMoves DEF Returned, b
  <2>2. Screen(Top(Main).proc) = tty /\ Top(Main).kind \in {"poweroff", "quit"}
        BY <2>1, NinthIs
  <2>3. tty' = "closed" /\ poweroffs' = poweroffs
        BY <1>5, <2>1, <2>2 DEF Eof
  <2>4. Has(b, {"return"}) => poweroffs = 1
        BY <1>k, <1>r, <2>1
  <2>5. Head(b).at \in {"sdDown", "tdKill"}
        BY <2>1, <2>2, NinthIs DEF b
  <2>6. (Has(main', {"return"}) <=> Has(b, {"return"})) /\ ~Idle' /\ ~TopIs(main', {"return"})
        BY <2>1, <2>5 DEF Idle, TopIs, main
  <2> QED  BY <1>0, <1>o, <1>r, <2>1, <2>3, <2>4, <2>6, ClosingKeeps
<1>6. ~InterruptStarts(Main) /\ ~InterruptTries(Main) /\ ~InterruptEnds(Main)
      BY <1>a, NinthIs DEF InterruptStarts, InterruptTries, InterruptEnds, SdAt, TdAt
<1>7. ~TerminateSteps(Main)
      BY <1>a, NinthIs DEF TerminateSteps, SdAt, TdAt
<1>8. CASE ShutdownStarts(Main)
  <2>1. Went(Main, "sdUser") /\ a = "sd" /\ ~attemptShutdownFailed
        BY <1>0, <1>8, <1>a, ShutdownStartsMoves
  <2>2. /\ Has(main', {"return"}) <=> Has(b, {"return"})
        /\ ~Idle' /\ ~TopIs(main', {"return"}) /\ ~TopIs(main', {"sdDown"})
        BY <1>w, <2>1 DEF At
  <2>3. Clear
    <3>1. ~terminateTargetStarted
          BY <2>1 DEF Ending
    <3>2. Nth >= 2
          BY <1>0
    <3> QED  BY <1>0, <3>1, <3>2 DEF Netcat, Silent
  <2> QED  BY <1>0, <1>n, <1>o, <2>1, <2>2, <2>3, ClosingKeeps DEF SdAt
<1>9. CASE ShutdownSwitchesUser(Main)
  <2>1. Went(Main, "sdTerm") /\ a = "sdUser"
        BY <1>0, <1>9, <1>a, ShutdownSwitchesMoves, NinthIs
  <2>2. /\ Has(main', {"return"}) <=> Has(b, {"return"})
        /\ ~Idle' /\ ~TopIs(main', {"return"}) /\ ~TopIs(main', {"sdDown"})
        BY <1>w, <2>1 DEF At
  <2> QED  BY <1>0, <1>n, <1>o, <1>r, <2>1, <2>2, ClosingKeeps DEF SdAt
<1>10. CASE TerminateTargetStarts(Main)
  <2>1. Went(Main, "sdPower") /\ a = "sdTerm"
        BY <1>0, <1>10, <1>a, TerminateTargetMoves, NinthIs
  <2>2. /\ Has(main', {"return"}) <=> Has(b, {"return"})
        /\ ~Idle' /\ ~TopIs(main', {"return"}) /\ ~TopIs(main', {"sdDown"})
        BY <1>w, <2>1 DEF At
  <2> QED  BY <1>0, <1>n, <1>o, <1>r, <2>1, <2>2, ClosingKeeps DEF SdAt
<1>11. CASE PowersOff(Main)
  <2>1. \/ a = "sdPower" /\ Called(Main, Command("poweroff"), "sdDown")
        \/ a = "sdDown" /\ Called(Main, F("td"), "return")
        BY <1>0, <1>11, <1>a, PowersOffMoves
  <2>2. CASE a = "sdPower" /\ Called(Main, Command("poweroff"), "sdDown")
    <3> DEFINE f == Command("poweroff")
    <3>1. f \in Frame /\ f.at = "send"
          BY CommandIs DEF Kind
    <3> HIDE DEF f
    <3>2. Called(Main, f, "sdDown")
          BY <2>2 DEF f
    <3>3. /\ Has(main', {"return"}) <=> ("sdDown" = "return" \/ Has(b, {"return"}))
          /\ ~Idle' /\ ~TopIs(main', {"return"}) /\ ~TopIs(main', {"sdDown"})
          BY <1>v, <3>1, <3>2 DEF At
    <3> QED  BY <1>0, <1>n, <1>o, <1>r, <2>2, <3>3, ClosingKeeps DEF SdAt
  <2>3. CASE a = "sdDown" /\ Called(Main, F("td"), "return")
    <3> DEFINE f == F("td")
    <3>1. f \in Frame /\ f.at = "td"
          BY FrameIs DEF At
    <3> HIDE DEF f
    <3>2. Called(Main, f, "return")
          BY <2>3 DEF f
    <3>3. ~Idle' /\ ~TopIs(main', {"return"}) /\ ~TopIs(main', {"sdDown"})
          BY <1>v, <3>1, <3>2 DEF At
    <3>4. tty' = tty /\ poweroffs' = poweroffs
          BY <1>11 DEF PowersOff, still
    <3>5. tty = "closed"
          BY <1>r, <1>t, <2>3
    <3>6. poweroffs = 1
      <4>1. Has(stack[Main], {"sdDown"}) /\ ~TopIs(stack[Main], {"send"})
            BY <1>k, <1>t, <2>3 DEF main
      <4> QED  BY <1>0, <4>1 DEF Ending
    <3> QED  BY <1>0, <1>o, <1>r, <2>3, <3>3, <3>4, <3>5, <3>6, ClosingKeeps
  <2> QED  BY <2>1, <2>2, <2>3
<1>12. CASE Returns(Main)
  <2>1. a = "return" /\ stack'[Main] = b
        BY <1>0, <1>12, <1>a, ReturnsMoves DEF Returned, b
  <2>2. tty' = tty /\ poweroffs' = poweroffs /\ targetTearDownCalled' = targetTearDownCalled
        BY <1>12 DEF Returns, still, ending
  <2>3. tty = "closed" /\ poweroffs = 1 /\ targetTearDownCalled /\ Clear
        BY <1>k, <1>r, <1>t, <2>1
  <2> QED  BY <1>0, <1>o, <2>2, <2>3, ClosingKeeps
<1>13. CASE TearDownStarts(Main)
  <2>1. /\ a = "td"
        /\ \/ Returned(Main, "ok") \/ Went(Main, "tdKill") \/ Called(Main, Command("quit"), "tdKill")
        BY <1>0, <1>13, <1>a, TearDownStartsMoves
  <2>2. tty' = tty /\ poweroffs' = poweroffs /\ targetTearDownCalled' = TRUE
        BY <1>13 DEF TearDownStarts, still
  <2>3. tty = "closed" /\ poweroffs = 1 /\ Clear
        BY <1>k, <1>r, <2>1, NinthIs DEF TdAt, b
  <2> QED  BY <1>0, <1>o, <2>2, <2>3, ClosingKeeps
<1>14. CASE TearDownKills(Main)
  <2>1. a = "tdKill"
        BY <1>0, <1>14, <1>a, TearDownKillsMoves
  <2>2. tty' = "closed" /\ poweroffs' = poweroffs /\ targetTearDownCalled' = TRUE
    <3>1. SelfProcess = "tty"
          BY NinthIs
    <3> QED  BY <1>14, <3>1 DEF TearDownKills, Shows
  <2>3. poweroffs = 1 /\ Clear
        BY <1>k, <1>r, <2>1, NinthIs DEF TdAt, b
  <2> QED  BY <1>0, <1>o, <2>2, <2>3, ClosingKeeps
<1>15. ~SwitchUserStarts(Main) /\ ~SwitchUserLogsIn(Main) /\ ~SwitchUserOpens(Main) /\ ~SwitchUserEnds(Main)
      BY <1>a, NinthIs DEF SwitchUserStarts, SwitchUserLogsIn, SwitchUserOpens, SwitchUserEnds,
         SdAt, TdAt
<1>16. ~OpenStarts(Main) /\ ~OpenSpawns(Main) /\ ~OpenLogsIn(Main) /\ ~OpenEnds(Main)
      BY <1>a, NinthIs DEF OpenStarts, OpenSpawns, OpenLogsIn, OpenEnds, SdAt, TdAt
<1>17. ~CloseStarts(Main) /\ ~Closes(Main) /\ ~EnableRootSteps(Main)
      BY <1>a, NinthIs DEF CloseStarts, Closes, EnableRootSteps, SdAt, TdAt
<1>18. ~SendFileStarts(Main) /\ ~SendFileJoins(Main) /\ ~SendFileExists(Main) /\ ~SendFileChecks(Main) /\ ~SendFileRetries(Main)
      BY <1>a, NinthIs DEF SendFileStarts, SendFileJoins, SendFileExists, SendFileChecks,
         SendFileRetries, SdAt, TdAt
<1> QED  BY <1>1, <1>2, <1>3, <1>4, <1>5, <1>6, <1>7, <1>8, <1>9, <1>10, <1>11, <1>12, <1>13,
            <1>14, <1>15, <1>16, <1>17, <1>18 DEF Step

\* Every step of main keeps Closing.
LEMMA ClosingStep ==
  ASSUME TypeInv, Stacks, Errand, Course, Netcat, Ending, Closing, Step(Main), Ready(Main)
  PROVE  Closing'
<1> SUFFICES ASSUME Scripted', Nth' = 9
             PROVE  Closing'
    BY DEF Closing, PastSd
<1>0. ~Lost(stack'[Main]) /\ ~Ended(Main)
      BY DEF Ended, Scripted, main, Lost, EndAt
<1>1. CASE ScriptGoes
  <2>1. Scripted => Nth \in 0 .. 9
        BY CourseIs
  <2>2. Nth \in 0 .. 8 /\ ScriptCalls(Nth + 1)
        BY <1>0, <1>1, <2>1, ScriptGoesMoves
  <2>3. PICK f, g \in Frame : /\ Starts(f, Nth + 1) /\ g.at = "script" /\ g.n = Nth + 1
                             /\ TwoOn(stack'[Main], f, g, <<>>)
        BY <2>2 DEF ScriptCalls
  <2>4. Nth + 1 = 9
        BY <2>3 DEF TwoOn, Nth, main
  <2>5. f.at = "sd"
        BY <2>3, <2>4 DEF Starts
  <2>6. Head(main').at = "sd" /\ \A A : Has(main', A) <=> ("sd" \in A \/ "script" \in A \/ Has(<<>>, A))
        BY <2>3, <2>5 DEF TwoOn, main
  <2>7. ~Has(<<>>, Down \cup {"return"})
        BY HasNone
  <2>8. ~PastSd'
        BY <2>6, <2>7 DEF PastSd, Idle, TopIs, Down
  <2> QED  BY <2>8 DEF Closing
<1>2. CASE ~ScriptGoes
  <2>1. HoldsPlace
        BY <1>2, MainHolds DEF Ready
  <2>2. Scripted /\ Nth = 9
        BY <1>0, <2>1 DEF HoldsPlace
  <2> DEFINE a == Top(Main).at
  <2>3. In(Main, a) /\ a # "script"
        BY <1>2, NotAtScript DEF In
  <2>4. Ninth(a)
        BY <2>2, <2>3, WithinIs DEF Ninth
  <2> HIDE DEF a
  <2> QED  BY <1>0, <1>2, <2>4, ClosingNinth
<1> QED  BY <1>1, <1>2

------------------------------------------------------------------------------
(***************************************************************************)
(* What the terminals show.                                                *)
(***************************************************************************)

\* The steps that change what a process shows.
LEMMA ShowsKeep ==
  ASSUME Step(Main), ~ScriptGoes
  PROVE  /\ tty' = tty \/ Answers(Main) \/ TearDownKills(Main)
         /\ \/ ssh' = ssh \/ Answers(Main) \/ TearDownKills(Main)
            \/ OpenSpawns(Main) \/ OpenLogsIn(Main) \/ OpenEnds(Main) \/ Closes(Main)
<1> DEFINE t == Main
<1>1. Sends(t) => tty' = tty /\ ssh' = ssh
      BY DEF Sends, conn
<1>2. TimesOut(t) => tty' = tty /\ ssh' = ssh
      BY DEF TimesOut, conn
<1>3. Resolved(t) => tty' = tty /\ ssh' = ssh
      BY DEF Resolved, conn
<1>4. Eof(t) => tty' = tty /\ ssh' = ssh
      BY DEF Eof, conn
<1>5. InterruptStarts(t) => tty' = tty /\ ssh' = ssh
      BY DEF InterruptStarts, conn
<1>6. InterruptTries(t) => tty' = tty /\ ssh' = ssh
      BY DEF InterruptTries, conn
<1>7. InterruptEnds(t) => tty' = tty /\ ssh' = ssh
      BY DEF InterruptEnds, conn
<1>8. TerminateSteps(t) => tty' = tty /\ ssh' = ssh
      BY DEF TerminateSteps, still, conn
<1>9. ShutdownStarts(t) => tty' = tty /\ ssh' = ssh
      BY DEF ShutdownStarts, still, conn
<1>10. ShutdownSwitchesUser(t) => tty' = tty /\ ssh' = ssh
      BY DEF ShutdownSwitchesUser, still, conn
<1>11. TerminateTargetStarts(t) => tty' = tty /\ ssh' = ssh
      BY DEF TerminateTargetStarts, still, conn
<1>12. PowersOff(t) => tty' = tty /\ ssh' = ssh
      BY DEF PowersOff, still, conn
<1>13. Returns(t) => tty' = tty /\ ssh' = ssh
      BY DEF Returns, still, conn
<1>14. TearDownStarts(t) => tty' = tty /\ ssh' = ssh
      BY DEF TearDownStarts, still, conn
<1>15. SwitchUserStarts(t) => tty' = tty /\ ssh' = ssh
      BY DEF SwitchUserStarts, still, conn
<1>16. SwitchUserLogsIn(t) => tty' = tty /\ ssh' = ssh
      BY DEF SwitchUserLogsIn, still, conn
<1>17. SwitchUserOpens(t) => tty' = tty /\ ssh' = ssh
      BY DEF SwitchUserOpens, still, conn
<1>18. SwitchUserEnds(t) => tty' = tty /\ ssh' = ssh
      BY DEF SwitchUserEnds, still, conn
<1>19. OpenStarts(t) => tty' = tty /\ ssh' = ssh
      BY DEF OpenStarts, quiet, conn
<1>20. OpenSpawns(t) => tty' = tty
      BY DEF OpenSpawns, quiet
<1>21. OpenLogsIn(t) => tty' = tty
      BY DEF OpenLogsIn, quiet
<1>22. OpenEnds(t) => tty' = tty
      BY DEF OpenEnds, quiet
<1>23. CloseStarts(t) => tty' = tty /\ ssh' = ssh
      BY DEF CloseStarts, quiet, conn
<1>24. Closes(t) => tty' = tty
      BY DEF Closes, quiet
<1>25. EnableRootSteps(t) => tty' = tty /\ ssh' = ssh
      BY DEF EnableRootSteps, quiet, conn
<1>26. SendFileJoins(t) => tty' = tty /\ ssh' = ssh
      BY DEF SendFileJoins, rest, conn
<1>27. SendFileExists(t) => tty' = tty /\ ssh' = ssh
      BY DEF SendFileExists, rest, conn
<1>28. SendFileChecks(t) => tty' = tty /\ ssh' = ssh
      BY DEF SendFileChecks, rest, conn
<1>29. SendFileRetries(t) => tty' = tty /\ ssh' = ssh
      BY DEF SendFileRetries, rest, conn
<1>30. SendFileStarts(t) => tty' = tty /\ ssh' = ssh
      BY DEF SendFileStarts, rest, conn
<1> QED  BY <1>1, <1>2, <1>3, <1>4, <1>5, <1>6, <1>7, <1>8, <1>9, <1>10, <1>11, <1>12, <1>13,
            <1>14, <1>15, <1>16, <1>17, <1>18, <1>19, <1>20, <1>21, <1>22, <1>23, <1>24, <1>25,
            <1>26, <1>27, <1>28, <1>29, <1>30 DEF Step

\* A command that expects the user's prompt leaves the process at it.
LEMMA PromptStays ==
  ASSUME NEW k \in {"plain", "exists", "break"}, NEW s, Answer(k, s) # "silent"
  PROVE  Answer(k, s) = s
BY DEF Answer

\* A password that is taken logs the current user in.
LEMMA PasswordLogsIn ==
  ASSUME NEW s, Answer("sshPassword", s) # "silent"
  PROVE  Answer("sshPassword", s) = CurrentUser
BY DEF Answer

\* Inside the fourth call of the script, which opens the connection.
LEMMA FourthIs ==
  ASSUME TypeInv, Stacks, NEW a, Within(a), Nth = 4
  PROVE  /\ ~isCurrentUserRoot /\ a \in OsAt \cup CmdAt
         /\ a \in CmdAt => /\ Top(Main).kind \in {"sshPrompt", "sshYes", "sshPassword"} /\ Top(Main).proc = "ssh"
                           /\ Head(Below(Main)).at = (IF Top(Main).kind \in {"sshPrompt", "sshYes"} THEN "osPass" ELSE "osIn")
         /\ a \in OsAt => Top(Main).kind = "user"
<1>0. Main \in Thread /\ In(Main, a) /\ Top(Main).at = a /\ Below(Main) # <<>>
      BY Constants DEF Within
<1>1. Top(Main) \in Belongs(4) /\ ~isCurrentUserRoot
      BY DEF Within, Flags
<1>2. \/ a \in OsAt /\ Top(Main).kind = "user"
      \/ a \in CmdAt /\ Top(Main).kind \in {"sshPrompt", "sshYes", "sshPassword"} /\ Top(Main).proc = "ssh"
      BY <1>0, <1>1 DEF Belongs, Cmd
<1>3. a \in CmdAt => a \notin OsAt
      BY DEF CmdAt, OsAt
<1>4. ASSUME a \in CmdAt
      PROVE  Head(Below(Main)).at = (IF Top(Main).kind \in {"sshPrompt", "sshYes"} THEN "osPass" ELSE "osIn")
  <2>1. Link(Top(Main), Head(Below(Main)))
        BY <1>0, UnderTop
  <2>2. Head(Below(Main)).at # "script"
        BY <1>3, <1>4, FourthOpens
  <2>3. Top(Main).kind \in {"sshPrompt", "sshYes", "sshPassword"} /\ Role(Top(Main)) = "cmd"
        BY <1>0, <1>2, <1>3, <1>4, RoleIs
  <2> DEFINE f == Top(Main)
  <2> DEFINE g == Head(Below(Main))
  <2>4. f.kind \in {"sshPrompt", "sshYes", "sshPassword"} /\ f.at \in CmdAt /\ Role(f) = "cmd" /\ Link(f, g) /\ g.at # "script"
        BY <1>0, <1>4, <2>1, <2>2, <2>3
  <2> HIDE DEF f, g
  <2>5. f.at \notin KbAt \cup TdAt \cup CsAt \cup OsAt \cup ErAt
        BY <2>4 DEF CmdAt, KbAt, TdAt, CsAt, OsAt, ErAt
  <2>6. (f.kind \in {"sshPrompt", "sshYes"} /\ g.at = "osPass") \/ (f.kind = "sshPassword" /\ g.at = "osIn")
        BY <2>4, <2>5 DEF Link, Cmd
  <2> QED  BY <2>6 DEF f, g
<1> QED  BY <1>1, <1>2, <1>3, <1>4

\* Opening the connection comes to its end on the user's prompt.
LEMMA ScreensFourth ==
  ASSUME TypeInv, Stacks, NEW a, Within(a), Nth = 4, Step(Main), ~ScriptGoes, Ready(Main),
         ~Ended(Main),
         TopIs(main, {"osIn"}) /\ ret[Main] = "ok" => ssh \in {"user", "closed"},
         TopIs(main', {"osIn"}) \/ Idle', ret'[Main] = "ok"
  PROVE  ssh' \in {"user", "closed"}
<1> DEFINE b == Below(Main)
<1>0. Main \in Thread /\ In(Main, a) /\ b # <<>> /\ b \in Seq(Frame) /\ Top(Main) \in Frame
      BY Constants DEF Within
<1>h. Head(main').at \in {"osIn", "script"}
      BY DEF TopIs, Idle
<1>a. \A x : In(Main, x) => x = a
      BY <1>0 DEF In
<1>f. /\ ~isCurrentUserRoot /\ a \in OsAt \cup CmdAt
      /\ a \in CmdAt => /\ Top(Main).kind \in {"sshPrompt", "sshYes", "sshPassword"} /\ Top(Main).proc = "ssh"
                        /\ Head(b).at = (IF Top(Main).kind \in {"sshPrompt", "sshYes"} THEN "osPass" ELSE "osIn")
      BY FourthIs
<1>w. ASSUME NEW c \in At, c \notin {"osIn", "script"}
      PROVE  ~Went(Main, c)
  <2> SUFFICES ASSUME Went(Main, c) PROVE FALSE
      OBVIOUS
  <2>1. OneOn(main', Moving(Main, c), b) /\ Moving(Main, c).at = c
        BY <1>0, WentIs DEF main
  <2> QED  BY <1>h, <1>w, <2>1 DEF OneOn
<1>v. ASSUME NEW c \in At, NEW f \in Frame, f.at \notin {"osIn", "script"}
      PROVE  ~Called(Main, f, c)
  <2> SUFFICES ASSUME Called(Main, f, c) PROVE FALSE
      OBVIOUS
  <2>1. TwoOn(main', f, Moving(Main, c), b)
        BY <1>0, CalledIs DEF main
  <2> QED  BY <1>h, <1>v, <2>1 DEF TwoOn
<1>c. a \in CmdAt => a \notin OsAt
      BY DEF CmdAt, OsAt
<1>1. ~Sends(Main)
      BY <1>0, <1>w, SendsMoves DEF At
<1>2. CASE Answers(Main)
  <2>1. /\ a = "expect" /\ main' = b
        /\ Answer(Top(Main).kind, Screen(Top(Main).proc)) # "silent"
        /\ Shows(Top(Main).proc, Answer(Top(Main).kind, Screen(Top(Main).proc)))
        BY <1>0, <1>2, <1>a, AnswersMoves DEF Returned, main
  <2>2. a \in CmdAt
        BY <2>1 DEF CmdAt
  <2>3. Top(Main).kind = "sshPassword" /\ Top(Main).proc = "ssh"
        BY <1>f, <1>h, <2>1, <2>2
  <2> DEFINE s == Screen("ssh")
  <2>4. Answer("sshPassword", s) # "silent" /\ ssh' = Answer("sshPassword", s)
        BY <2>1, <2>3 DEF Shows
  <2> HIDE DEF s
  <2>5. ssh' = CurrentUser
        BY <2>4, PasswordLogsIn
  <2> QED  BY <1>f, <2>5 DEF CurrentUser
<1>3. ~TimesOut(Main)
  <2> SUFFICES ASSUME TimesOut(Main) PROVE FALSE
      OBVIOUS
  <2>1. Called(Main, Interrupt(Top(Main).proc), "timedOut") \/ Returned(Main, "timeout")
        BY <1>0, TimesOutMoves
  <2>2. ~Called(Main, Interrupt(Top(Main).proc), "timedOut")
        BY <1>0, <1>v, KbIs DEF At, In
  <2>3. ~Returned(Main, "timeout")
        BY <1>0 DEF Returned, TypeInv
  <2> QED  BY <2>1, <2>2, <2>3
<1>4. ~Resolved(Main)
  <2>1. Resolved(Main) => Returned(Main, "timeout")
        BY <1>0, ResolvedMoves
  <2>2. ~Returned(Main, "timeout")
        BY <1>0 DEF Returned, TypeInv
  <2> QED  BY <2>1, <2>2
<1>5. CASE Eof(Main)
  <2>1. a = "expect" /\ Screen(Top(Main).proc) = "closed" /\ ssh' = ssh
        BY <1>0, <1>5, <1>a, EofMoves DEF Eof, conn
  <2>2. Top(Main).proc = "ssh"
        BY <1>f, <2>1 DEF CmdAt
  <2> QED  BY <2>1, <2>2 DEF Screen
<1>6. ~InterruptStarts(Main) /\ ~InterruptTries(Main) /\ ~InterruptEnds(Main)
      BY <1>a, <1>f DEF InterruptStarts, InterruptTries, InterruptEnds, OsAt, CmdAt
<1>7. ~TerminateSteps(Main) /\ ~ShutdownStarts(Main) /\ ~ShutdownSwitchesUser(Main) /\ ~TerminateTargetStarts(Main)
      BY <1>a, <1>f DEF TerminateSteps, ShutdownStarts, ShutdownSwitchesUser,
         TerminateTargetStarts, OsAt, CmdAt
<1>8. ~PowersOff(Main) /\ ~Returns(Main) /\ ~TearDownStarts(Main) /\ ~TearDownKills(Main)
      BY <1>a, <1>f DEF PowersOff, Returns, TearDownStarts, TearDownKills, OsAt, CmdAt
<1>9. ~SwitchUserStarts(Main) /\ ~SwitchUserLogsIn(Main) /\ ~SwitchUserOpens(Main) /\ ~SwitchUserEnds(Main)
      BY <1>a, <1>f DEF SwitchUserStarts, SwitchUserLogsIn, SwitchUserOpens, SwitchUserEnds,
         OsAt, CmdAt
<1>10. ~OpenStarts(Main)
  <2> SUFFICES ASSUME OpenStarts(Main) PROVE FALSE
      OBVIOUS
  <2>1. Returned(Main, "failed") \/ Called(Main, F("er"), "osSpawn") \/ Went(Main, "osSpawn")
        BY <1>0, OpenStartsMoves
  <2>2. ~Returned(Main, "failed")
        BY <1>0 DEF Returned, TypeInv
  <2> DEFINE f == F("er")
  <2>3. f \in Frame /\ f.at = "er"
        BY FrameIs DEF At
  <2> HIDE DEF f
  <2>4. ~Called(Main, f, "osSpawn")
        BY <1>v, <2>3 DEF At
  <2>5. ~Went(Main, "osSpawn")
        BY <1>w DEF At
  <2> QED  BY <2>1, <2>2, <2>4, <2>5 DEF f
<1>11. ~OpenSpawns(Main)
  <2> SUFFICES ASSUME OpenSpawns(Main) PROVE FALSE
      OBVIOUS
  <2>1. Went(Main, "os") \/ \E f \in Frame : Prompt_OK(f) /\ Called(Main, f, "osPass")
        BY <1>0, OpenSpawnsMoves
  <2>2. ~Went(Main, "os")
        BY <1>w DEF At
  <2>3. ASSUME NEW f \in Frame, Prompt_OK(f)
        PROVE  ~Called(Main, f, "osPass")
        BY <1>v, <2>3 DEF Prompt_OK, At
  <2> QED  BY <2>1, <2>2, <2>3
<1>12. ~OpenLogsIn(Main)
  <2> SUFFICES ASSUME OpenLogsIn(Main) PROVE FALSE
      OBVIOUS
  <2> DEFINE f == TryOnce("sshPassword")
  <2> DEFINE y == TryOnce("sshYes")
  <2>1. Went(Main, "os") \/ Called(Main, f, "osIn") \/ Called(Main, y, "osPass")
        BY <1>0, OpenLogsInMoves
  <2>2. ~Went(Main, "os")
        BY <1>w DEF At
  <2>3. f \in Frame /\ f.at = "send" /\ y \in Frame /\ y.at = "send"
        BY CommandIs DEF Kind
  <2> HIDE DEF f, y
  <2>4. ~Called(Main, f, "osIn") /\ ~Called(Main, y, "osPass")
        BY <1>v, <2>3 DEF At
  <2> QED  BY <2>1, <2>2, <2>4
<1>13. CASE OpenEnds(Main)
  <2>1. In(Main, "osIn") /\ (Went(Main, "os") \/ (ssh' = ssh /\ ret[Main] = "ok"))
        BY <1>0, <1>13, OpenEndsMoves
  <2>2. ~Went(Main, "os")
        BY <1>w DEF At
  <2>3. TopIs(main, {"osIn"})
        BY <2>1 DEF TopIs, main, In, Top
  <2> QED  BY <2>1, <2>2, <2>3
<1>14. ~CloseStarts(Main) /\ ~Closes(Main) /\ ~EnableRootSteps(Main)
      BY <1>a, <1>f DEF CloseStarts, Closes, EnableRootSteps, OsAt, CmdAt
<1>15. ~SendFileStarts(Main) /\ ~SendFileJoins(Main) /\ ~SendFileExists(Main) /\ ~SendFileChecks(Main) /\ ~SendFileRetries(Main)
      BY <1>a, <1>f DEF SendFileStarts, SendFileJoins, SendFileExists, SendFileChecks,
         SendFileRetries, OsAt, CmdAt
<1> QED  BY <1>1, <1>2, <1>3, <1>4, <1>5, <1>6, <1>7, <1>8, <1>9, <1>10, <1>11, <1>12, <1>13,
            <1>14, <1>15 DEF Step

\* The calls over netcat and scp leave the prompt of their process.
LEMMA PromptKeeps ==
  ASSUME TypeInv, Stacks, NEW a, Within(a), Nth \in 0 .. 2 \cup {5, 6}, Step(Main), ~ScriptGoes
  PROVE  /\ Nth <= 2 => tty' = tty
         /\ Nth \in {5, 6} => ssh' = ssh
<1>a. \A x : In(Main, x) => x = a
      BY DEF Within, In
<1>b. Top(Main) \in Belongs(Nth) /\ Top(Main).at = a
      BY DEF Within
<1>1. /\ a \in SfAt \cup KbAt \/ (a \in CmdAt /\ Top(Main).kind \in {"plain", "exists", "break"})
      /\ a \in CmdAt /\ Nth <= 2 => Top(Main).proc = "tty"
      /\ a \in CmdAt /\ Nth \in {5, 6} => Top(Main).proc = "ssh"
  <2>1. a \in CmdAt => a \notin SfAt \cup KbAt
        BY DEF CmdAt, SfAt, KbAt
  <2>2. CASE Nth = 0
        BY <1>b, <2>2 DEF Belongs
  <2>3. CASE Nth = 1
        BY <1>b, <2>1, <2>3 DEF Belongs, Cmd
  <2>4. CASE Nth = 2
        BY <1>b, <2>1, <2>4 DEF Belongs, Cmd
  <2>5. CASE Nth = 5
        BY <1>b, <2>1, <2>5 DEF Belongs, Cmd
  <2>6. CASE Nth = 6
        BY <1>b, <2>1, <2>6 DEF Belongs, Cmd
  <2> QED  BY <2>2, <2>3, <2>4, <2>5, <2>6
<1>2. ~TearDownKills(Main) /\ ~OpenSpawns(Main) /\ ~OpenLogsIn(Main) /\ ~OpenEnds(Main) /\ ~Closes(Main)
      BY <1>a, <1>1 DEF TearDownKills, OpenSpawns, OpenLogsIn, OpenEnds, Closes, SfAt, KbAt,
         CmdAt
<1>3. CASE Answers(Main)
  <2>1. /\ In(Main, "expect")
        /\ Answer(Top(Main).kind, Screen(Top(Main).proc)) # "silent"
        /\ Shows(Top(Main).proc, Answer(Top(Main).kind, Screen(Top(Main).proc)))
        BY <1>3, Constants, AnswersMoves
  <2>2. a \in CmdAt /\ a \notin SfAt \cup KbAt
        BY <1>a, <2>1 DEF CmdAt, SfAt, KbAt
  <2>3. Answer(Top(Main).kind, Screen(Top(Main).proc)) = Screen(Top(Main).proc)
        BY <1>1, <2>1, <2>2, PromptStays
  <2>4. Shows(Top(Main).proc, Screen(Top(Main).proc))
        BY <2>1, <2>3
  <2>5. tty' = tty /\ ssh' = ssh
        BY <2>4 DEF Shows, Screen
  <2> QED  BY <2>5
<1> QED  BY <1>2, <1>3, ShowsKeep

\* Every step of main keeps Screens.
LEMMA ScreensStep ==
  ASSUME TypeInv, Stacks, Errand, Course, Netcat, Screens, Step(Main), Ready(Main)
  PROVE  Screens'
<1> SUFFICES ASSUME Scripted', ~AnyLost'
             PROVE  Screens'
    BY DEF Screens
<1>0. Main \in Thread /\ ~Lost(stack'[Main])
      BY Constants DEF AnyLost
<1>1. ~Ended(Main)
      BY <1>0 DEF Ended
<1>2. Scripted => Nth \in 0 .. 9
      BY CourseIs
<1>3. Scripted /\ ~Lost(stack[Main]) /\ (~ScriptGoes => Nth' = Nth)
  <2>1. CASE ScriptGoes
    <3>1. Scripted /\ stack[Main] # <<>> /\ Bot(stack[Main]).at = "script"
          BY <1>0, <1>2, <2>1, ScriptGoesMoves DEF In, Scripted, main
    <3> QED  BY <2>1, <3>1 DEF Lost, EndAt
  <2>2. CASE ~ScriptGoes
    <3>1. HoldsPlace
          BY <2>2, MainHolds DEF Ready
    <3> QED  BY <1>0, <3>1 DEF HoldsPlace
  <2> QED  BY <2>1, <2>2
<1>4. ~AnyLost
  <2> SUFFICES ASSUME NEW u \in Thread, Lost(stack[u])
               PROVE  FALSE
      BY DEF AnyLost
  <2>1. u # Main
        BY <1>3
  <2>2. CASE Others(Main)
        BY <2>1, <2>2 DEF Others, AnyLost
  <2>3. CASE In(Main, "sf") /\ ~isSshConn /\ Listening(Main)
    <3>1. Within("sf")
          BY <1>3, <2>3, WithinIs
    <3>2. Nth = 1
      <4>1. Top(Main) \in Belongs(Nth) /\ Top(Main).at = "sf" /\ Nth \in 0 .. 9 /\ Flags
            BY <3>1 DEF Within
      <4>2. Nth \in {1, 5}
            BY <4>1 DEF Belongs, Cmd, CmdAt, OsAt, CsAt, SdAt, TdAt
      <4> QED  BY <2>3, <4>1, <4>2 DEF Flags
    <3>3. TopIs(main, {"sf"})
          BY <2>3 DEF TopIs, main, In, Top
    <3>4. stack[Current] = <<>>
          BY <1>3, <3>2, <3>3 DEF Netcat
    <3>5. u # Current
          BY <3>4 DEF Lost
    <3>6. stack'[u] = stack[u]
          BY <2>1, <2>3, <3>5 DEF Listening, Current
    <3> QED  BY <3>6 DEF AnyLost
  <2> QED  BY <2>2, <2>3, MainOthers
<1>5. /\ Nth <= 2 => tty \in {"root", "closed"}
      /\ Nth \in {5, 6} => ssh \in {"user", "closed"}
      /\ Nth = 4 /\ (TopIs(main, {"osIn"}) \/ Idle) /\ ret[Main] = "ok" => ssh \in {"user", "closed"}
      BY <1>3, <1>4 DEF Screens
<1>6. CASE ScriptGoes
  <2>1. /\ In(Main, "script") /\ Idle /\ Nth \in 0 .. 8
        /\ (Nth = 4 => ret[Main] = "ok") /\ ScriptCalls(Nth + 1)
        BY <1>1, <1>2, <1>6, ScriptGoesMoves
  <2>2. PICK f, g \in Frame : /\ Starts(f, Nth + 1) /\ g.at = "script" /\ g.n = Nth + 1
                             /\ TwoOn(stack'[Main], f, g, <<>>)
        BY <2>1 DEF ScriptCalls
  <2> DEFINE n == Nth'
  <2>3. n = Nth + 1 /\ Head(main') = f
        BY <2>2 DEF TwoOn, Nth, main
  <2>4. tty' = tty /\ ssh' = ssh
        BY <1>6 DEF ScriptGoes, rest, conn
  <2>5. n = 4 => f.at = "os"
        BY <2>1, <2>2, <2>3 DEF Starts
  <2>6. n = 4 => ~TopIs(main', {"osIn"}) /\ ~Idle'
        BY <2>3, <2>5 DEF TopIs, Idle
  <2> HIDE DEF n
  <2>7. n <= 2 => tty' \in {"root", "closed"}
        BY <1>5, <2>1, <2>3, <2>4
  <2>8. n \in {5, 6} => ssh' \in {"user", "closed"}
        BY <1>5, <2>1, <2>3, <2>4
  <2> QED  BY <2>6, <2>7, <2>8 DEF Screens, n
<1>7. CASE ~ScriptGoes
  <2> DEFINE a == Top(Main).at
  <2>1. In(Main, a) /\ a # "script"
        BY <1>7, NotAtScript DEF In
  <2>2. Within(a)
        BY <1>3, <2>1, WithinIs
  <2> HIDE DEF a
  <2>3. Nth \in 0 .. 9 /\ Nth' = Nth
        BY <1>2, <1>3, <1>7
  <2>4. Nth \in 0 .. 2 \cup {5, 6} => (Nth <= 2 => tty' = tty) /\ (Nth \in {5, 6} => ssh' = ssh)
        BY <1>7, <2>2, PromptKeeps
  <2>5. Nth = 4 /\ (TopIs(main', {"osIn"}) \/ Idle') /\ ret'[Main] = "ok" => ssh' \in {"user", "closed"}
        BY <1>1, <1>5, <1>7, <2>2, ScreensFourth
  <2>6. Nth <= 2 => tty' \in {"root", "closed"}
        BY <1>5, <2>3, <2>4
  <2>7. Nth \in {5, 6} => ssh' \in {"user", "closed"}
        BY <1>5, <2>3, <2>4
  <2> QED  BY <2>3, <2>5, <2>6, <2>7 DEF Screens
<1> QED  BY <1>6, <1>7

------------------------------------------------------------------------------
(***************************************************************************)
(* The invariant.                                                          *)
(***************************************************************************)

\* A file is only sent over netcat by the first call, whose listener is new.
LEMMA NetcatIsFirst ==
  ASSUME TypeInv, Stacks, Course, Netcat, In(Main, "sf"), ~isSshConn
  PROVE  stack[Current] = <<>>
<1>1. Scripted
  <2>1. ~Lost(stack[Main])
        BY Constants, SendFileOfMain DEF SfAt
  <2> QED  BY <2>1, MainCalled DEF Scripted, main
<1>2. Within("sf")
      BY <1>1, WithinIs
<1>3. Top(Main) \in Belongs(Nth) /\ Top(Main).at = "sf" /\ Nth \in 0 .. 9 /\ Flags
      BY <1>2 DEF Within
<1>4. Nth \in {1, 5}
      BY <1>3 DEF Belongs, Cmd, CmdAt, OsAt, CsAt, SdAt, TdAt
<1>5. Nth = 1
      BY <1>3, <1>4 DEF Flags
<1>6. TopIs(main, {"sf"})
      BY DEF TopIs, main, In, Top
<1> QED  BY <1>1, <1>5, <1>6 DEF Netcat

\* The script does not touch the interrupt flag.
LEMMA ScriptCalm ==
  ASSUME TypeInv, Stacks, Course, Step(Main), In(Main, "script")
  PROVE  \E P : Stays(Main, P) /\ \A p \in P : p \notin Held
<1>0. ScriptGoes
      BY NotAtScript
<1>1. Scripted => Nth \in 0 .. 9
      BY CourseIs
<1>2. Below(Main) = <<>> /\ Nth \in 0 .. 8 /\ (Ended(Main) \/ ScriptCalls(Nth + 1))
      BY <1>0, <1>1, ScriptGoesMoves
<1>3. CASE Ended(Main)
  <2>1. Stays(Main, {})
        BY <1>3, Constants, EndStays
  <2> QED  BY <2>1
<1>4. CASE ScriptCalls(Nth + 1)
  <2>1. PICK a \in {"sf", "send", "su", "os", "cs", "sd"} : Stays(Main, {a})
        BY <1>2, <1>4, ScriptStays
  <2>2. \A p \in {a} : p \notin Held
        BY <2>1 DEF Held
  <2> QED  BY <2>1, <2>2
<1> QED  BY <1>2, <1>3, <1>4

\* Every step of every thread keeps the invariant.
LEMMA InvStep ==
  ASSUME Inv, NEW t \in Thread, Step(t)
  PROVE  Inv'
<1>0. /\ TypeInv /\ Stacks /\ Errand /\ Course /\ Interrupted /\ Netcat /\ Ending
      /\ Closing /\ Screens
      BY DEF Inv
<1>r. Ready(t)
      BY <1>0, ReadyIs
<1>n. Scripted => Nth \in 0 .. 9
      BY <1>0, CourseIs
<1>1. TypeInv' /\ Stacks'
  <2>1. poweroffs \in {0, 1}
        BY <1>0 DEF Ending
  <2>2. ASSUME NEW a \in {"osSpawn", "osPass", "osIn"}, In(t, a)
        PROVE  sshRetries < LimitSsh
    <3>1. a \in Errands
          BY DEF Errands, OsAt
    <3>2. t = Main
          BY <1>0, <2>2, <3>1, ErrandOfMain
    <3>3. Has(main, {"osSpawn", "osPass", "osIn"})
          BY <1>0, <2>2, <3>2, HereIs DEF main
    <3> QED  BY <1>0, <3>3 DEF Errand
  <2> QED  BY <1>0, <1>r, <1>n, <2>1, <2>2, TypesStep DEF Ready
<1>2. Interrupted'
  <2>1. In(t, "sf") /\ ~isSshConn => stack[Current] = <<>>
    <3>1. In(t, "sf") => t = Main
          BY <1>0, SendFileOfMain DEF SfAt
    <3> QED  BY <1>0, <3>1, NetcatIsFirst
  <2>2. In(t, "script") /\ t = Main => \E P : Stays(t, P) /\ \A p \in P : p \notin Held
        BY <1>0, ScriptCalm
  <2> QED  BY <1>0, <1>r, <2>1, <2>2, InterruptedStep DEF Ready
<1>3. Netcat'
      BY <1>0, <1>1, NetcatStep
<1>4. Ending'
      BY <1>0, EndingStep
<1>5. CASE t = Main
  <2>1. Errand'
    <3>1. In(Main, "os") /\ ~Lost(main) => Top(Main).kind = "user"
      <4> SUFFICES ASSUME In(Main, "os"), ~Lost(main)
                   PROVE  Top(Main).kind = "user"
          OBVIOUS
      <4>1. Scripted
            BY <1>0, MainCalled DEF Scripted, main
      <4>2. Within("os")
            BY <1>0, <4>1, WithinIs
      <4>3. Top(Main) \in Belongs(Nth) /\ Top(Main).at = "os"
            BY <4>2 DEF Within
      <4> QED  BY <4>3 DEF Belongs, Cmd, CmdAt, SfAt, KbAt, CsAt, SdAt, TdAt
    <3> QED  BY <1>0, <1>5, <1>n, <3>1, ErrandStep
  <2>2. Course'
        BY <1>0, <1>5, CourseStep
  <2>3. Closing'
        BY <1>0, <1>5, <1>r, ClosingStep
  <2>4. Screens'
        BY <1>0, <1>5, <1>r, ScreensStep
  <2> QED  BY <1>1, <1>2, <1>3, <1>4, <2>1, <2>2, <2>3, <2>4 DEF Inv
<1>6. CASE t \in Listener
  <2>1. Errand' /\ Course' /\ Closing' /\ Screens'
        BY <1>0, <1>6, <1>r, MainOfListener
  <2> QED  BY <1>1, <1>2, <1>3, <1>4, <2>1 DEF Inv
<1> QED  BY <1>5, <1>6, Constants

\* Nothing of the threads changes when a process ends, or nothing at all.
LEMMA InvClosed ==
  ASSUME Inv, UNCHANGED <<calls, attempts, ending, isSshConn, isCurrentUserRoot,
                          isSshRootEnabled, keyboardInterruptTriggered, poweroffs, exited>>
                \/ UNCHANGED vars,
         tty' \in {tty, "closed"}, ssh' \in {ssh, "closed"}
  PROVE  Inv'
<1>0. /\ TypeInv /\ Stacks /\ Errand /\ Course /\ Interrupted /\ Netcat /\ Ending
      /\ Closing /\ Screens
      BY DEF Inv
<1>1. /\ stack' = stack /\ ret' = ret /\ isCurrentUserRoot' = isCurrentUserRoot /\ isSshConn' = isSshConn
      /\ isSshRootEnabled' = isSshRootEnabled /\ sshRetries' = sshRetries /\ resendAttempts' = resendAttempts
      /\ attemptShutdownFailed' = attemptShutdownFailed
      /\ keyboardInterruptTriggered' = keyboardInterruptTriggered
      /\ terminateTargetStarted' = terminateTargetStarted /\ targetTearDownCalled' = targetTearDownCalled
      /\ poweroffs' = poweroffs /\ exited' = exited
      BY DEF vars, calls, attempts, ending, conn
<1>2. TypeInv'
      BY <1>0, <1>1 DEF TypeInv
<1>3. Stacks'
      BY <1>0, <1>1 DEF Stacks
<1>4. main' = main /\ Nth' = Nth /\ Scripted' = Scripted /\ Idle' = Idle /\ Current' = Current
      BY <1>1 DEF main, Nth, Scripted, Idle, Current
<1>5. Errand'
      BY <1>0, <1>1, <1>4 DEF Errand
<1>6. Course'
      BY <1>0, <1>1, <1>4 DEF Course
<1>7. Interrupted'
      BY <1>0, <1>1 DEF Interrupted
<1>8. Clear' = Clear /\ AnyLost' = AnyLost /\ AtHome' = AtHome /\ PastSd' = PastSd /\ Silent' = Silent
      BY <1>1, <1>4 DEF Clear, AnyLost, AtHome, PastSd, Silent
<1>9. Netcat'
      BY <1>0, <1>1, <1>4, <1>8 DEF Netcat
<1>10. Ending'
      BY <1>0, <1>1, <1>8 DEF Ending
<1>11. Closing'
      BY <1>0, <1>1, <1>4, <1>8 DEF Closing
<1>12. Screens'
      BY <1>0, <1>1, <1>4, <1>8 DEF Screens
<1> QED  BY <1>2, <1>3, <1>5, <1>6, <1>7, <1>9, <1>10, <1>11, <1>12 DEF Inv

\* Every step of the specification keeps the invariant.
LEMMA InvNext ==
  ASSUME Inv, [Next]_vars
  PROVE  Inv'
<1>1. ASSUME NEW t \in Thread, Step(t)
      PROVE  Inv'
      BY <1>1, InvStep
<1>2. ASSUME NEW p \in Process, Closed(p)
      PROVE  Inv'
  <2>1. UNCHANGED <<calls, attempts, ending, isSshConn, isCurrentUserRoot,
                    isSshRootEnabled, keyboardInterruptTriggered, poweroffs, exited>>
        BY <1>2 DEF Closed
  <2>2. tty' \in {tty, "closed"} /\ ssh' \in {ssh, "closed"}
        BY <1>2 DEF Closed, Shows
  <2> QED  BY <2>1, <2>2, InvClosed
<1>3. CASE UNCHANGED vars
  <2>1. tty' \in {tty, "closed"} /\ ssh' \in {ssh, "closed"}
        BY <1>3 DEF vars, conn
  <2> QED  BY <1>3, <2>1, InvClosed
<1> QED  BY <1>1, <1>2, <1>3 DEF Next, Stopped

\* The session begins in it.
LEMMA InvInit ==
  ASSUME Init
  PROVE  Inv
<1> DEFINE f == F("script")
<1>0. f \in Frame /\ f.at = "script" /\ f.n = 0 /\ <<>> \in Seq(Frame)
      BY FrameIs DEF At
<1>1. /\ stack \in [Thread -> Seq(Frame)] /\ stack[Main] = Push(f, <<>>)
      /\ \A l \in Listener : stack[l] = <<>>
  <2>1. Push(f, <<>>) = <<f>> /\ <<f>> \in Seq(Frame)
        BY <1>0 DEF Push
  <2>2. stack = [t \in Thread |-> IF t = Main THEN <<f>> ELSE <<>>]
        BY DEF Init
  <2> HIDE DEF f
  <2>3. \A l \in Listener : l \in Thread /\ l # Main
        BY Constants DEF Thread
  <2> QED  BY <1>0, <2>1, <2>2, <2>3, Constants
<1>2. OneOn(main, f, <<>>)
      BY <1>0, <1>1, OneIs DEF main
<1> HIDE DEF f
<1>3. /\ main # <<>> /\ Head(main) = f /\ Bot(main) = f
      /\ \A A : Has(main, A) <=> f.at \in A
      /\ \A S : Calls(main, S)
      BY <1>2, HasNone DEF OneOn
<1>4. Scripted /\ Nth = 0 /\ Idle
      BY <1>0, <1>3 DEF Scripted, Nth, Idle, TopIs
<1>5. /\ Legal(<<>>) /\ Legal(main)
  <2>1. FrameOK(f)
        BY <1>0 DEF FrameOK, CmdAt, OsAt, ErAt, SdAt
  <2> QED  BY <1>0, <1>1, <2>1, LegalNone, LegalPush DEF main
<1>6. ~Lost(main) /\ ~Lost(<<>>)
      BY <1>0, <1>3 DEF Lost, EndAt
<1>7. Stacks
  <2>1. Good(Main, main)
        BY <1>0, <1>3, <1>5, <1>6, Constants DEF Good
  <2>2. \A l \in Listener : Good(l, <<>>)
        BY <1>5, <1>6, HasNone, Constants DEF Good
  <2> QED  BY <1>1, <2>1, <2>2, Constants DEF Stacks, main
<1>8. /\ isCurrentUserRoot /\ ~isSshConn /\ ~isSshRootEnabled /\ sshRetries = 0 /\ resendAttempts = 0
      /\ ~attemptShutdownFailed /\ ~keyboardInterruptTriggered /\ ~terminateTargetStarted
      /\ ~targetTearDownCalled /\ tty = "root" /\ ssh = "none" /\ poweroffs = 0 /\ ~exited
      BY DEF Init
<1>9. TypeInv
  <2>1. ret \in [Thread -> {"ok", "failed", "timeout", "asked"}]
        BY DEF Init
  <2>2. sshRetries \in 0 .. LimitSsh /\ resendAttempts \in 0 .. LimitResend - 1 /\ poweroffs \in 0 .. 2
        BY <1>8, Constants
  <2>3. /\ isCurrentUserRoot \in BOOLEAN /\ isSshConn \in BOOLEAN /\ isSshRootEnabled \in BOOLEAN
        /\ attemptShutdownFailed \in BOOLEAN /\ keyboardInterruptTriggered \in BOOLEAN
        /\ terminateTargetStarted \in BOOLEAN /\ targetTearDownCalled \in BOOLEAN /\ exited \in BOOLEAN
        BY DEF Init
  <2> QED  BY <1>1, <1>8, <2>1, <2>2, <2>3 DEF TypeInv
<1>10. Errand
  <2>1. ~Has(main, ErAt) /\ ~Has(main, {"osSpawn", "osPass", "osIn"})
        BY <1>0, <1>3 DEF ErAt
  <2> QED  BY <1>6, <2>1 DEF Errand
<1>11. Course
  <2>1. Calls(main, Belongs(Nth)) /\ Nth \in 0 .. 9
        BY <1>3, <1>4
  <2>2. Flags
        BY <1>4, <1>8 DEF Flags
  <2> QED  BY <2>1, <2>2, CourseIs
<1>12. \A t \in Thread : \A A : "script" \notin A => ~Has(stack[t], A)
      BY <1>0, <1>1, <1>3, HasNone, Constants DEF main
<1>13. Interrupted
      BY <1>8, <1>12 DEF Interrupted, Held
<1>14. Clear
      BY <1>1 DEF Clear, Off
<1>15. Netcat
  <2>1. \A l \in Listener : stack[l] = <<>> /\ Off(stack[l]) /\ ~Lost(stack[l])
        BY <1>1, <1>6 DEF Off
  <2>2. Silent /\ Current \in Listener
        BY <1>9, <1>14, CurrentIs DEF Silent
  <2>3. ~TopIs(main, {"kbTry"}) /\ ~Has(main, {"kbTry"}) /\ ~Has(main, {"kb"})
        BY <1>0, <1>3 DEF TopIs
  <2> QED  BY <2>1, <2>2, <2>3 DEF Netcat
<1>16. Ending
  <2>1. \A t \in Thread : /\ ~Has(stack[t], Down) /\ ~Has(stack[t], {"sdUser", "sdTerm"})
                          /\ ~Has(stack[t], {"sdUser", "sdTerm", "sdPower"}) /\ ~Has(stack[t], {"sdDown"})
        BY <1>12 DEF Down
  <2>2. Listener \subseteq Thread
        BY DEF Thread
  <2> QED  BY <1>8, <1>14, <2>1, <2>2 DEF Ending
<1>17. ~PastSd
      BY <1>4 DEF PastSd
<1>18. Closing
      BY <1>17 DEF Closing
<1>19. Screens
      BY <1>4, <1>8 DEF Screens
<1> QED  BY <1>7, <1>9, <1>10, <1>11, <1>13, <1>15, <1>16, <1>18, <1>19 DEF Inv

\* Has and Inside are the same of a stack.
LEMMA InsideIs ==
  ASSUME TypeInv, NEW t \in Thread
  PROVE  /\ \A A : Has(stack[t], A) => Inside(t, A)
         /\ Lost(stack[t]) => Inside(t, EndAt)
<1>1. stack[t] \in Seq(Frame) /\ DOMAIN stack[t] = 1 .. Len(stack[t]) /\ Len(stack[t]) \in Nat
      BY DEF TypeInv
<1>2. \A A : Has(stack[t], A) => Inside(t, A)
      BY <1>1 DEF Has, Inside
<1>3. Lost(stack[t]) => Inside(t, EndAt)
  <2> SUFFICES ASSUME Lost(stack[t])
               PROVE  Inside(t, EndAt)
      OBVIOUS
  <2>1. Len(stack[t]) \in 1 .. Len(stack[t]) /\ stack[t][Len(stack[t])].at \in EndAt
        BY <1>1 DEF Lost, Bot
  <2> QED  BY <1>1, <2>1 DEF Inside
<1> QED  BY <1>2, <1>3

\* A listener that talks to a prompt does so during the first call of the script.
LEMMA ListenerTalks ==
  ASSUME Inv, ~AnyLost, NEW l \in Listener, In(l, "send"), Top(l).kind = "plain"
  PROVE  Top(l).proc = "tty" /\ Scripted /\ Nth \in {0, 1}
<1>0. /\ TypeInv /\ Stacks /\ Course /\ Netcat /\ Ending /\ Closing /\ l \in Thread /\ Main \in Thread
      BY Constants DEF Inv, Thread
<1>1. stack[l] # <<>> /\ ~Lost(stack[l]) /\ Head(stack[l]) = Top(l) /\ Top(l).at = "send"
      BY <1>0 DEF AnyLost, In, Top
<1>2. Head(stack[l]).proc = "tty"
      BY <1>0, <1>1, ListenerDeep
<1>3. ~Off(stack[l])
      BY <1>1 DEF Off
<1>4. ~Clear
      BY <1>3 DEF Clear
<1>5. ~terminateTargetStarted
      BY <1>0, <1>4 DEF Ending, Closing
<1>6. Scripted
  <2>1. main # <<>> /\ Bot(main).at \in EndAt \cup {"script"} /\ ~Lost(main)
        BY <1>0 DEF Stacks, Good, main, AnyLost
  <2> QED  BY <2>1 DEF Lost, Scripted
<1>7. ~(Nth >= 2)
      BY <1>0, <1>4, <1>5, <1>6 DEF Netcat, Silent
<1>8. Nth \in 0 .. 9
      BY <1>0, <1>6, CourseIs
<1> QED  BY <1>1, <1>2, <1>6, <1>7, <1>8

\* The invariant has what the recursion relies on.
LEMMA InvCalls ==
  ASSUME Inv
  PROVE  CallInv
<1>0. /\ TypeInv /\ Stacks /\ Course /\ Interrupted /\ Netcat /\ Ending /\ Closing /\ Screens
      BY DEF Inv
<1>1. TypeOK
  <2>1. \A t \in Thread : Len(stack[t]) <= 9
    <3> SUFFICES ASSUME NEW t \in Thread
                 PROVE  Len(stack[t]) <= 9
        OBVIOUS
    <3>1. stack[t] \in Seq(Frame) /\ Legal(stack[t])
          BY <1>0 DEF TypeInv, Stacks, Good
    <3>2. Len(stack[t]) <= 6 /\ Len(stack[t]) \in Nat
          BY <3>1, Shallow
    <3> QED  BY <3>2
  <2> QED  BY <1>0, <2>1 DEF TypeOK, TypeInv
<1>2. InterruptFlagFresh
  <2> SUFFICES ASSUME keyboardInterruptTriggered
               PROVE  \E t \in Thread : Inside(t, {"kbTry", "kbSpace", "term", "tear", "exit"})
      BY DEF InterruptFlagFresh
  <2>1. PICK t \in Thread : Has(stack[t], Held) \/ Lost(stack[t])
        BY <1>0 DEF Interrupted
  <2>2. Inside(t, Held) \/ Inside(t, EndAt)
        BY <1>0, <2>1, InsideIs
  <2>3. Inside(t, {"kbTry", "kbSpace", "term", "tear", "exit"})
        BY <2>2 DEF Inside, Held, EndAt
  <2> QED  BY <2>3
<1>3. PowersOffOnce
      BY <1>0 DEF Ending, PowersOffOnce
<1>4. FlagTellsUserInOrder
  <2> SUFFICES ASSUME \A t \in Thread : ~Inside(t, {"term", "tear", "exit"}),
                      NEW t \in Thread, In(t, "send"), Top(t).kind = "plain"
               PROVE  Screen(Top(t).proc) \in {CurrentUser, "closed"}
      BY DEF FlagTellsUserInOrder, FlagTellsUser
  <2>1. ~AnyLost
        BY <1>0, InsideIs DEF AnyLost, EndAt
  <2>2. CASE t = Main
    <3>1. Scripted
          BY <1>0, <2>1, <2>2, MainCalled DEF Scripted, main, AnyLost
    <3>2. Within("send")
          BY <1>0, <2>2, <3>1, WithinIs
    <3>3. Top(Main) \in Belongs(Nth) /\ Top(Main).at = "send" /\ Nth \in 0 .. 9 /\ Flags
          BY <3>2 DEF Within
    <3>4. (Nth \in {1, 2} /\ Top(Main).proc = "tty") \/ (Nth \in {5, 6} /\ Top(Main).proc = "ssh")
          BY <2>2, <3>3 DEF Belongs, Cmd, SfAt, KbAt, OsAt, CsAt, SdAt, TdAt
    <3>5. Nth \in {1, 2} => isCurrentUserRoot /\ tty \in {"root", "closed"}
          BY <1>0, <2>1, <3>1, <3>3 DEF Flags, Screens
    <3>6. Nth \in {5, 6} => ~isCurrentUserRoot /\ ssh \in {"user", "closed"}
          BY <1>0, <2>1, <3>1, <3>3 DEF Flags, Screens
    <3> QED  BY <2>2, <3>4, <3>5, <3>6 DEF Screen, CurrentUser
  <2>3. CASE t \in Listener
    <3>1. Top(t).proc = "tty" /\ Scripted /\ Nth \in {0, 1}
          BY <2>1, <2>3, ListenerTalks
    <3>2. isCurrentUserRoot /\ tty \in {"root", "closed"}
          BY <1>0, <2>1, <3>1, CourseIs DEF Flags, Screens
    <3> QED  BY <3>1, <3>2 DEF Screen, CurrentUser
  <2> QED  BY <2>2, <2>3, Constants
<1> QED  BY <1>1, <1>2, <1>3, <1>4 DEF CallInv

\* The invariant has the end in order.
LEMMA InvOrderly ==
  ASSUME Inv
  PROVE  OrderlyEnd
<1> SUFFICES ASSUME Done
             PROVE  tty = "closed" /\ ~isSshConn /\ targetTearDownCalled /\ poweroffs = 1
    BY DEF OrderlyEnd
<1>0. TypeInv /\ Stacks /\ Course /\ Closing
      BY DEF Inv
<1>1. In(Main, "script") /\ Top(Main).n = 9
      BY ScriptIs DEF Done
<1>2. Bot(stack[Main]) = Top(Main) /\ Top(Main).at = "script"
      BY <1>0, <1>1, MainCalled DEF In
<1>3. Scripted /\ Nth = 9 /\ Idle
      BY <1>1, <1>2 DEF Scripted, Nth, Idle, TopIs, main, In, Top
<1>4. tty = "closed" /\ targetTearDownCalled /\ poweroffs = 1
      BY <1>0, <1>3 DEF Closing, PastSd
<1>5. ~isSshConn
      BY <1>0, <1>3 DEF Course
<1> QED  BY <1>4, <1>5

\* The invariant holds throughout: for every number of retries that LimitSsh and
\* LimitResend allow, whatever is answered, times out or is closed, and however
\* main and the listeners of sendFile interleave.
THEOREM Inductive == Spec => []Inv
<1>1. Init => Inv
      BY InvInit
<1>2. Inv /\ [Next]_vars => Inv'
      BY InvNext
<1> QED  BY <1>1, <1>2, PTL DEF Spec

\* What runCommand, keyboardInterrupt, terminateAndExit, shutdown and switchUser
\* rely on when they call each other: the stack stays within its bound, the
\* interrupt flag is up only while somebody interrupts or the tool terminates,
\* poweroff is sent at most once, and isCurrentUserRoot tells the user of the
\* prompt a command is sent to, as long as no thread terminates.
THEOREM CallInvHolds == Spec => []CallInv
<1>1. Inv => CallInv
      BY InvCalls
<1> QED  BY <1>1, Inductive, PTL

\* A session that reaches its end has powered the target off once, from its TTY,
\* closed its SSH connection and torn the target down, whatever was interrupted,
\* resent or reopened before.
THEOREM OrderlyEndHolds == Spec => []OrderlyEnd
<1>1. Inv => OrderlyEnd
      BY InvOrderly
<1> QED  BY <1>1, Inductive, PTL

==============================================================================
