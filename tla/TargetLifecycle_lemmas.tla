----------------------- MODULE TargetLifecycle_lemmas ------------------------
(***************************************************************************)
(* The call stacks of a target's threads, the inductive invariant of       *)
(* TargetLifecycle, and what every action does to a stack.                 *)
(*                                                                         *)
(* TargetLifecycle_proofs shows with these lemmas that the actions keep the*)
(* parts of the invariant, and draws the theorems from it.                 *)
(***************************************************************************)
EXTENDS TargetLifecycle, TLAPS

------------------------------------------------------------------------------
(***************************************************************************)
(* Call stacks.                                                            *)
(*                                                                         *)
(* A stack is a sequence of frames, the running one first.  Role names the *)
(* function a frame is a call of, Link which frame may stand on which: it  *)
(* is the call graph of commonTarget.  The recursion ends because a call   *)
(* has a lower rank than its caller; the one exception, terminateAndExit,  *)
(* replaces the stack.                                                     *)
(***************************************************************************)

CmdAt == {"send", "expect", "timedOut"}
KbAt  == {"kb", "kbTry", "kbSpace"}
EndAt == {"term", "tear", "exit"}
TdAt  == {"td", "tdKill"}
CsAt  == {"cs", "csKill"}
ErAt  == {"er", "erEcho", "erService", "erDone"}
OsAt  == {"os", "osSpawn", "osPass", "osIn"}
SfAt  == {"sf", "sfJoin", "sfExists", "sfCheck", "sfSum", "sfRetry", "sfGiveUp"}
SdAt  == {"sd", "sdUser", "sdTerm", "sdPower", "sdDown"}
SuAt  == {"su", "suName", "suPass", "suOpen", "suOpened"}

\* The function a frame is a call of.
Role(f) ==
    CASE f.at \in CmdAt -> "cmd"
      [] f.at \in KbAt -> "kb"
      [] f.at \in TdAt -> "td"
      [] f.at \in CsAt -> "cs"
      [] f.at \in ErAt -> "er"
      [] f.at \in OsAt -> "os"
      [] f.at \in SfAt -> "sf"
      [] f.at \in SdAt -> "sd"
      [] f.at \in SuAt -> "su"
      [] f.at = "return" -> IF f.kind = "none" THEN "sd" ELSE "su"
      [] f.at \in EndAt -> "end"
      [] OTHER -> "script"

\* The commands that a time-out interrupts.
Long == {"exists", "nc"}

\* A function calls functions of a lower rank only.
Rank(f) ==
    CASE Role(f) = "cmd" -> IF f.kind \in Long THEN 3 ELSE 1
      [] Role(f) \in {"kb", "td", "cs", "er"} -> 2
      [] Role(f) = "os" -> 3
      [] Role(f) \in {"su", "sf"} -> 4
      [] Role(f) = "sd" -> 5
      [] OTHER -> 6

Cmd(f, kinds) == f.at \in CmdAt /\ f.kind \in kinds

\* What the n-th call of the script is a call of.
CalledAt(f, n) ==
    CASE n \in {1, 5} -> Role(f) = "sf"
      [] n \in {2, 6} -> Role(f) = "cmd"
      [] n \in {3, 8} -> Role(f) = "su"
      [] n = 4 -> Role(f) = "os"
      [] n = 7 -> Role(f) = "cs"
      [] OTHER -> Role(f) = "sd"

\* f was called by g.
Link(f, g) ==
    \/ g.at = "timedOut" /\ f.at \in KbAt /\ f.proc = g.proc
    \/ g.at = "kbTry" /\ Cmd(f, {"break"}) /\ f.proc = g.proc
    \/ g.at = "kbSpace" /\ Cmd(f, {"plain"}) /\ f.proc = g.proc
    \/ g.at = "tear" /\ Role(f) = "sd"
    \/ g.at = "exit" /\ f.at \in TdAt
    \/ g.at = "sdTerm" /\ Role(f) = "su"
    \/ g.at = "sdPower" /\ f.at \in CsAt
    \/ g.at = "sdDown" /\ Cmd(f, {"poweroff"})
    \/ g.at = "return" /\ g.kind = "none" /\ f.at \in TdAt
    \/ g.at = "return" /\ g.kind # "none" /\ Cmd(f, {"password"})
    \/ g.at = "tdKill" /\ Cmd(f, {"quit"})
    \/ g.at = "suName" /\ Cmd(f, {"exit"})
    \/ g.at = "suPass" /\ Cmd(f, {"root", "user"})
    \/ g.at = "suOpen" /\ f.at \in CsAt
    \/ g.at = "suOpened" /\ f.at \in OsAt
    \/ g.at = "osSpawn" /\ f.at \in ErAt /\ g.kind = "root"
    \/ g.at = "osPass" /\ Cmd(f, {"sshPrompt", "sshYes"})
    \/ g.at = "osIn" /\ Cmd(f, {"sshPassword"})
    \/ g.at = "csKill" /\ Cmd(f, {"sshExit"})
    \/ g.at \in {"erService", "erDone", "sfSum"} /\ Cmd(f, {"plain"})
    \/ g.at = "sfExists" /\ Cmd(f, {"exists"})
    \/ g.at \in {"sfRetry", "sfGiveUp", "sfCheck"} /\ f.at \in KbAt
    \/ g.at = "script" /\ CalledAt(f, g.n)

\* What a frame holds.
FrameOK(f) ==
    /\ (f.at \in {"send", "expect"} /\ ~f.eoe /\ f.intr) => f.kind \in Long
    /\ f.at = "timedOut" => f.kind \in Long
    /\ (f.at \in CmdAt /\ f.kind = "nc") => ~f.eoe /\ f.intr
    /\ (f.at \in CmdAt /\ f.kind = "exit") => f.proc = "tty"
    /\ f.at \in OsAt => f.kind \in {"root", "user"}
    /\ f.at \in ErAt \cup {"kb"} => f.n = 0
    /\ f.at = "suName" => f.kind \in {"root", "user"}
    /\ f.at = "suPass" => f.kind # "none"
    /\ f.at \in SdAt => f.kind = "none"

\* A stack that the calls can build.
Legal(s) ==
    /\ \A i \in 1 .. Len(s) - 1 : Link(s[i], s[i + 1])
    /\ \A i, j \in 1 .. Len(s) : i < j => Rank(s[i]) < Rank(s[j])
    /\ \A i \in 1 .. Len(s) : FrameOK(s[i])

Has(s, A)   == \E i \in 1 .. Len(s) : s[i].at \in A
Bot(s)      == s[Len(s)]
Calls(s, S) == \A i \in 1 .. Len(s) - 1 : s[i] \in S
Push(f, s)  == <<f>> \o s

\* What a stack is after a push.
LEMMA PushIs ==
  \A f \in Frame, s \in Seq(Frame) :
    /\ Len(s) \in Nat /\ (s = <<>> <=> Len(s) = 0)
    /\ Push(f, s) \in Seq(Frame) /\ Push(f, s) # <<>>
    /\ Head(Push(f, s)) = f /\ Tail(Push(f, s)) = s
    /\ Len(Push(f, s)) = Len(s) + 1
    /\ Push(f, s)[1] = f
    /\ \A i \in 1 .. Len(s) : Push(f, s)[i + 1] = s[i]
  BY DEF Push

LEMMA PushTwo ==
  \A f \in Frame, g \in Frame, s \in Seq(Frame) : <<f, g>> \o s = Push(f, Push(g, s))
<1> SUFFICES ASSUME NEW f \in Frame, NEW g \in Frame, NEW s \in Seq(Frame)
             PROVE  <<f, g>> \o s = <<f>> \o (<<g>> \o s)
    BY DEF Push
<1> DEFINE a == <<f, g>> \o s  b == <<f>> \o (<<g>> \o s)
<1>1. a \in Seq(Frame) /\ b \in Seq(Frame) /\ Len(a) = Len(s) + 2 /\ Len(b) = Len(s) + 2
      OBVIOUS
<1>2. \A i \in 1 .. Len(a) : a[i] = b[i]
      OBVIOUS
<1> HIDE DEF a, b
<1>3. a = b
      BY <1>1, <1>2
<1> QED  BY <1>3 DEF a, b

\* A stack that is not empty is its top on what is below.
LEMMA UnPush ==
  \A s \in Seq(Frame) : s # <<>> =>
    Head(s) \in Frame /\ Tail(s) \in Seq(Frame) /\ s = Push(Head(s), Tail(s))
<1> SUFFICES ASSUME NEW s \in Seq(Frame), s # <<>>
             PROVE  Head(s) \in Frame /\ Tail(s) \in Seq(Frame) /\ s = <<Head(s)>> \o Tail(s)
    BY DEF Push
<1>1. Head(s) \in Frame /\ Tail(s) \in Seq(Frame) /\ Len(s) \in Nat \ {0} /\ Len(Tail(s)) = Len(s) - 1
      OBVIOUS
<1> DEFINE b == <<Head(s)>> \o Tail(s)
<1>2. b \in Seq(Frame) /\ Len(b) = Len(s)
      BY <1>1
<1>3. \A i \in 1 .. Len(s) : b[i] = s[i]
      BY <1>1
<1> QED  BY <1>1, <1>2, <1>3

LEMMA HasPush ==
  \A f \in Frame, s \in Seq(Frame) : \A A :
      Has(Push(f, s), A) <=> (f.at \in A \/ Has(s, A))
<1> SUFFICES ASSUME NEW f \in Frame, NEW s \in Seq(Frame), NEW A
             PROVE  Has(Push(f, s), A) <=> (f.at \in A \/ Has(s, A))
    OBVIOUS
<1> DEFINE p == Push(f, s)
<1> HIDE DEF p
<1>1. /\ Len(s) \in Nat /\ Len(p) = Len(s) + 1 /\ p[1] = f
      /\ \A i \in 1 .. Len(s) : p[i + 1] = s[i]
      BY PushIs, Zenon DEF p
<1>2. ASSUME Has(p, A)
      PROVE  f.at \in A \/ Has(s, A)
   <2>1. PICK i \in 1 .. Len(p) : p[i].at \in A
         BY <1>2 DEF Has
   <2>2. CASE i = 1
         BY <2>1, <2>2, <1>1
   <2>3. CASE i # 1
      <3>1. i - 1 \in 1 .. Len(s) /\ p[i] = s[i - 1]
            BY <2>1, <2>3, <1>1
      <3> QED  BY <3>1, <2>1 DEF Has
   <2> QED  BY <2>2, <2>3
<1>3. ASSUME Has(s, A)
      PROVE  Has(p, A)
   <2>1. PICK i \in 1 .. Len(s) : s[i].at \in A
         BY <1>3 DEF Has
   <2>2. i + 1 \in 1 .. Len(p) /\ p[i + 1] = s[i]
         BY <2>1, <1>1
   <2> QED  BY <2>1, <2>2 DEF Has
<1>4. ASSUME f.at \in A
      PROVE  Has(p, A)
      BY <1>1, <1>4 DEF Has
<1> QED  BY <1>2, <1>3, <1>4 DEF p

LEMMA HasNone ==
  \A A : ~Has(<<>>, A)
  BY DEF Has

\* The bottom stays under a push.
LEMMA BotPush ==
  \A f \in Frame, s \in Seq(Frame) :
      Bot(Push(f, s)) = IF s = <<>> THEN f ELSE Bot(s)
<1> SUFFICES ASSUME NEW f \in Frame, NEW s \in Seq(Frame)
             PROVE  Bot(Push(f, s)) = IF s = <<>> THEN f ELSE Bot(s)
    OBVIOUS
<1>1. /\ Len(s) \in Nat /\ Len(Push(f, s)) = Len(s) + 1 /\ Push(f, s)[1] = f
      /\ \A i \in 1 .. Len(s) : Push(f, s)[i + 1] = s[i]
      /\ s = <<>> <=> Len(s) = 0
      BY PushIs, Zenon
<1> QED  BY <1>1 DEF Bot

\* All frames but the bottom are in S.
LEMMA CallsPush ==
  \A f \in Frame, s \in Seq(Frame) : \A S :
      Calls(Push(f, s), S) <=> (s = <<>> \/ (f \in S /\ Calls(s, S)))
<1> SUFFICES ASSUME NEW f \in Frame, NEW s \in Seq(Frame), NEW S
             PROVE  Calls(Push(f, s), S) <=> (s = <<>> \/ (f \in S /\ Calls(s, S)))
    OBVIOUS
<1> DEFINE p == Push(f, s)
<1> HIDE DEF p
<1>1. /\ Len(s) \in Nat /\ Len(p) = Len(s) + 1 /\ p[1] = f
      /\ \A i \in 1 .. Len(s) : p[i + 1] = s[i]
      /\ s = <<>> <=> Len(s) = 0
      BY PushIs, Zenon DEF p
<1>2. ASSUME Calls(p, S), s # <<>>
      PROVE  f \in S /\ Calls(s, S)
   <2>1. f \in S
         BY <1>1, <1>2 DEF Calls
   <2>2. ASSUME NEW i \in 1 .. Len(s) - 1
         PROVE  s[i] \in S
      <3>1. i + 1 \in 1 .. Len(p) - 1 /\ p[i + 1] = s[i]
            BY <1>1
      <3> QED  BY <3>1, <1>2 DEF Calls
   <2> QED  BY <2>1, <2>2 DEF Calls
<1>3. ASSUME s = <<>> \/ (f \in S /\ Calls(s, S))
      PROVE  Calls(p, S)
   <2>1. SUFFICES ASSUME NEW i \in 1 .. Len(p) - 1
                  PROVE  p[i] \in S
         BY DEF Calls
   <2>2. CASE i = 1
         BY <2>2, <1>1, <1>3
   <2>3. CASE i # 1
      <3>1. i - 1 \in 1 .. Len(s) - 1 /\ p[i] = s[i - 1] /\ s # <<>>
            BY <2>3, <1>1
      <3> QED  BY <3>1, <1>3 DEF Calls
   <2> QED  BY <2>2, <2>3
<1> QED  BY <1>2, <1>3 DEF p

LEMMA CallsNone ==
  \A S : Calls(<<>>, S)
  BY DEF Calls

------------------------------------------------------------------------------
(***************************************************************************)
(* Ranks grow down a stack, so no function is twice in it and it is never  *)
(* deeper than six frames.                                                 *)
(***************************************************************************)

Low  == KbAt \cup TdAt \cup CsAt \cup ErAt
Low3 == Low \cup OsAt
Low4 == Low3 \cup SuAt \cup SfAt
Low5 == Low4 \cup SdAt

\* Every role is read off the frame's place, but for a return.
LEMMA RoleIs ==
  \A f : /\ f.at \in CmdAt => Role(f) = "cmd"
         /\ f.at \in KbAt => Role(f) = "kb"
         /\ f.at \in TdAt => Role(f) = "td"
         /\ f.at \in CsAt => Role(f) = "cs"
         /\ f.at \in ErAt => Role(f) = "er"
         /\ f.at \in OsAt => Role(f) = "os"
         /\ f.at \in SfAt => Role(f) = "sf"
         /\ f.at \in SdAt => Role(f) = "sd"
         /\ f.at \in SuAt => Role(f) = "su"
         /\ f.at \in EndAt => Role(f) = "end"
         /\ (f.at = "return" /\ f.kind = "none") => Role(f) = "sd"
         /\ (f.at = "return" /\ f.kind # "none") => Role(f) = "su"
         /\ f.at = "script" => Role(f) = "script"
<1> SUFFICES ASSUME NEW f
             PROVE  /\ f.at \in CmdAt => Role(f) = "cmd"
                    /\ f.at \in KbAt => Role(f) = "kb"
                    /\ f.at \in TdAt => Role(f) = "td"
                    /\ f.at \in CsAt => Role(f) = "cs"
                    /\ f.at \in ErAt => Role(f) = "er"
                    /\ f.at \in OsAt => Role(f) = "os"
                    /\ f.at \in SfAt => Role(f) = "sf"
                    /\ f.at \in SdAt => Role(f) = "sd"
                    /\ f.at \in SuAt => Role(f) = "su"
                    /\ f.at \in EndAt => Role(f) = "end"
                    /\ (f.at = "return" /\ f.kind = "none") => Role(f) = "sd"
                    /\ (f.at = "return" /\ f.kind # "none") => Role(f) = "su"
                    /\ f.at = "script" => Role(f) = "script"
    OBVIOUS
<1>1. f.at \in CmdAt => Role(f) = "cmd"
      BY DEF Role, CmdAt, KbAt, TdAt, CsAt, ErAt, OsAt, SfAt, SdAt, SuAt, EndAt
<1>2. f.at \in KbAt => Role(f) = "kb"
      BY DEF Role, CmdAt, KbAt, TdAt, CsAt, ErAt, OsAt, SfAt, SdAt, SuAt, EndAt
<1>3. f.at \in TdAt => Role(f) = "td"
      BY DEF Role, CmdAt, KbAt, TdAt, CsAt, ErAt, OsAt, SfAt, SdAt, SuAt, EndAt
<1>4. f.at \in CsAt => Role(f) = "cs"
      BY DEF Role, CmdAt, KbAt, TdAt, CsAt, ErAt, OsAt, SfAt, SdAt, SuAt, EndAt
<1>5. f.at \in ErAt => Role(f) = "er"
      BY DEF Role, CmdAt, KbAt, TdAt, CsAt, ErAt, OsAt, SfAt, SdAt, SuAt, EndAt
<1>6. f.at \in OsAt => Role(f) = "os"
      BY DEF Role, CmdAt, KbAt, TdAt, CsAt, ErAt, OsAt, SfAt, SdAt, SuAt, EndAt
<1>7. f.at \in SfAt => Role(f) = "sf"
      BY DEF Role, CmdAt, KbAt, TdAt, CsAt, ErAt, OsAt, SfAt, SdAt, SuAt, EndAt
<1>8. f.at \in SdAt => Role(f) = "sd"
      BY DEF Role, CmdAt, KbAt, TdAt, CsAt, ErAt, OsAt, SfAt, SdAt, SuAt, EndAt
<1>9. f.at \in SuAt => Role(f) = "su"
      BY DEF Role, CmdAt, KbAt, TdAt, CsAt, ErAt, OsAt, SfAt, SdAt, SuAt, EndAt
<1>10. f.at \in EndAt => Role(f) = "end"
      BY DEF Role, CmdAt, KbAt, TdAt, CsAt, ErAt, OsAt, SfAt, SdAt, SuAt, EndAt
<1>11. f.at = "return" => Role(f) = IF f.kind = "none" THEN "sd" ELSE "su"
      BY DEF Role, CmdAt, KbAt, TdAt, CsAt, ErAt, OsAt, SfAt, SdAt, SuAt, EndAt
<1>12. f.at = "script" => Role(f) = "script"
      BY DEF Role, CmdAt, KbAt, TdAt, CsAt, ErAt, OsAt, SfAt, SdAt, SuAt, EndAt
<1> QED  BY <1>1, <1>2, <1>3, <1>4, <1>5, <1>6, <1>7, <1>8, <1>9, <1>10, <1>11, <1>12

\* Every place belongs to a function.
LEMMA Places ==
  At = CmdAt \cup Low5 \cup EndAt \cup {"return", "script"}
  BY DEF At, CmdAt, KbAt, TdAt, CsAt, ErAt, OsAt, SfAt, SdAt, SuAt, EndAt, Low, Low3, Low4, Low5

\* The rank is read off the place too.
LEMMA RankIs ==
  \A f : /\ f.at \in CmdAt => Rank(f) = IF f.kind \in Long THEN 3 ELSE 1
         /\ f.at \in Low => Rank(f) = 2
         /\ f.at \in OsAt => Rank(f) = 3
         /\ f.at \in SuAt \cup SfAt => Rank(f) = 4
         /\ f.at \in SdAt => Rank(f) = 5
         /\ f.at = "return" => Rank(f) = IF f.kind = "none" THEN 5 ELSE 4
         /\ f.at \in EndAt \cup {"script"} => Rank(f) = 6
<1> SUFFICES ASSUME NEW f
             PROVE  /\ f.at \in CmdAt => Rank(f) = IF f.kind \in Long THEN 3 ELSE 1
                    /\ f.at \in Low => Rank(f) = 2
                    /\ f.at \in OsAt => Rank(f) = 3
                    /\ f.at \in SuAt \cup SfAt => Rank(f) = 4
                    /\ f.at \in SdAt => Rank(f) = 5
                    /\ f.at = "return" => Rank(f) = IF f.kind = "none" THEN 5 ELSE 4
                    /\ f.at \in EndAt \cup {"script"} => Rank(f) = 6
    OBVIOUS
<1>0. \A a \in CmdAt : a \notin Low \cup OsAt \cup SuAt \cup SfAt \cup SdAt \cup EndAt \cup {"return", "script"}
      BY DEF CmdAt, KbAt, TdAt, CsAt, ErAt, OsAt, SfAt, SdAt, SuAt, EndAt, Low
<1>1. f.at \in CmdAt => Rank(f) = IF f.kind \in Long THEN 3 ELSE 1
  <2>1. f.at \in CmdAt => Role(f) = "cmd"
        BY RoleIs
  <2> QED  BY <2>1 DEF Rank
<1>2. f.at \in Low => Rank(f) = 2
      BY RoleIs, <1>0 DEF Rank, Low
<1>3. f.at \in OsAt => Rank(f) = 3
      BY RoleIs, <1>0 DEF Rank
<1>4. f.at \in SuAt \cup SfAt => Rank(f) = 4
      BY RoleIs, <1>0 DEF Rank
<1>5. f.at \in SdAt => Rank(f) = 5
      BY RoleIs, <1>0 DEF Rank
<1>6. f.at = "return" => Rank(f) = IF f.kind = "none" THEN 5 ELSE 4
      BY RoleIs, <1>0 DEF Rank
<1>7. f.at \in EndAt \cup {"script"} => Rank(f) = 6
      BY RoleIs, <1>0 DEF Rank
<1> QED  BY <1>1, <1>2, <1>3, <1>4, <1>5, <1>6, <1>7

LEMMA RankIn ==
  \A f : Rank(f) \in 1 .. 6
  BY DEF Rank

LEMMA LegalNone ==
  Legal(<<>>)
  BY DEF Legal

\* A legal stack stays legal under a push along the call graph.
LEMMA LegalPush ==
  \A f \in Frame, s \in Seq(Frame) :
      Legal(Push(f, s)) <=> /\ Legal(s) /\ FrameOK(f)
                            /\ s = <<>> \/ (Link(f, Head(s)) /\ Rank(f) < Rank(Head(s)))
<1> SUFFICES ASSUME NEW f \in Frame, NEW s \in Seq(Frame)
             PROVE  Legal(Push(f, s)) <=> /\ Legal(s) /\ FrameOK(f)
                                          /\ s = <<>> \/ (Link(f, Head(s)) /\ Rank(f) < Rank(Head(s)))
    OBVIOUS
<1> DEFINE p == Push(f, s)
<1> HIDE DEF p
<1>1. /\ Len(s) \in Nat /\ Len(p) = Len(s) + 1 /\ p[1] = f
      /\ \A i \in 1 .. Len(s) : p[i + 1] = s[i]
      /\ s = <<>> <=> Len(s) = 0
      BY PushIs, Zenon DEF p
<1>2. s # <<>> => Head(s) = s[1]
      OBVIOUS
<1>3. ASSUME Legal(p)
      PROVE  /\ Legal(s) /\ FrameOK(f)
             /\ s = <<>> \/ (Link(f, Head(s)) /\ Rank(f) < Rank(Head(s)))
   <2>1. ASSUME NEW i \in 1 .. Len(s) - 1
         PROVE  Link(s[i], s[i + 1])
      <3>1. i + 1 \in 1 .. Len(p) - 1 /\ p[i + 1] = s[i] /\ p[(i + 1) + 1] = s[i + 1]
            BY <1>1
      <3>2. Link(p[i + 1], p[(i + 1) + 1])
            BY <3>1, <1>3 DEF Legal
      <3> QED  BY <3>1, <3>2
   <2>2. ASSUME NEW i \in 1 .. Len(s), NEW j \in 1 .. Len(s), i < j
         PROVE  Rank(s[i]) < Rank(s[j])
      <3>1. /\ i + 1 \in 1 .. Len(p) /\ j + 1 \in 1 .. Len(p) /\ i + 1 < j + 1
            /\ p[i + 1] = s[i] /\ p[j + 1] = s[j]
            BY <1>1, <2>2
      <3>2. Rank(p[i + 1]) < Rank(p[j + 1])
            BY <3>1, <1>3 DEF Legal
      <3> QED  BY <3>1, <3>2
   <2>3. ASSUME NEW i \in 1 .. Len(s)
         PROVE  FrameOK(s[i])
      <3>1. i + 1 \in 1 .. Len(p) /\ p[i + 1] = s[i]
            BY <1>1
      <3>2. FrameOK(p[i + 1])
            BY <3>1, <1>3 DEF Legal
      <3> QED  BY <3>1, <3>2
   <2>4. FrameOK(f)
      <3>1. 1 \in 1 .. Len(p)
            BY <1>1
      <3>2. FrameOK(p[1])
            BY <3>1, <1>3 DEF Legal
      <3> QED  BY <1>1, <3>2
   <2>5. ASSUME s # <<>>
         PROVE  Link(f, Head(s)) /\ Rank(f) < Rank(Head(s))
      <3>1. 1 \in 1 .. Len(p) - 1 /\ 1 \in 1 .. Len(p) /\ 2 \in 1 .. Len(p) /\ p[1 + 1] = s[1] /\ p[2] = s[1]
            BY <1>1, <2>5
      <3>2. Link(p[1], p[1 + 1])
            BY <3>1, <1>3 DEF Legal
      <3>3. Rank(p[1]) < Rank(p[2])
            BY <3>1, <1>3 DEF Legal
      <3> QED  BY <1>1, <1>2, <2>5, <3>1, <3>2, <3>3
   <2> QED  BY <2>1, <2>2, <2>3, <2>4, <2>5 DEF Legal
<1>4. ASSUME /\ Legal(s) /\ FrameOK(f)
             /\ s = <<>> \/ (Link(f, Head(s)) /\ Rank(f) < Rank(Head(s)))
      PROVE  Legal(p)
   <2>1. ASSUME NEW i \in 1 .. Len(p) - 1
         PROVE  Link(p[i], p[i + 1])
      <3>1. CASE i = 1
            BY <3>1, <1>1, <1>2, <1>4
      <3>2. CASE i # 1
         <4>1. /\ i - 1 \in 1 .. Len(s) - 1 /\ p[i] = s[i - 1]
               /\ p[i + 1] = s[(i - 1) + 1]
               BY <3>2, <1>1
         <4>2. Link(s[i - 1], s[(i - 1) + 1])
               BY <4>1, <1>4 DEF Legal
         <4> QED  BY <4>1, <4>2
      <3> QED  BY <3>1, <3>2
   <2>2. ASSUME NEW j \in 1 .. Len(s)
         PROVE  Rank(f) < Rank(s[j])
      <3>1. s # <<>> /\ 1 \in 1 .. Len(s)
            BY <1>1
      <3>2. Rank(f) < Rank(s[1])
            BY <3>1, <1>2, <1>4
      <3>3. j = 1 \/ Rank(s[1]) < Rank(s[j])
            BY <3>1, <1>4 DEF Legal
      <3> QED  BY <3>2, <3>3, RankIn
   <2>3. ASSUME NEW i \in 1 .. Len(p), NEW j \in 1 .. Len(p), i < j
         PROVE  Rank(p[i]) < Rank(p[j])
      <3>1. j - 1 \in 1 .. Len(s) /\ p[j] = s[j - 1]
            BY <1>1, <2>3
      <3>2. CASE i = 1
            BY <3>1, <3>2, <2>2, <1>1
      <3>3. CASE i # 1
         <4>1. i - 1 \in 1 .. Len(s) /\ p[i] = s[i - 1] /\ i - 1 < j - 1
               BY <1>1, <2>3, <3>3
         <4>2. Rank(s[i - 1]) < Rank(s[j - 1])
               BY <4>1, <3>1, <1>4 DEF Legal
         <4> QED  BY <3>1, <4>1, <4>2
      <3> QED  BY <3>2, <3>3
   <2>4. ASSUME NEW i \in 1 .. Len(p)
         PROVE  FrameOK(p[i])
      <3>1. CASE i = 1
            BY <3>1, <1>1, <1>4
      <3>2. CASE i # 1
         <4>1. i - 1 \in 1 .. Len(s) /\ p[i] = s[i - 1]
               BY <3>2, <1>1
         <4> QED  BY <4>1, <1>4 DEF Legal
      <3> QED  BY <3>1, <3>2
   <2> QED  BY <2>1, <2>3, <2>4 DEF Legal
<1> QED  BY <1>3, <1>4 DEF p

\* No stack is more than six calls deep.
LEMMA Shallow ==
  ASSUME NEW s \in Seq(Frame), Legal(s)
  PROVE  Len(s) <= 6
<1> SUFFICES ASSUME Len(s) >= 7
             PROVE  FALSE
    OBVIOUS
<1>1. \A i \in 1 .. 7 : i \in 1 .. Len(s)
      OBVIOUS
<1>2. \A i, j \in 1 .. Len(s) : i < j => Rank(s[i]) < Rank(s[j])
      BY DEF Legal
<1>3. /\ Rank(s[1]) < Rank(s[2]) /\ Rank(s[2]) < Rank(s[3]) /\ Rank(s[3]) < Rank(s[4])
      /\ Rank(s[4]) < Rank(s[5]) /\ Rank(s[5]) < Rank(s[6]) /\ Rank(s[6]) < Rank(s[7])
      BY <1>1, <1>2
<1>4. Rank(s[1]) \in 1 .. 6 /\ Rank(s[2]) \in 1 .. 6 /\ Rank(s[3]) \in 1 .. 6 /\ Rank(s[4]) \in 1 .. 6
      /\ Rank(s[5]) \in 1 .. 6 /\ Rank(s[6]) \in 1 .. 6 /\ Rank(s[7]) \in 1 .. 6
      BY RankIn
<1> QED  BY <1>3, <1>4

\* What is below has a higher rank.
LEMMA Beneath ==
  ASSUME NEW f \in Frame, NEW s \in Seq(Frame), Legal(Push(f, s)), NEW i \in 1 .. Len(s)
  PROVE  Rank(f) < Rank(s[i]) /\ s[i] \in Frame
<1>1. /\ Len(s) \in Nat /\ Len(Push(f, s)) = Len(s) + 1 /\ Push(f, s)[1] = f
      /\ Push(f, s)[i + 1] = s[i]
      BY PushIs
<1>2. 1 \in 1 .. Len(Push(f, s)) /\ i + 1 \in 1 .. Len(Push(f, s)) /\ 1 < i + 1
      BY <1>1
<1>3. Rank(Push(f, s)[1]) < Rank(Push(f, s)[i + 1])
      BY <1>2 DEF Legal
<1> QED  BY <1>1, <1>3

\* A function is not called by itself, however indirectly.
LEMMA NoSecond ==
  ASSUME NEW f \in Frame, NEW s \in Seq(Frame), Legal(Push(f, s)), NEW A
  PROVE  /\ (f.at \in Low /\ A \subseteq Low) => ~Has(s, A)
         /\ (f.at \in OsAt /\ A \subseteq Low3) => ~Has(s, A)
         /\ (f.at \in SuAt \cup SfAt /\ A \subseteq Low4) => ~Has(s, A)
         /\ (f.at \in SdAt /\ A \subseteq Low5) => ~Has(s, A)
         /\ (f.at = "return" /\ f.kind = "none" /\ A \subseteq Low5) => ~Has(s, A)
         /\ (f.at = "return" /\ A \subseteq Low4) => ~Has(s, A)
         /\ (f.at \in EndAt \cup {"script"}) => s = <<>>
<1>1. ASSUME NEW i \in 1 .. Len(s)
      PROVE  Rank(f) < Rank(s[i]) /\ s[i] \in Frame
      BY Beneath
<1>2. \A g : /\ g.at \in Low => Rank(g) <= 2
             /\ g.at \in Low3 => Rank(g) <= 3
             /\ g.at \in Low4 => Rank(g) <= 4
             /\ g.at \in Low5 => Rank(g) <= 5
  <2>1. \A g : g.at \in Low => Rank(g) <= 2
        BY RankIs
  <2>2. \A g : g.at \in Low3 => Rank(g) <= 3
        BY RankIs DEF Low3
  <2>3. \A g : g.at \in Low4 => Rank(g) <= 4
     <3>1. \A g : g.at \in SuAt \cup SfAt => Rank(g) <= 4
           BY RankIs
     <3>2. \A g : g.at \in Low3 => Rank(g) <= 4
           BY <2>2, RankIn
     <3> QED  BY <3>1, <3>2 DEF Low4
  <2>4. \A g : g.at \in Low5 => Rank(g) <= 5
     <3>1. \A g : g.at \in SdAt => Rank(g) <= 5
           BY RankIs
     <3>2. \A g : g.at \in Low4 => Rank(g) <= 5
           BY <2>3, RankIn
     <3> QED  BY <3>1, <3>2 DEF Low5
  <2> QED  BY <2>1, <2>2, <2>3, <2>4
<1>3. /\ f.at \in Low => Rank(f) = 2
      /\ f.at \in OsAt => Rank(f) = 3
      /\ f.at \in SuAt \cup SfAt => Rank(f) = 4
      /\ f.at \in SdAt => Rank(f) = 5
      /\ (f.at = "return" /\ f.kind = "none") => Rank(f) = 5
      /\ f.at = "return" => Rank(f) >= 4
      /\ f.at \in EndAt \cup {"script"} => Rank(f) = 6
      BY RankIs
<1>4. \A g : Rank(g) \in 1 .. 6
      BY RankIn
<1>5. (f.at \in Low /\ A \subseteq Low) => ~Has(s, A)
      BY <1>1, <1>2, <1>3, <1>4 DEF Has
<1>6. (f.at \in OsAt /\ A \subseteq Low3) => ~Has(s, A)
      BY <1>1, <1>2, <1>3, <1>4 DEF Has
<1>7. (f.at \in SuAt \cup SfAt /\ A \subseteq Low4) => ~Has(s, A)
      BY <1>1, <1>2, <1>3, <1>4 DEF Has
<1>8. (f.at \in SdAt /\ A \subseteq Low5) => ~Has(s, A)
      BY <1>1, <1>2, <1>3, <1>4 DEF Has
<1>9. (f.at = "return" /\ f.kind = "none" /\ A \subseteq Low5) => ~Has(s, A)
      BY <1>1, <1>2, <1>3, <1>4 DEF Has
<1>10. (f.at = "return" /\ A \subseteq Low4) => ~Has(s, A)
      BY <1>1, <1>2, <1>3, <1>4 DEF Has
<1>11. ASSUME f.at \in EndAt \cup {"script"}
       PROVE  s = <<>>
  <2>1. Len(s) \in Nat /\ (s = <<>> <=> Len(s) = 0)
        BY PushIs
  <2>2. 1 \in 1 .. Len(s) => FALSE
        BY <1>1, <1>3, <1>4, <1>11
  <2> QED  BY <2>1, <2>2
<1> QED  BY <1>5, <1>6, <1>7, <1>8, <1>9, <1>10, <1>11

------------------------------------------------------------------------------
(***************************************************************************)
(* What a stack of a thread is.                                            *)
(*                                                                         *)
(* A stack is lost when terminateAndExit replaced it.  Good says what      *)
(* stands at the bottom (the script, a listener's nc or a termination),    *)
(* and who may be where: only main runs errands (switchUser, openSshConn,  *)
(* closeSshConn, enableSshOnRoot), and a lost thread neither interrupts    *)
(* nor sends files.                                                        *)
(***************************************************************************)

Errands == SuAt \cup OsAt \cup CsAt \cup ErAt
Lost(s) == s # <<>> /\ Bot(s).at \in EndAt

\* A frame takes another place of the same function.
Alike(g, h) ==
    \/ h.at \in CmdAt /\ g.at \in CmdAt /\ g.kind = h.kind /\ g.proc = h.proc
    \/ h.at \in KbAt /\ g.at \in KbAt /\ g.proc = h.proc
    \/ h.at \in EndAt /\ g.at \in EndAt
    \/ h.at \in TdAt /\ g.at \in TdAt
    \/ h.at \in CsAt /\ g.at \in CsAt
    \/ h.at \in ErAt /\ g.at \in ErAt
    \/ h.at \in OsAt /\ g.at \in OsAt
    \/ h.at \in SfAt /\ g.at \in SfAt
    \/ h.at \in SdAt /\ (g.at \in SdAt \/ (g.at = "return" /\ g.kind = "none"))
    \/ h.at \in SuAt /\ (g.at \in SuAt \/ (g.at = "return" /\ g.kind # "none"))

Good(t, s) ==
    /\ Legal(s)
    /\ t = Main => s # <<>> /\ Bot(s).at \in EndAt \cup {"script"}
    /\ t \in Listener =>
          /\ s = <<>> \/ Lost(s) \/ (Cmd(Bot(s), {"nc"}) /\ Bot(s).proc = "tty")
          /\ ~Has(s, Errands \cup {"script"})
    /\ Lost(s) => ~Has(s, KbAt \cup SfAt)

\* A frame that moves on within its function keeps the links to it.
LEMMA AlikeLink ==
  ASSUME NEW g, NEW h, NEW c, Alike(g, h), Link(h, c)
  PROVE  Link(g, c) /\ Rank(g) = Rank(h)
<1>1. CASE h.at \in CmdAt /\ g.at \in CmdAt /\ g.kind = h.kind /\ g.proc = h.proc
  <2>1. Rank(g) = Rank(h)
        BY <1>1, RankIs
  <2>2. Role(g) = "cmd" /\ Role(h) = "cmd"
        BY <1>1, RoleIs
  <2>3. h.at \notin Low \cup OsAt
        BY <1>1 DEF CmdAt, Low, KbAt, TdAt, CsAt, ErAt, OsAt
  <2>4. Link(g, c)
        BY <1>1, <2>2, <2>3 DEF Link, Cmd, CalledAt, Low
  <2> QED  BY <2>1, <2>4
<1>2. CASE h.at \in KbAt /\ g.at \in KbAt /\ g.proc = h.proc
  <2>1. Rank(g) = Rank(h)
        BY <1>2, RankIs DEF Low
  <2>2. Role(g) = "kb" /\ Role(h) = "kb"
        BY <1>2, RoleIs
  <2>3. h.at \notin CmdAt \cup TdAt \cup CsAt \cup ErAt \cup OsAt
        BY <1>2 DEF CmdAt, KbAt, TdAt, CsAt, ErAt, OsAt
  <2>4. Link(g, c)
        BY <1>2, <2>2, <2>3 DEF Link, Cmd, CalledAt
  <2> QED  BY <2>1, <2>4
<1>3. CASE h.at \in EndAt /\ g.at \in EndAt
  <2>1. Rank(g) = Rank(h)
        BY <1>3, RankIs
  <2>2. Role(h) = "end"
        BY <1>3, RoleIs
  <2>3. h.at \notin CmdAt \cup Low \cup OsAt
        BY <1>3 DEF CmdAt, KbAt, TdAt, CsAt, ErAt, OsAt, EndAt, Low
  <2>4. FALSE
        BY <2>2, <2>3 DEF Link, Cmd, CalledAt, Low
  <2> QED  BY <2>4
<1>4. CASE h.at \in TdAt /\ g.at \in TdAt
  <2>1. Rank(g) = Rank(h)
        BY <1>4, RankIs DEF Low
  <2>2. Role(h) = "td"
        BY <1>4, RoleIs
  <2>3. h.at \notin CmdAt \cup KbAt \cup CsAt \cup ErAt \cup OsAt
        BY <1>4 DEF CmdAt, KbAt, TdAt, CsAt, ErAt, OsAt
  <2>4. Link(g, c)
        BY <1>4, <2>2, <2>3 DEF Link, Cmd, CalledAt
  <2> QED  BY <2>1, <2>4
<1>5. CASE h.at \in CsAt /\ g.at \in CsAt
  <2>1. Rank(g) = Rank(h)
        BY <1>5, RankIs DEF Low
  <2>2. Role(g) = "cs" /\ Role(h) = "cs"
        BY <1>5, RoleIs
  <2>3. h.at \notin CmdAt \cup KbAt \cup TdAt \cup ErAt \cup OsAt
        BY <1>5 DEF CmdAt, KbAt, TdAt, CsAt, ErAt, OsAt
  <2>4. Link(g, c)
        BY <1>5, <2>2, <2>3 DEF Link, Cmd, CalledAt
  <2> QED  BY <2>1, <2>4
<1>6. CASE h.at \in ErAt /\ g.at \in ErAt
  <2>1. Rank(g) = Rank(h)
        BY <1>6, RankIs DEF Low
  <2>2. Role(h) = "er"
        BY <1>6, RoleIs
  <2>3. h.at \notin CmdAt \cup KbAt \cup TdAt \cup CsAt \cup OsAt
        BY <1>6 DEF CmdAt, KbAt, TdAt, CsAt, ErAt, OsAt
  <2>4. Link(g, c)
        BY <1>6, <2>2, <2>3 DEF Link, Cmd, CalledAt
  <2> QED  BY <2>1, <2>4
<1>7. CASE h.at \in OsAt /\ g.at \in OsAt
  <2>1. Rank(g) = Rank(h)
        BY <1>7, RankIs
  <2>2. Role(g) = "os" /\ Role(h) = "os"
        BY <1>7, RoleIs
  <2>3. h.at \notin CmdAt \cup Low
        BY <1>7 DEF CmdAt, KbAt, TdAt, CsAt, ErAt, OsAt, Low
  <2>4. Link(g, c)
        BY <1>7, <2>2, <2>3 DEF Link, Cmd, CalledAt, Low
  <2> QED  BY <2>1, <2>4
<1>8. CASE h.at \in SfAt /\ g.at \in SfAt
  <2>1. Rank(g) = Rank(h)
        BY <1>8, RankIs
  <2>2. Role(g) = "sf" /\ Role(h) = "sf"
        BY <1>8, RoleIs
  <2>3. h.at \notin CmdAt \cup Low \cup OsAt
        BY <1>8 DEF CmdAt, KbAt, TdAt, CsAt, ErAt, OsAt, SfAt, Low
  <2>4. Link(g, c)
        BY <1>8, <2>2, <2>3 DEF Link, Cmd, CalledAt, Low
  <2> QED  BY <2>1, <2>4
<1>9. CASE h.at \in SdAt /\ (g.at \in SdAt \/ (g.at = "return" /\ g.kind = "none"))
  <2>1. Rank(g) = Rank(h)
        BY <1>9, RankIs
  <2>2. Role(g) = "sd" /\ Role(h) = "sd"
        BY <1>9, RoleIs
  <2>3. h.at \notin CmdAt \cup Low \cup OsAt
        BY <1>9 DEF CmdAt, KbAt, TdAt, CsAt, ErAt, OsAt, SdAt, Low
  <2>4. Link(g, c)
        BY <1>9, <2>2, <2>3 DEF Link, Cmd, CalledAt, Low
  <2> QED  BY <2>1, <2>4
<1>10. CASE h.at \in SuAt /\ (g.at \in SuAt \/ (g.at = "return" /\ g.kind # "none"))
  <2>1. Rank(g) = Rank(h)
        BY <1>10, RankIs
  <2>2. Role(g) = "su" /\ Role(h) = "su"
        BY <1>10, RoleIs
  <2>3. h.at \notin CmdAt \cup Low \cup OsAt
        BY <1>10 DEF CmdAt, KbAt, TdAt, CsAt, ErAt, OsAt, SuAt, Low
  <2>4. Link(g, c)
        BY <1>10, <2>2, <2>3 DEF Link, Cmd, CalledAt, Low
  <2> QED  BY <2>1, <2>4
<1> QED  BY <1>1, <1>2, <1>3, <1>4, <1>5, <1>6, <1>7, <1>8, <1>9, <1>10 DEF Alike

\* ... and its function.
LEMMA AlikeKeeps ==
  ASSUME NEW g, NEW h, Alike(g, h)
  PROVE  /\ g.at \in EndAt <=> h.at \in EndAt
         /\ g.at \in Errands => h.at \in Errands
         /\ g.at \in KbAt \cup SfAt => h.at \in KbAt \cup SfAt
         /\ g.at # "script"
         /\ Cmd(h, {"nc"}) => Cmd(g, {"nc"}) /\ g.proc = h.proc
  BY DEF Alike, CmdAt, KbAt, TdAt, CsAt, ErAt, OsAt, SfAt, SdAt, SuAt, EndAt, Errands, Cmd

LEMMA GoodGo ==
  ASSUME NEW t \in Thread, NEW T \in Seq(Frame), NEW h \in Frame, NEW g \in Frame,
         Good(t, Push(h, T)), Alike(g, h), FrameOK(g)
  PROVE  Good(t, Push(g, T)) /\ (Lost(Push(g, T)) <=> Lost(Push(h, T)))
<1>1. Legal(Push(g, T))
  <2>1. Legal(T) /\ (T = <<>> \/ (Link(h, Head(T)) /\ Rank(h) < Rank(Head(T))))
        BY LegalPush DEF Good
  <2> QED  BY <2>1, LegalPush, AlikeLink
<1>2. /\ g.at \in EndAt <=> h.at \in EndAt
      /\ g.at \in Errands => h.at \in Errands
      /\ g.at \in KbAt \cup SfAt => h.at \in KbAt \cup SfAt
      /\ g.at # "script"
      /\ Cmd(h, {"nc"}) => Cmd(g, {"nc"}) /\ g.proc = h.proc
      BY AlikeKeeps, Zenon
<1>3. /\ Bot(Push(g, T)) = IF T = <<>> THEN g ELSE Bot(T)
      /\ Bot(Push(h, T)) = IF T = <<>> THEN h ELSE Bot(T)
      /\ Push(g, T) # <<>> /\ Push(h, T) # <<>>
      BY BotPush, PushIs
<1>4. /\ Lost(Push(g, T)) <=> Lost(Push(h, T))
      BY <1>2, <1>3 DEF Lost
<1>5. \A A : /\ Has(Push(g, T), A) <=> (g.at \in A \/ Has(T, A))
             /\ Has(Push(h, T), A) <=> (h.at \in A \/ Has(T, A))
      BY HasPush
<1>6. t = Main => Push(g, T) # <<>> /\ Bot(Push(g, T)).at \in EndAt \cup {"script"}
  <2>1. h.at # "script"
        BY DEF Alike, CmdAt, KbAt, TdAt, CsAt, ErAt, OsAt, SfAt, SdAt, SuAt, EndAt
  <2> QED  BY <1>2, <1>3, <2>1 DEF Good
<1>7. t \in Listener =>
          /\ Push(g, T) = <<>> \/ Lost(Push(g, T)) \/ (Cmd(Bot(Push(g, T)), {"nc"}) /\ Bot(Push(g, T)).proc = "tty")
          /\ ~Has(Push(g, T), Errands \cup {"script"})
  <2>1. t \in Listener => ~Has(Push(g, T), Errands \cup {"script"})
        BY <1>2, <1>5 DEF Good
  <2>2. t \in Listener => Lost(Push(g, T)) \/ (Cmd(Bot(Push(g, T)), {"nc"}) /\ Bot(Push(g, T)).proc = "tty")
        BY <1>2, <1>3, <1>4 DEF Good
  <2> QED  BY <2>1, <2>2
<1>8. Lost(Push(g, T)) => ~Has(Push(g, T), KbAt \cup SfAt)
      BY <1>2, <1>4, <1>5 DEF Good
<1> QED  BY <1>1, <1>4, <1>6, <1>7, <1>8 DEF Good

\* Calling f from the top g of a stack.
LEMMA GoodCall ==
  ASSUME NEW t \in Thread, NEW s \in Seq(Frame), s # <<>>, NEW f \in Frame,
         Good(t, s), FrameOK(f), Link(f, Head(s)), Rank(f) < Rank(Head(s)),
         f.at \notin EndAt \cup {"script"},
         t \in Listener => f.at \notin Errands,
         f.at \in KbAt \cup SfAt => ~Lost(s)
  PROVE  Good(t, Push(f, s)) /\ (Lost(Push(f, s)) <=> Lost(s))
<1>1. Legal(Push(f, s))
      BY LegalPush DEF Good
<1>2. Bot(Push(f, s)) = Bot(s) /\ Push(f, s) # <<>>
      BY BotPush, PushIs
<1>3. \A A : Has(Push(f, s), A) <=> (f.at \in A \/ Has(s, A))
      BY HasPush
<1>4. Lost(Push(f, s)) <=> Lost(s)
      BY <1>2 DEF Lost
<1>5. t \in Listener => ~Has(Push(f, s), Errands \cup {"script"})
      BY <1>3 DEF Good
<1>6. Lost(Push(f, s)) => ~Has(Push(f, s), KbAt \cup SfAt)
      BY <1>3, <1>4 DEF Good
<1>7. /\ t = Main => Bot(Push(f, s)).at \in EndAt \cup {"script"}
      /\ t \in Listener => Lost(Push(f, s)) \/ (Cmd(Bot(Push(f, s)), {"nc"}) /\ Bot(Push(f, s)).proc = "tty")
      BY <1>2, <1>4 DEF Good
<1> QED  BY <1>1, <1>2, <1>4, <1>5, <1>6, <1>7 DEF Good

\* A return leaves a good stack.
LEMMA GoodReturn ==
  ASSUME NEW t \in Thread, NEW T \in Seq(Frame), NEW h \in Frame,
         Good(t, Push(h, T)), h.at \notin EndAt \cup {"script"}
  PROVE  Good(t, T) /\ (Lost(T) <=> Lost(Push(h, T))) /\ (t = Main => T # <<>>)
<1>1. Legal(T)
      BY LegalPush DEF Good
<1>2. Bot(Push(h, T)) = (IF T = <<>> THEN h ELSE Bot(T)) /\ Push(h, T) # <<>>
      BY BotPush, PushIs
<1>3. \A A : Has(Push(h, T), A) <=> (h.at \in A \/ Has(T, A))
      BY HasPush
<1>4. Lost(T) <=> Lost(Push(h, T))
      BY <1>2 DEF Lost
<1>5. t = Main => T # <<>> /\ Bot(T).at \in EndAt \cup {"script"}
      BY <1>2 DEF Good
<1>6. t \in Listener => ~Has(T, Errands \cup {"script"})
      BY <1>3 DEF Good
<1>7. t \in Listener => T = <<>> \/ Lost(T) \/ (Cmd(Bot(T), {"nc"}) /\ Bot(T).proc = "tty")
      BY <1>2, <1>4 DEF Good
<1>8. Lost(T) => ~Has(T, KbAt \cup SfAt)
      BY <1>3, <1>4 DEF Good
<1> QED  BY <1>1, <1>4, <1>5, <1>6, <1>7, <1>8 DEF Good

\* So does a termination.
LEMMA GoodEnd ==
  ASSUME NEW t \in Thread, NEW f \in Frame, f.at = "term"
  PROVE  /\ Good(t, <<f>>) /\ Lost(<<f>>)
         /\ Head(<<f>>) = f /\ Bot(<<f>>) = f /\ <<f>> # <<>> /\ <<f>> \in Seq(Frame)
         /\ \A A : Has(<<f>>, A) <=> f.at \in A
<1>1. Len(<<f>>) = 1 /\ <<f>>[1] = f /\ <<f>> # <<>> /\ Head(<<f>>) = f /\ <<f>> \in Seq(Frame)
      OBVIOUS
<1>2. FrameOK(f)
      BY DEF FrameOK, CmdAt, ErAt, OsAt, SdAt
<1>3. Legal(<<f>>)
      BY <1>1, <1>2 DEF Legal
<1>4. Bot(<<f>>) = f
      BY <1>1 DEF Bot
<1>5. \A A : Has(<<f>>, A) <=> f.at \in A
      BY <1>1 DEF Has
<1>6. Lost(<<f>>)
      BY <1>1, <1>4 DEF Lost, EndAt
<1>7. ~Has(<<f>>, Errands \cup {"script"}) /\ ~Has(<<f>>, KbAt \cup SfAt)
      BY <1>5 DEF Errands, SuAt, OsAt, CsAt, ErAt, KbAt, SfAt
<1> QED  BY <1>1, <1>3, <1>4, <1>5, <1>6, <1>7 DEF Good, EndAt

------------------------------------------------------------------------------
(***************************************************************************)
(* The types, and what a step leaves of a stack.                           *)
(***************************************************************************)

TypeInv ==
    /\ stack \in [Thread -> Seq(Frame)]
    /\ ret \in [Thread -> {"ok", "failed", "timeout", "asked"}]
    /\ isCurrentUserRoot \in BOOLEAN /\ isSshConn \in BOOLEAN /\ isSshRootEnabled \in BOOLEAN
    /\ attemptShutdownFailed \in BOOLEAN /\ keyboardInterruptTriggered \in BOOLEAN
    /\ terminateTargetStarted \in BOOLEAN /\ targetTearDownCalled \in BOOLEAN
    /\ exited \in BOOLEAN
    /\ sshRetries \in 0 .. LimitSsh
    /\ resendAttempts \in 0 .. LimitResend - 1
    /\ tty \in {"root", "user", "login", "rootSecret", "userSecret", "closed"}
    /\ ssh \in {"none", "rootSecret", "userSecret", "root", "user", "closed"}
    /\ poweroffs \in 0 .. 2

Stacks == \A t \in Thread : Good(t, stack[t])

To(t, s) == stack' = [stack EXCEPT ![t] = s]
Below(t) == Tail(stack[t])

\* The threads and the limits.
LEMMA Constants ==
  /\ LimitResend \in Nat \ {0} /\ LimitSsh \in Nat \ {0} /\ Interrupts \in Nat \ {0}
  /\ Main \in Thread /\ Main \notin Listener
  /\ \A t \in Thread : t = Main \/ t \in Listener
  BY LimitsAssumption DEF Thread, Listener, Main

\* A frame that moves keeps what it holds.
LEMMA Moved ==
  \A f \in Frame, a \in At :
     LET g == [f EXCEPT !.at = a]
     IN  /\ g \in Frame /\ g.at = a /\ g.kind = f.kind /\ g.eoe = f.eoe /\ g.intr = f.intr
         /\ g.proc = f.proc /\ g.n = f.n
  BY DEF Frame

LEMMA ChangedKind ==
  \A f \in Frame, k \in Kind :
     LET g == [f EXCEPT !.kind = k]
     IN  /\ g \in Frame /\ g.at = f.at /\ g.kind = k /\ g.eoe = f.eoe
         /\ g.intr = f.intr /\ g.proc = f.proc /\ g.n = f.n
  BY DEF Frame

LEMMA ChangedProc ==
  \A f \in Frame, p \in Process :
     LET g == [f EXCEPT !.proc = p]
     IN  /\ g \in Frame /\ g.at = f.at /\ g.kind = f.kind /\ g.eoe = f.eoe
         /\ g.intr = f.intr /\ g.proc = p /\ g.n = f.n
  BY DEF Frame

LEMMA ChangedEoe ==
  \A f \in Frame :
     LET g == [f EXCEPT !.eoe = FALSE]
     IN  /\ g \in Frame /\ g.at = f.at /\ g.kind = f.kind /\ g.eoe = FALSE
         /\ g.intr = f.intr /\ g.proc = f.proc /\ g.n = f.n
  BY DEF Frame

LEMMA ChangedIntr ==
  \A f \in Frame :
     LET g == [f EXCEPT !.intr = FALSE]
     IN  /\ g \in Frame /\ g.at = f.at /\ g.kind = f.kind /\ g.eoe = f.eoe
         /\ g.intr = FALSE /\ g.proc = f.proc /\ g.n = f.n
  BY DEF Frame

LEMMA ChangedN ==
  \A f \in Frame, n \in Nat :
     LET g == [f EXCEPT !.n = n]
     IN  /\ g \in Frame /\ g.at = f.at /\ g.kind = f.kind /\ g.eoe = f.eoe
         /\ g.intr = f.intr /\ g.proc = f.proc /\ g.n = n
  BY DEF Frame

LEMMA FrameIs ==
  /\ \A a \in At :
       /\ F(a) \in Frame /\ F(a).at = a /\ F(a).kind = "none" /\ F(a).eoe /\ F(a).intr
       /\ F(a).proc = "tty" /\ F(a).n = 0
  /\ \A a \in At, k \in Kind :
       /\ About(a, k) \in Frame /\ About(a, k).at = a /\ About(a, k).kind = k /\ About(a, k).n = 0
       /\ About(a, k).proc = "tty"
  /\ \A b \in BOOLEAN :
       /\ [F("term") EXCEPT !.ov = b] \in Frame /\ [F("term") EXCEPT !.ov = b].at = "term"
       /\ [F("term") EXCEPT !.ov = b].ov = b
  /\ \A p \in Process :
       /\ Interrupt(p) \in Frame /\ Interrupt(p).at = "kb" /\ Interrupt(p).n = 0
       /\ Interrupt(p).proc = p /\ Interrupt(p).kind = "none"
<1>1. \A a \in At :
       /\ F(a) \in Frame /\ F(a).at = a /\ F(a).kind = "none" /\ F(a).eoe /\ F(a).intr
       /\ F(a).proc = "tty" /\ F(a).n = 0
      BY DEF F, Frame, Kind, Process
<1>2. \A a \in At, k \in Kind :
       /\ About(a, k) \in Frame /\ About(a, k).at = a /\ About(a, k).kind = k /\ About(a, k).n = 0
       /\ About(a, k).proc = "tty"
  <2> SUFFICES ASSUME NEW a \in At, NEW k \in Kind
               PROVE  /\ About(a, k) \in Frame /\ About(a, k).at = a /\ About(a, k).kind = k /\ About(a, k).n = 0
                      /\ About(a, k).proc = "tty"
      OBVIOUS
  <2>1. F(a) \in Frame /\ F(a).at = a /\ F(a).proc = "tty" /\ F(a).n = 0
        BY <1>1
  <2> QED  BY <2>1, ChangedKind DEF About
<1>3. \A b \in BOOLEAN :
       /\ [F("term") EXCEPT !.ov = b] \in Frame /\ [F("term") EXCEPT !.ov = b].at = "term"
       /\ [F("term") EXCEPT !.ov = b].ov = b
      BY DEF F, Frame, Kind, Process, At
<1>4. \A p \in Process :
       /\ Interrupt(p) \in Frame /\ Interrupt(p).at = "kb" /\ Interrupt(p).n = 0
       /\ Interrupt(p).proc = p /\ Interrupt(p).kind = "none"
      BY DEF F, Interrupt, Frame, Kind, Process, At
<1> QED  BY <1>1, <1>2, <1>3, <1>4

LEMMA CommandIs ==
  ASSUME NEW k \in Kind
  PROVE  /\ SelfProcess \in Process
         /\ Command(k) \in Frame /\ Command(k).at = "send" /\ Command(k).kind = k
         /\ Command(k).eoe /\ Command(k).proc = SelfProcess
         /\ Try(k) \in Frame /\ Try(k).at = "send" /\ Try(k).kind = k
         /\ ~Try(k).eoe /\ Try(k).intr /\ Try(k).proc = SelfProcess
         /\ TryOnce(k) \in Frame /\ TryOnce(k).at = "send" /\ TryOnce(k).kind = k
         /\ ~TryOnce(k).eoe /\ ~TryOnce(k).intr /\ TryOnce(k).proc = SelfProcess
<1>1. SelfProcess \in Process /\ "send" \in At
      BY DEF SelfProcess, Process, At
<1>2. F("send") \in Frame /\ F("send").at = "send" /\ F("send").eoe /\ F("send").intr
      BY <1>1, FrameIs
<1> DEFINE b == About("send", k)
<1>3. b \in Frame /\ b.at = "send" /\ b.kind = k /\ b.eoe /\ b.intr
      BY <1>2, ChangedKind DEF About
<1> HIDE DEF b
<1>4. Command(k) = [b EXCEPT !.proc = SelfProcess]
      BY DEF Command, b
<1>5. /\ Command(k) \in Frame /\ Command(k).at = "send" /\ Command(k).kind = k
      /\ Command(k).eoe /\ Command(k).intr /\ Command(k).proc = SelfProcess
      BY <1>1, <1>3, <1>4, ChangedProc
<1>6. /\ Try(k) \in Frame /\ Try(k).at = "send" /\ Try(k).kind = k
      /\ ~Try(k).eoe /\ Try(k).intr /\ Try(k).proc = SelfProcess
      BY <1>5, ChangedEoe DEF Try
<1>7. /\ TryOnce(k) \in Frame /\ TryOnce(k).at = "send" /\ TryOnce(k).kind = k
      /\ ~TryOnce(k).eoe /\ ~TryOnce(k).intr /\ TryOnce(k).proc = SelfProcess
      BY <1>6, ChangedIntr DEF TryOnce
<1> QED  BY <1>1, <1>5, <1>6, <1>7

\* A thread that is somewhere has a frame there.
LEMMA Acts ==
  ASSUME TypeInv, NEW t \in Thread, NEW a, In(t, a)
  PROVE  /\ Top(t) \in Frame /\ Below(t) \in Seq(Frame) /\ stack[t] \in Seq(Frame) /\ stack[t] # <<>>
         /\ stack[t] = Push(Top(t), Below(t)) /\ Top(t).at = a /\ Head(stack[t]) = Top(t)
<1>1. stack[t] \in Seq(Frame) /\ stack[t] # <<>> /\ Top(t).at = a
      BY DEF TypeInv, In
<1> QED  BY <1>1, UnPush DEF Top, Below

\* What Become, the end of every action, makes of a stack.
LEMMA Outcome ==
  ASSUME TypeInv, NEW t \in Thread, stack[t] # <<>>
  PROVE  /\ \A f \in Frame : Become(t, <<f>>) => To(t, Push(f, Below(t)))
         /\ \A f \in Frame, g \in Frame : Become(t, <<f, g>>) => To(t, Push(f, Push(g, Below(t))))
         /\ \A a \in At : Goto(t, a) => To(t, Push([Top(t) EXCEPT !.at = a], Below(t))) /\ ret' = ret
         /\ \A f \in Frame, a \in At : Call(t, f, a) =>
               To(t, Push(f, Push([Top(t) EXCEPT !.at = a], Below(t)))) /\ ret' = ret
         /\ \A r : Return(t, r) => To(t, Below(t)) /\ ret' = [ret EXCEPT ![t] = r]
         /\ \A ov : Terminate(t, ov) => To(t, <<[F("term") EXCEPT !.ov = ov]>>) /\ ret' = ret
<1>1. stack[t] \in Seq(Frame)
      BY DEF TypeInv
<1>2. Below(t) \in Seq(Frame) /\ Top(t) \in Frame
      BY <1>1, UnPush DEF Below, Top
<1>3. \A frames : Become(t, frames) => To(t, frames \o Below(t))
      BY DEF Become, To, Below
<1>4. \A f \in Frame : Become(t, <<f>>) => To(t, Push(f, Below(t)))
      BY <1>3 DEF Push
<1>5. \A f \in Frame, g \in Frame : Become(t, <<f, g>>) => To(t, Push(f, Push(g, Below(t))))
  <2> SUFFICES ASSUME NEW f \in Frame, NEW g \in Frame, Become(t, <<f, g>>)
               PROVE  To(t, Push(f, Push(g, Below(t))))
      OBVIOUS
  <2>1. To(t, <<f, g>> \o Below(t))
        BY <1>3
  <2>2. <<f, g>> \o Below(t) = Push(f, Push(g, Below(t)))
        BY <1>2, PushTwo
  <2> QED  BY <2>1, <2>2
<1>6. \A a \in At : [Top(t) EXCEPT !.at = a] \in Frame
      BY <1>2, Moved
<1>7. \A a \in At : Goto(t, a) => To(t, Push([Top(t) EXCEPT !.at = a], Below(t))) /\ ret' = ret
      BY <1>4, <1>6 DEF Goto
<1>8. \A f \in Frame, a \in At : Call(t, f, a) =>
               To(t, Push(f, Push([Top(t) EXCEPT !.at = a], Below(t)))) /\ ret' = ret
      BY <1>5, <1>6 DEF Call
<1>9. \A r : Return(t, r) => To(t, Below(t)) /\ ret' = [ret EXCEPT ![t] = r]
  <2>1. <<>> \o Below(t) = Below(t)
        BY <1>2
  <2> QED  BY <1>3, <2>1 DEF Return
<1>10. \A ov : Terminate(t, ov) => To(t, <<[F("term") EXCEPT !.ov = ov]>>) /\ ret' = ret
      BY DEF Terminate, To
<1> QED  BY <1>4, <1>5, <1>7, <1>8, <1>9, <1>10

\* The stacks after a step.
LEMMA ToIs ==
  ASSUME TypeInv, NEW t \in Thread, NEW s \in Seq(Frame), To(t, s)
  PROVE  /\ stack' \in [Thread -> Seq(Frame)] /\ stack'[t] = s
         /\ \A u \in Thread : u # t => stack'[u] = stack[u]
  BY DEF TypeInv, To

------------------------------------------------------------------------------
(***************************************************************************)
(* A step keeps the stacks good: it moves the top frame on, calls, returns *)
(* or terminates.                                                          *)
(***************************************************************************)

\* A function goes on from a to b.
Turn(a, b) ==
    \/ a = "send" /\ b = "expect"
    \/ a = "expect" /\ b = "timedOut"
    \/ a \in KbAt /\ b \in {"kbTry", "kbSpace"}
    \/ a \in EndAt /\ b \in EndAt
    \/ a \in TdAt /\ b \in TdAt
    \/ a \in CsAt /\ b \in CsAt
    \/ a \in ErAt /\ b \in ErAt
    \/ a \in OsAt /\ b \in OsAt
    \/ a \in SfAt /\ b \in SfAt
    \/ a \in SdAt /\ b \in SdAt \cup {"return"}
    \/ a = "su" /\ b = "suOpen"
    \/ a = "suOpen" /\ b = "suOpened"
    \/ a = "suName" /\ b = "suPass"
    \/ a = "suPass" /\ b = "return"

LEMMA TurnsAlike ==
  ASSUME NEW h \in Frame, NEW g \in Frame, FrameOK(h), Turn(h.at, g.at), g.kind = h.kind,
         g.eoe = h.eoe, g.intr = h.intr, g.proc = h.proc, g.n = h.n \/ h.at \in KbAt,
         g.at = "timedOut" => g.kind \in Long
  PROVE  Alike(g, h) /\ FrameOK(g)
<1>1. CASE h.at \in {"send", "expect"}
      BY <1>1 DEF Turn, Alike, FrameOK, CmdAt, KbAt, TdAt, CsAt, ErAt, OsAt, SfAt, SdAt, SuAt,
         EndAt
<1>2. CASE h.at \in KbAt
      BY <1>2 DEF Turn, Alike, FrameOK, CmdAt, KbAt, TdAt, CsAt, ErAt, OsAt, SfAt, SdAt, SuAt,
         EndAt
<1>3. CASE h.at \in EndAt
      BY <1>3 DEF Turn, Alike, FrameOK, CmdAt, KbAt, TdAt, CsAt, ErAt, OsAt, SfAt, SdAt, SuAt,
         EndAt
<1>4. CASE h.at \in TdAt
      BY <1>4 DEF Turn, Alike, FrameOK, CmdAt, KbAt, TdAt, CsAt, ErAt, OsAt, SfAt, SdAt, SuAt,
         EndAt
<1>5. CASE h.at \in CsAt
      BY <1>5 DEF Turn, Alike, FrameOK, CmdAt, KbAt, TdAt, CsAt, ErAt, OsAt, SfAt, SdAt, SuAt,
         EndAt
<1>6. CASE h.at \in ErAt
      BY <1>6 DEF Turn, Alike, FrameOK, CmdAt, KbAt, TdAt, CsAt, ErAt, OsAt, SfAt, SdAt, SuAt,
         EndAt
<1>7. CASE h.at \in OsAt
      BY <1>7 DEF Turn, Alike, FrameOK, CmdAt, KbAt, TdAt, CsAt, ErAt, OsAt, SfAt, SdAt, SuAt,
         EndAt
<1>8. CASE h.at \in SfAt
      BY <1>8 DEF Turn, Alike, FrameOK, CmdAt, KbAt, TdAt, CsAt, ErAt, OsAt, SfAt, SdAt, SuAt,
         EndAt
<1>9. CASE h.at \in SdAt
      BY <1>9 DEF Turn, Alike, FrameOK, CmdAt, KbAt, TdAt, CsAt, ErAt, OsAt, SfAt, SdAt, SuAt,
         EndAt
<1>10. CASE h.at \in SuAt
      BY <1>10 DEF Turn, Alike, FrameOK, CmdAt, KbAt, TdAt, CsAt, ErAt, OsAt, SfAt, SdAt, SuAt,
         EndAt
<1> QED  BY <1>1, <1>2, <1>3, <1>4, <1>5, <1>6, <1>7, <1>8, <1>9, <1>10 DEF Turn, SuAt

Others(t) == \A u \in Thread : u # t => stack'[u] = stack[u]
Typed == stack' \in [Thread -> Seq(Frame)]

\* The top frame moved on.
LEMMA StacksGo ==
  ASSUME TypeInv, Stacks, NEW t \in Thread, NEW a, In(t, a), NEW g \in Frame,
         To(t, Push(g, Below(t))), Alike(g, Top(t)), FrameOK(g)
  PROVE  /\ Stacks' /\ Typed /\ Others(t)
         /\ stack'[t] = Push(g, Below(t)) /\ (Lost(stack'[t]) <=> Lost(stack[t]))
<1>1. /\ Top(t) \in Frame /\ Below(t) \in Seq(Frame) /\ stack[t] # <<>>
      /\ stack[t] = Push(Top(t), Below(t)) /\ Top(t).at = a /\ Head(stack[t]) = Top(t)
      BY Acts
<1>2. Push(g, Below(t)) \in Seq(Frame)
      BY <1>1, PushIs
<1>3. Typed /\ stack'[t] = Push(g, Below(t)) /\ Others(t)
      BY <1>2, ToIs DEF Typed, Others
<1>4. Good(t, stack[t])
      BY DEF Stacks
<1>5. Good(t, Push(g, Below(t))) /\ (Lost(Push(g, Below(t))) <=> Lost(stack[t]))
      BY <1>1, <1>4, GoodGo
<1>6. Stacks'
      BY <1>3, <1>5 DEF Stacks, Others
<1> QED  BY <1>3, <1>5, <1>6

\* The top frame called another.
LEMMA StacksCall ==
  ASSUME TypeInv, Stacks, NEW t \in Thread, NEW a, In(t, a), NEW g \in Frame, NEW f \in Frame,
         To(t, Push(f, Push(g, Below(t)))), Good(t, Push(g, Below(t))),
         Lost(Push(g, Below(t))) <=> Lost(stack[t]),
         FrameOK(f), Link(f, g), Rank(f) < Rank(g),
         f.at \notin EndAt \cup {"script"},
         t \in Listener => f.at \notin Errands,
         f.at \in KbAt \cup SfAt => ~Lost(stack[t])
  PROVE  /\ Stacks' /\ Typed /\ Others(t)
         /\ stack'[t] = Push(f, Push(g, Below(t))) /\ (Lost(stack'[t]) <=> Lost(stack[t]))
<1>1. /\ Top(t) \in Frame /\ Below(t) \in Seq(Frame) /\ stack[t] # <<>>
      /\ stack[t] = Push(Top(t), Below(t)) /\ Top(t).at = a /\ Head(stack[t]) = Top(t)
      BY Acts
<1>2. /\ Push(g, Below(t)) \in Seq(Frame) /\ Push(g, Below(t)) # <<>>
      /\ Head(Push(g, Below(t))) = g
      BY <1>1, PushIs
<1>3. Push(f, Push(g, Below(t))) \in Seq(Frame)
      BY <1>2, PushIs
<1>4. Typed /\ stack'[t] = Push(f, Push(g, Below(t))) /\ Others(t)
      BY <1>3, ToIs DEF Typed, Others
<1>5. Good(t, Push(f, Push(g, Below(t)))) /\ (Lost(Push(f, Push(g, Below(t)))) <=> Lost(stack[t]))
      BY <1>2, GoodCall
<1>6. Stacks'
      BY <1>4, <1>5 DEF Stacks, Others
<1> QED  BY <1>4, <1>5, <1>6

\* The top frame returned.
LEMMA StacksReturn ==
  ASSUME TypeInv, Stacks, NEW t \in Thread, NEW a, In(t, a), a \notin EndAt \cup {"script"},
         To(t, Below(t))
  PROVE  /\ Stacks' /\ Typed /\ Others(t)
         /\ stack'[t] = Below(t) /\ (Lost(stack'[t]) <=> Lost(stack[t]))
         /\ t = Main => Below(t) # <<>>
<1>1. /\ Top(t) \in Frame /\ Below(t) \in Seq(Frame) /\ stack[t] # <<>>
      /\ stack[t] = Push(Top(t), Below(t)) /\ Top(t).at = a /\ Head(stack[t]) = Top(t)
      BY Acts
<1>2. Typed /\ stack'[t] = Below(t) /\ Others(t)
      BY <1>1, ToIs DEF Typed, Others
<1>3. Good(t, stack[t])
      BY DEF Stacks
<1>4. Good(t, Below(t)) /\ (Lost(Below(t)) <=> Lost(stack[t])) /\ (t = Main => Below(t) # <<>>)
      BY <1>1, <1>3, GoodReturn
<1>5. Stacks'
      BY <1>2, <1>4 DEF Stacks, Others
<1> QED  BY <1>2, <1>4, <1>5

\* The thread terminates.
LEMMA StacksEnd ==
  ASSUME TypeInv, Stacks, NEW t \in Thread, NEW ov \in BOOLEAN,
         To(t, <<[F("term") EXCEPT !.ov = ov]>>)
  PROVE  /\ Stacks' /\ Typed /\ Others(t)
         /\ stack'[t] # <<>> /\ Lost(stack'[t]) /\ Head(stack'[t]).at = "term" /\ Bot(stack'[t]).at = "term"
         /\ \A A : Has(stack'[t], A) <=> "term" \in A
<1> DEFINE f == [F("term") EXCEPT !.ov = ov]
<1>1. f \in Frame /\ f.at = "term"
      BY FrameIs
<1> HIDE DEF f
<1>2. /\ Good(t, <<f>>) /\ Lost(<<f>>)
      /\ Head(<<f>>) = f /\ Bot(<<f>>) = f /\ <<f>> # <<>> /\ <<f>> \in Seq(Frame)
      /\ \A A : Has(<<f>>, A) <=> f.at \in A
      BY <1>1, GoodEnd
<1>3. To(t, <<f>>)
      BY DEF f
<1>4. Typed /\ stack'[t] = <<f>> /\ Others(t)
      BY <1>2, <1>3, ToIs DEF Typed, Others
<1>5. Stacks'
      BY <1>2, <1>4 DEF Stacks, Others
<1> QED  BY <1>1, <1>2, <1>4, <1>5

------------------------------------------------------------------------------
(***************************************************************************)
(* The same four outcomes as facts about the actions.  Went, Called,       *)
(* Returned and Ended say what an action did to its thread.                *)
(***************************************************************************)

Went(t, b) ==
    /\ Others(t) /\ ret' = ret
    /\ stack'[t] = Push([Top(t) EXCEPT !.at = b], Below(t))
    /\ Lost(stack'[t]) <=> Lost(stack[t])
Called(t, f, b) ==
    /\ Others(t) /\ ret' = ret
    /\ stack'[t] = Push(f, Push([Top(t) EXCEPT !.at = b], Below(t)))
    /\ Lost(stack'[t]) <=> Lost(stack[t])
Returned(t, r) ==
    /\ Others(t) /\ ret' = [ret EXCEPT ![t] = r]
    /\ stack'[t] = Below(t)
    /\ Lost(stack'[t]) <=> Lost(stack[t])
    /\ t = Main => Below(t) # <<>>
Ended(t) ==
    /\ Others(t) /\ ret' = ret
    /\ stack'[t] # <<>> /\ Lost(stack'[t]) /\ Head(stack'[t]).at = "term" /\ Bot(stack'[t]).at = "term"
    /\ \A A : Has(stack'[t], A) <=> "term" \in A
Kept == Stacks' /\ Typed

LEMMA TopIs_OK ==
  ASSUME TypeInv, Stacks, NEW t \in Thread, NEW a, In(t, a)
  PROVE  /\ FrameOK(Top(t)) /\ Legal(stack[t])
         /\ Below(t) # <<>> => Link(Top(t), Head(Below(t))) /\ Rank(Top(t)) < Rank(Head(Below(t)))
<1>1. /\ Top(t) \in Frame /\ Below(t) \in Seq(Frame) /\ stack[t] = Push(Top(t), Below(t))
      BY Acts
<1>2. Legal(stack[t])
      BY DEF Stacks, Good
<1> QED  BY <1>1, <1>2, LegalPush

LEMMA StepGo ==
  ASSUME TypeInv, Stacks, NEW t \in Thread, NEW a, NEW b \in At, In(t, a), Goto(t, b),
         Turn(a, b), b # "timedOut"
  PROVE  Kept /\ Went(t, b)
<1> DEFINE g == [Top(t) EXCEPT !.at = b]
<1>1. Top(t) \in Frame /\ Top(t).at = a /\ stack[t] # <<>>
      BY Acts
<1>2. /\ g \in Frame /\ g.at = b /\ g.kind = Top(t).kind /\ g.eoe = Top(t).eoe /\ g.intr = Top(t).intr
      /\ g.proc = Top(t).proc /\ g.n = Top(t).n
      BY <1>1, Moved
<1>3. To(t, Push(g, Below(t))) /\ ret' = ret
      BY <1>1, Outcome
<1>4. FrameOK(Top(t))
      BY TopIs_OK
<1> HIDE DEF g
<1>5. Alike(g, Top(t)) /\ FrameOK(g)
      BY <1>1, <1>2, <1>4, TurnsAlike
<1>6. /\ Stacks' /\ Typed /\ Others(t)
      /\ stack'[t] = Push(g, Below(t)) /\ (Lost(stack'[t]) <=> Lost(stack[t]))
      BY <1>2, <1>3, <1>5, StacksGo
<1> QED  BY <1>3, <1>6 DEF Went, Kept, g

LEMMA StepCall ==
  ASSUME TypeInv, Stacks, NEW t \in Thread, NEW a, NEW b \in At, NEW f \in Frame,
         In(t, a), Call(t, f, b),
         Turn(a, b), b = "timedOut" => Top(t).kind \in Long,
         FrameOK(f),
         \A g \in Frame : (g.at = b /\ g.kind = Top(t).kind /\ g.proc = Top(t).proc)
                              => Link(f, g) /\ Rank(f) < Rank(g),
         f.at \notin EndAt \cup {"script"},
         t \in Listener => f.at \notin Errands,
         f.at \in KbAt \cup SfAt => ~Lost(stack[t])
  PROVE  Kept /\ Called(t, f, b)
<1> DEFINE g == [Top(t) EXCEPT !.at = b]
<1>1. /\ Top(t) \in Frame /\ Below(t) \in Seq(Frame) /\ stack[t] # <<>>
      /\ stack[t] = Push(Top(t), Below(t)) /\ Top(t).at = a /\ Head(stack[t]) = Top(t)
      BY Acts
<1>2. /\ g \in Frame /\ g.at = b /\ g.kind = Top(t).kind /\ g.eoe = Top(t).eoe /\ g.intr = Top(t).intr
      /\ g.proc = Top(t).proc /\ g.n = Top(t).n
      BY <1>1, Moved
<1>3. To(t, Push(f, Push(g, Below(t)))) /\ ret' = ret
      BY <1>1, Outcome
<1>4. FrameOK(Top(t))
      BY TopIs_OK
<1> HIDE DEF g
<1>5. Alike(g, Top(t)) /\ FrameOK(g)
      BY <1>1, <1>2, <1>4, TurnsAlike
<1>6. Good(t, stack[t])
      BY DEF Stacks
<1>7. Good(t, Push(g, Below(t))) /\ (Lost(Push(g, Below(t))) <=> Lost(stack[t]))
      BY <1>1, <1>2, <1>5, <1>6, GoodGo
<1>8. Link(f, g) /\ Rank(f) < Rank(g)
      BY <1>2
<1>9. /\ Stacks' /\ Typed /\ Others(t)
      /\ stack'[t] = Push(f, Push(g, Below(t))) /\ (Lost(stack'[t]) <=> Lost(stack[t]))
      BY <1>2, <1>3, <1>7, <1>8, StacksCall
<1> QED  BY <1>3, <1>9 DEF Called, Kept, g

LEMMA StepReturn ==
  ASSUME TypeInv, Stacks, NEW t \in Thread, NEW a, NEW r, In(t, a),
         a \notin EndAt \cup {"script"},
         Return(t, r)
  PROVE  Kept /\ Returned(t, r)
<1>1. stack[t] # <<>>
      BY Acts
<1>2. To(t, Below(t)) /\ ret' = [ret EXCEPT ![t] = r]
      BY <1>1, Outcome
<1>3. /\ Stacks' /\ Typed /\ Others(t)
      /\ stack'[t] = Below(t) /\ (Lost(stack'[t]) <=> Lost(stack[t]))
      /\ t = Main => Below(t) # <<>>
      BY <1>2, StacksReturn
<1> QED  BY <1>2, <1>3 DEF Kept, Returned

LEMMA StepEnd ==
  ASSUME TypeInv, Stacks, NEW t \in Thread, NEW a, NEW ov \in BOOLEAN, In(t, a),
         Terminate(t, ov)
  PROVE  Kept /\ Ended(t)
<1>1. stack[t] # <<>>
      BY Acts
<1>2. To(t, <<[F("term") EXCEPT !.ov = ov]>>) /\ ret' = ret
      BY <1>1, Outcome
<1> QED  BY <1>2, StacksEnd DEF Kept, Ended

\* A command can be called wherever a command of its kind is expected.
Command_OK(f, k) ==
    /\ f \in Frame /\ f.at = "send" /\ f.kind = k /\ f.at \in CmdAt /\ Cmd(f, {k})
    /\ f.at \notin EndAt \cup {"script"} /\ f.at \notin Errands /\ f.at \notin KbAt \cup SfAt
    /\ FrameOK(f) /\ Rank(f) = IF k \in Long THEN 3 ELSE 1

LEMMA Commands_OK ==
  /\ \A k \in Kind \ {"nc"} : (k = "exit" => ~isSshConn) =>
         Command_OK(Command(k), k) /\ Command_OK(TryOnce(k), k)
  /\ Command_OK(Try("exists"), "exists")
  /\ FrameOK(Try("nc")) /\ Cmd(Try("nc"), {"nc"})
<1>1. "send" \in CmdAt /\ "send" \notin Errands /\ "send" \notin EndAt \cup {"script"}
      /\ "send" \notin KbAt \cup SfAt
      BY DEF CmdAt, Errands, SuAt, OsAt, CsAt, ErAt, EndAt, KbAt, SfAt
<1>2. ASSUME NEW k \in Kind, NEW f \in Frame, f.at = "send", f.kind = k, f.eoe \/ ~f.intr \/ k \in Long,
             k = "nc" => ~f.eoe /\ f.intr, k = "exit" => f.proc = "tty"
      PROVE  FrameOK(f) /\ Cmd(f, {k}) /\ Rank(f) = IF k \in Long THEN 3 ELSE 1
  <2>1. Rank(f) = IF k \in Long THEN 3 ELSE 1
        BY <1>1, <1>2, RankIs
  <2>2. FrameOK(f)
        BY <1>2 DEF FrameOK, OsAt, ErAt, SdAt
  <2> QED  BY <1>1, <1>2, <2>1, <2>2 DEF Cmd
<1>3. ASSUME NEW k \in Kind \ {"nc"}, k = "exit" => ~isSshConn
      PROVE  Command_OK(Command(k), k) /\ Command_OK(TryOnce(k), k)
  <2>1. /\ Command(k) \in Frame /\ Command(k).at = "send" /\ Command(k).kind = k
        /\ Command(k).eoe
        /\ TryOnce(k) \in Frame /\ TryOnce(k).at = "send" /\ TryOnce(k).kind = k
        /\ ~TryOnce(k).intr
        BY CommandIs
  <2>2. k = "exit" => Command(k).proc = "tty" /\ TryOnce(k).proc = "tty"
        BY <1>3, CommandIs DEF SelfProcess
  <2> QED  BY <1>1, <1>2, <2>1, <2>2 DEF Command_OK
<1>4. /\ "exists" \in Kind /\ "nc" \in Kind /\ "exists" \in Long /\ "nc" \in Long
      /\ "exists" # "exit" /\ "nc" # "exit"
      BY DEF Kind, Long
<1>5. /\ Try("exists") \in Frame /\ Try("exists").at = "send" /\ Try("exists").kind = "exists"
      /\ ~Try("exists").eoe /\ Try("exists").intr
      /\ Try("nc") \in Frame /\ Try("nc").at = "send" /\ Try("nc").kind = "nc"
      /\ ~Try("nc").eoe /\ Try("nc").intr
      BY <1>4, CommandIs
<1>6. Command_OK(Try("exists"), "exists")
  <2> DEFINE f == Try("exists")
  <2> HIDE DEF f
  <2>1. f \in Frame /\ f.at = "send" /\ f.kind = "exists" /\ f.intr
        BY <1>5 DEF f
  <2>2. FrameOK(f) /\ Cmd(f, {"exists"}) /\ Rank(f) = 3
        BY <1>2, <1>4, <2>1
  <2>3. Command_OK(f, "exists")
        BY <1>1, <1>4, <2>1, <2>2 DEF Command_OK
  <2> QED  BY <2>3 DEF f
<1>7. FrameOK(Try("nc")) /\ Cmd(Try("nc"), {"nc"})
  <2> DEFINE f == Try("nc")
  <2> HIDE DEF f
  <2>1. f \in Frame /\ f.at = "send" /\ f.kind = "nc" /\ ~f.eoe /\ f.intr
        BY <1>5 DEF f
  <2>2. FrameOK(f) /\ Cmd(f, {"nc"})
        BY <1>2, <1>4, <2>1
  <2> QED  BY <2>2 DEF f
<1> QED  BY <1>3, <1>6, <1>7

\* Exists and nc are called by sendFile and by the thread of a listener.
LEMMA LongInOrder ==
  ASSUME TypeInv, Stacks, NEW t \in Thread, NEW a \in CmdAt, In(t, a), Top(t).kind \in Long
  PROVE  ~Lost(stack[t])
<1>1. /\ Top(t) \in Frame /\ Below(t) \in Seq(Frame) /\ stack[t] = Push(Top(t), Below(t)) /\ Top(t).at = a
      BY Acts
<1>2. Good(t, stack[t])
      BY DEF Stacks
<1>3. CASE Below(t) = <<>>
  <2>1. Bot(stack[t]) = Top(t)
        BY <1>1, <1>3, BotPush
  <2> QED  BY <1>1, <2>1 DEF Lost, CmdAt, EndAt
<1>4. CASE Below(t) # <<>>
  <2>1. Link(Top(t), Head(Below(t)))
        BY <1>4, TopIs_OK
  <2>2. Role(Top(t)) = "cmd"
        BY <1>1, RoleIs
  <2>3. Head(Below(t)).at \in {"sfExists", "script"}
        BY <1>1, <2>1, <2>2 DEF Link, Cmd, Long, CmdAt, KbAt, TdAt, CsAt, ErAt, OsAt
  <2>4. Head(Below(t)) \in Frame /\ Tail(Below(t)) \in Seq(Frame) /\ Below(t) = Push(Head(Below(t)), Tail(Below(t)))
        BY <1>1, <1>4, UnPush
  <2>5. CASE Head(Below(t)).at = "sfExists"
    <3>1. Head(Below(t)).at \in KbAt \cup SfAt
          BY <2>5 DEF SfAt
    <3>2. Has(Below(t), KbAt \cup SfAt)
          BY <2>4, <3>1, HasPush
    <3>3. Has(stack[t], KbAt \cup SfAt)
          BY <1>1, <3>2, HasPush
    <3> QED  BY <1>2, <3>3 DEF Good
  <2>6. CASE Head(Below(t)).at = "script"
    <3>1. Legal(Below(t))
          BY <1>1, <1>2, LegalPush DEF Good
    <3>2. Tail(Below(t)) = <<>>
          BY <2>4, <2>6, <3>1, NoSecond
    <3>3. Bot(Below(t)) = Head(Below(t))
          BY <2>4, <3>2, BotPush
    <3>4. Bot(stack[t]) = Head(Below(t))
          BY <1>1, <1>4, <3>3, BotPush
    <3> QED  BY <2>6, <3>4 DEF Lost, EndAt
  <2> QED  BY <2>3, <2>5, <2>6
<1> QED  BY <1>3, <1>4

------------------------------------------------------------------------------
(***************************************************************************)
(* Which of the four every action does, action by action: the commands     *)
(* (runCommand, expectFromTarget) and keyboardInterrupt.                   *)
(***************************************************************************)

\* What a frame holds where it is.
LEMMA KindAt ==
  ASSUME TypeInv, Stacks, NEW t \in Thread
  PROVE  /\ \A a \in SdAt : In(t, a) => Top(t).kind = "none"
         /\ In(t, "suPass") => Top(t).kind # "none"
         /\ In(t, "suName") => Top(t).kind \in {"root", "user"}
         /\ \A a \in OsAt : In(t, a) => Top(t).kind \in {"root", "user"}
         /\ In(t, "erDone") => Top(t).n = 0
<1>1. \A a : In(t, a) => FrameOK(Top(t)) /\ Top(t).at = a
      BY TopIs_OK, Acts
<1> QED  BY <1>1 DEF FrameOK, ErAt

LEMMA SendsMoves ==
  ASSUME TypeInv, Stacks, NEW t \in Thread, Sends(t)
  PROVE  /\ Kept /\ In(t, "send")
         /\ Went(t, "expect") \/ (Screen(Top(t).proc) = "closed" /\ Top(t).eoe /\ Ended(t))
<1>1. ASSUME In(t, "send"), Goto(t, "expect")
      PROVE  Kept /\ Went(t, "expect")
  <2>1. Turn("send", "expect") /\ "expect" \in At
        BY DEF Turn, At, KbAt, EndAt, TdAt, CsAt, ErAt, OsAt, SfAt, SdAt
  <2> QED  BY <1>1, <2>1, StepGo
<1>2. ASSUME In(t, "send"), Terminate(t, FALSE)
      PROVE  Kept /\ Ended(t)
      BY <1>2, StepEnd
<1> QED  BY <1>1, <1>2 DEF Sends

LEMMA AnswersMoves ==
  ASSUME TypeInv, Stacks, NEW t \in Thread, Answers(t)
  PROVE  /\ Kept /\ In(t, "expect")
         /\ Screen(Top(t).proc) # "closed" /\ Answer(Top(t).kind, Screen(Top(t).proc)) # "silent"
         /\ Shows(Top(t).proc, Answer(Top(t).kind, Screen(Top(t).proc)))
         /\ \E r \in {"ok", "failed", "asked"} : (r = "failed" => Top(t).kind = "exists") /\ Returned(t, r)
<1>1. /\ In(t, "expect")
      /\ Screen(Top(t).proc) # "closed" /\ Answer(Top(t).kind, Screen(Top(t).proc)) # "silent"
      /\ Shows(Top(t).proc, Answer(Top(t).kind, Screen(Top(t).proc)))
      BY DEF Answers
<1>2. PICK r \in {"ok", "failed", "asked"} : (r = "failed" => Top(t).kind = "exists") /\ Return(t, r)
      BY DEF Answers
<1>3. Kept /\ Returned(t, r)
      BY <1>1, <1>2, StepReturn DEF EndAt
<1> QED  BY <1>1, <1>2, <1>3

LEMMA TimesOutMoves ==
  ASSUME TypeInv, Stacks, NEW t \in Thread, TimesOut(t)
  PROVE  /\ Kept /\ In(t, "expect") /\ Screen(Top(t).proc) # "closed"
         /\ \/ Top(t).eoe /\ Ended(t)
            \/ ~Top(t).eoe /\ Top(t).intr /\ Top(t).kind \in Long /\ ~Lost(stack[t]) /\ Called(t, Interrupt(Top(t).proc), "timedOut")
            \/ ~Top(t).eoe /\ ~Top(t).intr /\ Returned(t, "timeout")
<1>1. /\ In(t, "expect") /\ Screen(Top(t).proc) # "closed"
      /\ \/ Top(t).eoe /\ Terminate(t, Top(t).ov)
         \/ ~Top(t).eoe /\ Top(t).intr /\ Call(t, Interrupt(Top(t).proc), "timedOut")
         \/ ~Top(t).eoe /\ ~Top(t).intr /\ Return(t, "timeout")
      BY DEF TimesOut
<1>2. Top(t) \in Frame /\ Top(t).at = "expect" /\ FrameOK(Top(t)) /\ Top(t).ov \in BOOLEAN
      BY <1>1, Acts, TopIs_OK DEF Frame
<1>3. ASSUME ~Top(t).eoe, Top(t).intr
      PROVE  Top(t).kind \in Long /\ ~Lost(stack[t])
  <2>1. Top(t).kind \in Long
        BY <1>2, <1>3 DEF FrameOK
  <2> QED  BY <1>1, <2>1, LongInOrder DEF CmdAt
<1>4. ASSUME In(t, "expect"), Call(t, Interrupt(Top(t).proc), "timedOut"), ~Top(t).eoe,
             Top(t).intr
      PROVE  Kept /\ Called(t, Interrupt(Top(t).proc), "timedOut")
  <2>1. Turn("expect", "timedOut") /\ "timedOut" \in At
        BY DEF Turn, At, KbAt, EndAt, TdAt, CsAt, ErAt, OsAt, SfAt, SdAt
  <2>2. Top(t).proc \in Process
        BY <1>2 DEF Frame
  <2>3. Interrupt(Top(t).proc) \in Frame /\ Interrupt(Top(t).proc).at = "kb" /\ Interrupt(Top(t).proc).n = 0 /\ Interrupt(Top(t).proc).proc = Top(t).proc /\ Interrupt(Top(t).proc).kind = "none"
        BY <2>2, FrameIs
  <2>4. /\ FrameOK(Interrupt(Top(t).proc)) /\ Interrupt(Top(t).proc).at \in KbAt
        /\ Interrupt(Top(t).proc).at \notin EndAt \cup {"script"} /\ Interrupt(Top(t).proc).at \notin Errands
        BY <2>3 DEF FrameOK, CmdAt, OsAt, SdAt, EndAt, KbAt, Errands, SuAt, CsAt, ErAt
  <2>5. ASSUME NEW g \in Frame, g.at = "timedOut", g.kind = Top(t).kind, g.proc = Top(t).proc
        PROVE  Link(Interrupt(Top(t).proc), g) /\ Rank(Interrupt(Top(t).proc)) < Rank(g)
    <3>1. Link(Interrupt(Top(t).proc), g)
          BY <1>4, <2>3, <2>4, <2>5 DEF Link
    <3>2. Rank(Interrupt(Top(t).proc)) < Rank(g)
          BY <1>4, <2>3, <2>4, <2>5, <1>3, RankIs DEF Low, CmdAt, KbAt, EndAt, TdAt, CsAt, ErAt,
             OsAt, SfAt, SdAt, SuAt, Long
    <3> QED  BY <3>1, <3>2
  <2>6. ~Lost(stack[t])
        BY <1>4, <1>3
  <2> QED  BY <1>4, <1>3, <2>1, <2>3, <2>4, <2>5, <2>6, StepCall
<1>5. ASSUME In(t, "expect"), Terminate(t, Top(t).ov)
      PROVE  Kept /\ Ended(t)
      BY <1>5, <1>2, StepEnd
<1>6. ASSUME In(t, "expect"), Return(t, "timeout")
      PROVE  Kept /\ Returned(t, "timeout")
      BY <1>6, StepReturn DEF EndAt
<1> QED  BY <1>1, <1>3, <1>4, <1>5, <1>6

LEMMA ResolvedMoves ==
  ASSUME TypeInv, Stacks, NEW t \in Thread, Resolved(t)
  PROVE  Kept /\ In(t, "timedOut") /\ Returned(t, "timeout")
<1>1. ASSUME In(t, "timedOut"), Return(t, "timeout")
      PROVE  Kept /\ Returned(t, "timeout")
      BY <1>1, StepReturn DEF EndAt
<1> QED  BY <1>1 DEF Resolved

LEMMA EofMoves ==
  ASSUME TypeInv, Stacks, NEW t \in Thread, Eof(t)
  PROVE  /\ Kept /\ In(t, "expect") /\ Screen(Top(t).proc) = "closed"
         /\ \/ Top(t).kind \in {"poweroff", "quit", "sshExit"} /\ Returned(t, "ok")
            \/ Top(t).kind \in {"sshPrompt", "sshYes"} /\ Returned(t, "failed")
            \/ Top(t).kind \notin {"poweroff", "quit", "sshExit", "sshPrompt", "sshYes"} /\ Ended(t)
<1>1. /\ In(t, "expect") /\ Screen(Top(t).proc) = "closed"
      /\ \/ Top(t).kind \in {"poweroff", "quit", "sshExit"} /\ Return(t, "ok")
         \/ Top(t).kind \in {"sshPrompt", "sshYes"} /\ Return(t, "failed")
         \/ Top(t).kind \notin {"poweroff", "quit", "sshExit", "sshPrompt", "sshYes"} /\ Terminate(t, Top(t).ov)
      BY DEF Eof
<1>2. Top(t).ov \in BOOLEAN
      BY <1>1, Acts DEF Frame
<1>3. ASSUME In(t, "expect"), Return(t, "ok")
      PROVE  Kept /\ Returned(t, "ok")
      BY <1>3, StepReturn DEF EndAt
<1>4. ASSUME In(t, "expect"), Return(t, "failed")
      PROVE  Kept /\ Returned(t, "failed")
      BY <1>4, StepReturn DEF EndAt
<1>5. ASSUME In(t, "expect"), Terminate(t, Top(t).ov)
      PROVE  Kept /\ Ended(t)
      BY <1>5, <1>2, StepEnd
<1> QED  BY <1>1, <1>3, <1>4, <1>5

LEMMA InterruptStartsMoves ==
  ASSUME TypeInv, Stacks, NEW t \in Thread, InterruptStarts(t)
  PROVE  /\ Kept /\ In(t, "kb")
         /\ \/ /\ terminateTargetStarted /\ Top(t).proc = SelfProcess /\ Returned(t, "ok")
               /\ keyboardInterruptTriggered' = keyboardInterruptTriggered
            \/ /\ keyboardInterruptTriggered /\ Ended(t)
               /\ keyboardInterruptTriggered' = keyboardInterruptTriggered
            \/ /\ ~(terminateTargetStarted /\ Top(t).proc = SelfProcess) /\ ~keyboardInterruptTriggered
               /\ keyboardInterruptTriggered' /\ Went(t, "kbTry")
<1>1. ASSUME In(t, "kb"), Return(t, "ok")
      PROVE  Kept /\ Returned(t, "ok")
      BY <1>1, StepReturn DEF EndAt
<1>2. ASSUME In(t, "kb"), Terminate(t, TRUE)
      PROVE  Kept /\ Ended(t)
      BY <1>2, StepEnd
<1>3. ASSUME In(t, "kb"), Goto(t, "kbTry")
      PROVE  Kept /\ Went(t, "kbTry")
  <2>1. Turn("kb", "kbTry") /\ "kbTry" \in At
        BY DEF Turn, At, KbAt, EndAt, TdAt, CsAt, ErAt, OsAt, SfAt, SdAt
  <2> QED  BY <1>3, <2>1, StepGo
<1> QED  BY <1>1, <1>2, <1>3 DEF InterruptStarts

\* A command of keyboardInterrupt.
LEMMA OnIs ==
  ASSUME TypeInv, NEW t \in Thread, In(t, "kbTry")
  PROVE  /\ Command_OK(On(TryOnce("break"), t), "break") /\ On(TryOnce("break"), t).proc = Top(t).proc
         /\ Command_OK(On(Command("plain"), t), "plain") /\ On(Command("plain"), t).proc = Top(t).proc
<1>1. Top(t) \in Frame /\ Top(t).proc \in Process
      BY Acts DEF Frame
<1>2. Command_OK(TryOnce("break"), "break") /\ Command_OK(Command("plain"), "plain")
      BY Commands_OK DEF Kind
<1>3. ASSUME NEW f, NEW k, Command_OK(f, k), k \notin {"nc", "exit"}
      PROVE  Command_OK(On(f, t), k) /\ On(f, t).proc = Top(t).proc
  <2>1. LET g == [f EXCEPT !.proc = Top(t).proc]
        IN  /\ g \in Frame /\ g.at = f.at /\ g.kind = f.kind /\ g.eoe = f.eoe
            /\ g.intr = f.intr /\ g.proc = Top(t).proc /\ g.n = f.n
        BY <1>1, <1>3, ChangedProc DEF Command_OK
  <2> DEFINE g == On(f, t)
  <2>2. /\ g \in Frame /\ g.at = f.at /\ g.kind = f.kind /\ g.eoe = f.eoe
        /\ g.intr = f.intr /\ g.proc = Top(t).proc /\ g.n = f.n
        BY <2>1 DEF On
  <2> HIDE DEF g
  <2>3. FrameOK(g)
        BY <1>3, <2>2 DEF FrameOK, Command_OK
  <2>4. Rank(g) = IF k \in Long THEN 3 ELSE 1
        BY <1>3, <2>2, RankIs DEF Command_OK
  <2>5. Command_OK(g, k)
        BY <1>3, <2>2, <2>3, <2>4 DEF Command_OK, Cmd
  <2> QED  BY <2>2, <2>5 DEF g
<1> QED  BY <1>2, <1>3

TriesAgain(t) ==
    /\ Others(t) /\ ret' = ret
    /\ Lost(stack'[t]) <=> Lost(stack[t])
    /\ \E g \in Frame :
          /\ stack'[t] = Push(On(TryOnce("break"), t), Push(g, Below(t)))
          /\ g.at = "kbTry" /\ g.proc = Top(t).proc /\ g.kind = Top(t).kind /\ g.n = Top(t).n + 1

LEMMA InterruptTriesMoves ==
  ASSUME TypeInv, Stacks, NEW t \in Thread, InterruptTries(t)
  PROVE  /\ Kept /\ In(t, "kbTry")
         /\ \/ (Top(t).n = 0 \/ ret[t] = "timeout") /\ TriesAgain(t)
            \/ Top(t).n > 0 /\ Called(t, On(Command("plain"), t), "kbSpace")
            \/ Top(t).n > 0 /\ Went(t, "kbSpace")
<1>1. In(t, "kbTry")
      BY DEF InterruptTries
<1>2. /\ Top(t) \in Frame /\ Top(t).at = "kbTry" /\ stack[t] # <<>> /\ Below(t) \in Seq(Frame)
      /\ stack[t] = Push(Top(t), Below(t)) /\ FrameOK(Top(t)) /\ Good(t, stack[t])
      BY <1>1, Acts, TopIs_OK DEF Stacks
<1>3. /\ Command_OK(On(TryOnce("break"), t), "break") /\ On(TryOnce("break"), t).proc = Top(t).proc
      /\ Command_OK(On(Command("plain"), t), "plain") /\ On(Command("plain"), t).proc = Top(t).proc
      BY <1>1, OnIs
<1>4. ~Lost(stack[t])
  <2>1. Has(stack[t], KbAt \cup SfAt)
        BY <1>2, HasPush DEF KbAt
  <2> QED  BY <1>2, <2>1 DEF Good
<1>5. ASSUME Become(t, <<On(TryOnce("break"), t), [Top(t) EXCEPT !.n = @ + 1]>>), ret' = ret
      PROVE  Kept /\ TriesAgain(t)
  <2> DEFINE f == On(TryOnce("break"), t)  g == [Top(t) EXCEPT !.n = Top(t).n + 1]
  <2>1. Top(t).n \in Nat /\ Top(t).n + 1 \in Nat
        BY <1>2 DEF Frame
  <2>2. /\ g \in Frame /\ g.at = "kbTry" /\ g.kind = Top(t).kind /\ g.eoe = Top(t).eoe
        /\ g.intr = Top(t).intr /\ g.proc = Top(t).proc /\ g.n = Top(t).n + 1
        BY <1>2, <2>1, ChangedN
  <2>3. Become(t, <<f, g>>)
        BY <1>5
  <2> HIDE DEF g, f
  <2>4. f \in Frame /\ f.at = "send" /\ f.kind = "break" /\ f.proc = Top(t).proc
        /\ FrameOK(f) /\ Rank(f) = 1
        /\ Cmd(f, {"break"}) /\ f.at \notin EndAt \cup {"script"} /\ f.at \notin Errands
        /\ f.at \notin KbAt \cup SfAt
        BY <1>3 DEF Command_OK, Long, f
  <2>5. To(t, Push(f, Push(g, Below(t))))
        BY <1>2, <2>2, <2>3, <2>4, Outcome
  <2>6. Alike(g, Top(t)) /\ FrameOK(g)
        BY <1>2, <2>2 DEF Alike, FrameOK, KbAt, CmdAt, OsAt, ErAt, SdAt
  <2>7. Good(t, Push(g, Below(t))) /\ (Lost(Push(g, Below(t))) <=> Lost(stack[t]))
        BY <1>2, <2>2, <2>6, GoodGo
  <2>8. Link(f, g) /\ Rank(f) < Rank(g)
    <3>1. Link(f, g)
          BY <2>2, <2>4 DEF Link
    <3>2. Rank(g) = 2
          BY <2>2, RankIs DEF Low, KbAt
    <3> QED  BY <2>4, <3>1, <3>2
  <2>9. /\ Stacks' /\ Typed /\ Others(t)
        /\ stack'[t] = Push(f, Push(g, Below(t))) /\ (Lost(stack'[t]) <=> Lost(stack[t]))
        BY <1>1, <2>2, <2>4, <2>5, <2>7, <2>8, StacksCall
  <2>10. /\ stack'[t] = Push(On(TryOnce("break"), t), Push(g, Below(t)))
         BY <2>9 DEF f
  <2> QED  BY <1>5, <2>2, <2>9, <2>10 DEF Kept, TriesAgain
<1>6. ASSUME In(t, "kbTry"), Call(t, On(Command("plain"), t), "kbSpace")
      PROVE  Kept /\ Called(t, On(Command("plain"), t), "kbSpace")
  <2>1. Turn("kbTry", "kbSpace") /\ "kbSpace" \in At
        BY DEF Turn, At, KbAt, EndAt, TdAt, CsAt, ErAt, OsAt, SfAt, SdAt
  <2>2. Command_OK(On(Command("plain"), t), "plain") /\ On(Command("plain"), t).proc = Top(t).proc
        BY <1>3
  <2>3. ASSUME NEW g \in Frame, g.at = "kbSpace", g.kind = Top(t).kind, g.proc = Top(t).proc
        PROVE  Link(On(Command("plain"), t), g) /\ Rank(On(Command("plain"), t)) < Rank(g)
    <3>1. Link(On(Command("plain"), t), g)
          BY <1>6, <2>2, <2>3, KindAt DEF Link, Command_OK, Cmd
    <3>2. Rank(On(Command("plain"), t)) < Rank(g)
          BY <2>2, <2>3, RankIs DEF Command_OK, Low, CmdAt, KbAt, EndAt, TdAt, CsAt, ErAt, OsAt,
             SfAt, SdAt, SuAt, Long
    <3> QED  BY <3>1, <3>2
  <2> QED  BY <1>6, <2>1, <2>2, <2>3, StepCall DEF Command_OK
<1>7. ASSUME In(t, "kbTry"), Goto(t, "kbSpace")
      PROVE  Kept /\ Went(t, "kbSpace")
  <2>1. Turn("kbTry", "kbSpace") /\ "kbSpace" \in At
        BY DEF Turn, At, KbAt, EndAt, TdAt, CsAt, ErAt, OsAt, SfAt, SdAt
  <2> QED  BY <1>7, <2>1, StepGo
<1>8. Top(t).n \in Nat
      BY <1>2 DEF Frame
<1> QED  BY <1>1, <1>5, <1>6, <1>7, <1>8 DEF InterruptTries

LEMMA InterruptEndsMoves ==
  ASSUME TypeInv, Stacks, NEW t \in Thread, InterruptEnds(t)
  PROVE  Kept /\ In(t, "kbSpace") /\ Returned(t, "ok")
<1>1. ASSUME In(t, "kbSpace"), Return(t, "ok")
      PROVE  Kept /\ Returned(t, "ok")
      BY <1>1, StepReturn DEF EndAt
<1> QED  BY <1>1 DEF InterruptEnds

------------------------------------------------------------------------------
(***************************************************************************)
(* The same for terminateAndExit, shutdown, tearDown, switchUser,          *)
(* openSshConn, closeSshConn and enableSshOnRoot.                          *)
(***************************************************************************)

LEMMA TerminateMoves ==
  ASSUME TypeInv, Stacks, NEW t \in Thread, TerminateSteps(t)
  PROVE  /\ Kept
         /\ \/ In(t, "term") /\ ~Top(t).ov /\ Called(t, F("sd"), "tear")
            \/ In(t, "term") /\ Top(t).ov /\ Went(t, "tear")
            \/ In(t, "tear") /\ Called(t, F("td"), "exit")
            \/ In(t, "exit") /\ stack' = stack /\ ret' = ret
<1>1. ASSUME In(t, "term"), Call(t, F("sd"), "tear")
      PROVE  Kept /\ Called(t, F("sd"), "tear")
  <2>1. Turn("term", "tear") /\ "tear" \in At /\ "sd" \in At
        BY DEF Turn, At, KbAt, EndAt, TdAt, CsAt, ErAt, OsAt, SfAt, SdAt
  <2>2. /\ F("sd") \in Frame /\ F("sd").at = "sd" /\ F("sd").kind = "none" /\ F("sd").n = 0 /\ F("sd").proc = "tty"
        BY <2>1, FrameIs
  <2>3. /\ FrameOK(F("sd")) /\ F("sd").at \in SdAt
        /\ F("sd").at \notin EndAt \cup {"script"} /\ F("sd").at \notin KbAt \cup SfAt
        BY <2>2 DEF FrameOK, CmdAt, OsAt, EndAt, KbAt, SfAt, SdAt
  <2>4. ASSUME NEW g \in Frame, g.at = "tear", g.kind = Top(t).kind
        PROVE  Link(F("sd"), g) /\ Rank(F("sd")) < Rank(g)
    <3>1. Link(F("sd"), g)
          BY <1>1, <2>2, <2>3, <2>4, RoleIs, KindAt DEF Link
    <3>2. Rank(F("sd")) < Rank(g)
          BY <1>1, <2>2, <2>4, RankIs, KindAt DEF Low, CmdAt, KbAt, EndAt, TdAt, CsAt, ErAt,
             OsAt, SfAt, SdAt, SuAt, Long
    <3> QED  BY <3>1, <3>2
  <2>5. t \in Listener => F("sd").at \notin Errands
        BY <1>1, <2>2 DEF Errands, SuAt, OsAt, CsAt, ErAt
  <2> QED  BY <1>1, <2>1, <2>2, <2>3, <2>4, <2>5, StepCall
<1>2. ASSUME In(t, "term"), Goto(t, "tear")
      PROVE  Kept /\ Went(t, "tear")
  <2>1. Turn("term", "tear") /\ "tear" \in At
        BY DEF Turn, At, KbAt, EndAt, TdAt, CsAt, ErAt, OsAt, SfAt, SdAt
  <2> QED  BY <1>2, <2>1, StepGo
<1>3. ASSUME In(t, "tear"), Call(t, F("td"), "exit")
      PROVE  Kept /\ Called(t, F("td"), "exit")
  <2>1. Turn("tear", "exit") /\ "exit" \in At /\ "td" \in At
        BY DEF Turn, At, KbAt, EndAt, TdAt, CsAt, ErAt, OsAt, SfAt, SdAt
  <2>2. /\ F("td") \in Frame /\ F("td").at = "td" /\ F("td").kind = "none" /\ F("td").n = 0 /\ F("td").proc = "tty"
        BY <2>1, FrameIs
  <2>3. /\ FrameOK(F("td")) /\ F("td").at \in TdAt
        /\ F("td").at \notin EndAt \cup {"script"} /\ F("td").at \notin KbAt \cup SfAt
        BY <2>2 DEF FrameOK, CmdAt, OsAt, EndAt, KbAt, SfAt, TdAt
  <2>4. ASSUME NEW g \in Frame, g.at = "exit", g.kind = Top(t).kind
        PROVE  Link(F("td"), g) /\ Rank(F("td")) < Rank(g)
    <3>1. Link(F("td"), g)
          BY <1>3, <2>2, <2>3, <2>4, RoleIs, KindAt DEF Link
    <3>2. Rank(F("td")) < Rank(g)
          BY <1>3, <2>2, <2>4, RankIs, KindAt DEF Low, CmdAt, KbAt, EndAt, TdAt, CsAt, ErAt,
             OsAt, SfAt, SdAt, SuAt, Long
    <3> QED  BY <3>1, <3>2
  <2>5. t \in Listener => F("td").at \notin Errands
        BY <1>3, <2>2 DEF Errands, SuAt, OsAt, CsAt, ErAt
  <2> QED  BY <1>3, <2>1, <2>2, <2>3, <2>4, <2>5, StepCall
<1>4. ASSUME stack' = stack
      PROVE  Kept
      BY <1>4 DEF Kept, Stacks, Typed, TypeInv
<1> QED  BY <1>1, <1>2, <1>3, <1>4 DEF TerminateSteps, calls

LEMMA ShutdownStartsMoves ==
  ASSUME TypeInv, Stacks, NEW t \in Thread, ShutdownStarts(t)
  PROVE  /\ Kept /\ In(t, "sd")
         /\ (attemptShutdownFailed /\ Ended(t)) \/ (~attemptShutdownFailed /\ Went(t, "sdUser"))
<1>1. ASSUME In(t, "sd"), Terminate(t, TRUE)
      PROVE  Kept /\ Ended(t)
      BY <1>1, StepEnd
<1>2. ASSUME In(t, "sd"), Goto(t, "sdUser")
      PROVE  Kept /\ Went(t, "sdUser")
  <2>1. Turn("sd", "sdUser") /\ "sdUser" \in At
        BY DEF Turn, At, KbAt, EndAt, TdAt, CsAt, ErAt, OsAt, SfAt, SdAt
  <2> QED  BY <1>2, <2>1, StepGo
<1> QED  BY <1>1, <1>2 DEF ShutdownStarts

LEMMA ShutdownSwitchesMoves ==
  ASSUME TypeInv, Stacks, NEW t \in Thread, ShutdownSwitchesUser(t), t \in Listener => isCurrentUserRoot
  PROVE  /\ Kept /\ In(t, "sdUser")
         /\ \/ isCurrentUserRoot /\ Went(t, "sdTerm")
            \/ ~isCurrentUserRoot /\ Called(t, F("su"), "sdTerm")
<1>1. ASSUME In(t, "sdUser"), Goto(t, "sdTerm")
      PROVE  Kept /\ Went(t, "sdTerm")
  <2>1. Turn("sdUser", "sdTerm") /\ "sdTerm" \in At
        BY DEF Turn, At, KbAt, EndAt, TdAt, CsAt, ErAt, OsAt, SfAt, SdAt
  <2> QED  BY <1>1, <2>1, StepGo
<1>2. ASSUME In(t, "sdUser"), Call(t, F("su"), "sdTerm"), ~isCurrentUserRoot
      PROVE  Kept /\ Called(t, F("su"), "sdTerm")
  <2>1. Turn("sdUser", "sdTerm") /\ "sdTerm" \in At /\ "su" \in At
        BY DEF Turn, At, KbAt, EndAt, TdAt, CsAt, ErAt, OsAt, SfAt, SdAt
  <2>2. /\ F("su") \in Frame /\ F("su").at = "su" /\ F("su").kind = "none" /\ F("su").n = 0 /\ F("su").proc = "tty"
        BY <2>1, FrameIs
  <2>3. /\ FrameOK(F("su")) /\ F("su").at \in SuAt
        /\ F("su").at \notin EndAt \cup {"script"} /\ F("su").at \notin KbAt \cup SfAt
        BY <2>2 DEF FrameOK, CmdAt, OsAt, EndAt, KbAt, SfAt, SuAt
  <2>4. ASSUME NEW g \in Frame, g.at = "sdTerm", g.kind = Top(t).kind
        PROVE  Link(F("su"), g) /\ Rank(F("su")) < Rank(g)
    <3>1. Link(F("su"), g)
          BY <1>2, <2>2, <2>3, <2>4, RoleIs, KindAt DEF Link
    <3>2. Rank(F("su")) < Rank(g)
          BY <1>2, <2>2, <2>4, RankIs, KindAt DEF Low, CmdAt, KbAt, EndAt, TdAt, CsAt, ErAt,
             OsAt, SfAt, SdAt, SuAt, Long
    <3> QED  BY <3>1, <3>2
  <2>5. t \in Listener => F("su").at \notin Errands
        BY <1>2, <2>2 DEF Errands, SuAt, OsAt, CsAt, ErAt
  <2> QED  BY <1>2, <2>1, <2>2, <2>3, <2>4, <2>5, StepCall
<1> QED  BY <1>1, <1>2 DEF ShutdownSwitchesUser

LEMMA TerminateTargetMoves ==
  ASSUME TypeInv, Stacks, NEW t \in Thread, TerminateTargetStarts(t), t \in Listener => ~isSshConn
  PROVE  /\ Kept /\ In(t, "sdTerm")
         /\ \/ isSshConn /\ Called(t, F("cs"), "sdPower")
            \/ ~isSshConn /\ Went(t, "sdPower")
<1>1. ASSUME In(t, "sdTerm"), Call(t, F("cs"), "sdPower"), isSshConn
      PROVE  Kept /\ Called(t, F("cs"), "sdPower")
  <2>1. Turn("sdTerm", "sdPower") /\ "sdPower" \in At /\ "cs" \in At
        BY DEF Turn, At, KbAt, EndAt, TdAt, CsAt, ErAt, OsAt, SfAt, SdAt
  <2>2. /\ F("cs") \in Frame /\ F("cs").at = "cs" /\ F("cs").kind = "none" /\ F("cs").n = 0 /\ F("cs").proc = "tty"
        BY <2>1, FrameIs
  <2>3. /\ FrameOK(F("cs")) /\ F("cs").at \in CsAt
        /\ F("cs").at \notin EndAt \cup {"script"} /\ F("cs").at \notin KbAt \cup SfAt
        BY <2>2 DEF FrameOK, CmdAt, OsAt, EndAt, KbAt, SfAt, CsAt
  <2>4. ASSUME NEW g \in Frame, g.at = "sdPower", g.kind = Top(t).kind
        PROVE  Link(F("cs"), g) /\ Rank(F("cs")) < Rank(g)
    <3>1. Link(F("cs"), g)
          BY <1>1, <2>2, <2>3, <2>4, RoleIs, KindAt DEF Link
    <3>2. Rank(F("cs")) < Rank(g)
          BY <1>1, <2>2, <2>4, RankIs, KindAt DEF Low, CmdAt, KbAt, EndAt, TdAt, CsAt, ErAt,
             OsAt, SfAt, SdAt, SuAt, Long
    <3> QED  BY <3>1, <3>2
  <2>5. t \in Listener => F("cs").at \notin Errands
        BY <1>1, <2>2 DEF Errands, SuAt, OsAt, CsAt, ErAt
  <2> QED  BY <1>1, <2>1, <2>2, <2>3, <2>4, <2>5, StepCall
<1>2. ASSUME In(t, "sdTerm"), Goto(t, "sdPower")
      PROVE  Kept /\ Went(t, "sdPower")
  <2>1. Turn("sdTerm", "sdPower") /\ "sdPower" \in At
        BY DEF Turn, At, KbAt, EndAt, TdAt, CsAt, ErAt, OsAt, SfAt, SdAt
  <2> QED  BY <1>2, <2>1, StepGo
<1> QED  BY <1>1, <1>2 DEF TerminateTargetStarts

LEMMA PowersOffMoves ==
  ASSUME TypeInv, Stacks, NEW t \in Thread, PowersOff(t)
  PROVE  /\ Kept
         /\ \/ In(t, "sdPower") /\ Called(t, Command("poweroff"), "sdDown")
            \/ In(t, "sdDown") /\ Called(t, F("td"), "return")
<1>1. ASSUME In(t, "sdPower"), Call(t, Command("poweroff"), "sdDown")
      PROVE  Kept /\ Called(t, Command("poweroff"), "sdDown")
  <2>1. Turn("sdPower", "sdDown") /\ "sdDown" \in At
        BY DEF Turn, At, KbAt, EndAt, TdAt, CsAt, ErAt, OsAt, SfAt, SdAt
  <2>2. Command_OK(Command("poweroff"), "poweroff")
        BY Commands_OK DEF Kind
  <2>3. ASSUME NEW g \in Frame, g.at = "sdDown", g.kind = Top(t).kind
        PROVE  Link(Command("poweroff"), g) /\ Rank(Command("poweroff")) < Rank(g)
    <3>1. Link(Command("poweroff"), g)
          BY <1>1, <2>2, <2>3, KindAt DEF Link, Command_OK, Cmd
    <3>2. Rank(Command("poweroff")) < Rank(g)
          BY <2>2, <2>3, RankIs DEF Command_OK, Low, CmdAt, KbAt, EndAt, TdAt, CsAt, ErAt, OsAt,
             SfAt, SdAt, SuAt, Long
    <3> QED  BY <3>1, <3>2
  <2> QED  BY <1>1, <2>1, <2>2, <2>3, StepCall DEF Command_OK
<1>2. ASSUME In(t, "sdDown"), Call(t, F("td"), "return")
      PROVE  Kept /\ Called(t, F("td"), "return")
  <2>1. Turn("sdDown", "return") /\ "return" \in At /\ "td" \in At
        BY DEF Turn, At, KbAt, EndAt, TdAt, CsAt, ErAt, OsAt, SfAt, SdAt
  <2>2. /\ F("td") \in Frame /\ F("td").at = "td" /\ F("td").kind = "none" /\ F("td").n = 0 /\ F("td").proc = "tty"
        BY <2>1, FrameIs
  <2>3. /\ FrameOK(F("td")) /\ F("td").at \in TdAt
        /\ F("td").at \notin EndAt \cup {"script"} /\ F("td").at \notin KbAt \cup SfAt
        BY <2>2 DEF FrameOK, CmdAt, OsAt, EndAt, KbAt, SfAt, TdAt
  <2>4. ASSUME NEW g \in Frame, g.at = "return", g.kind = Top(t).kind
        PROVE  Link(F("td"), g) /\ Rank(F("td")) < Rank(g)
    <3>0. Top(t).kind = "none"
          BY <1>2, KindAt DEF SdAt
    <3>1. Link(F("td"), g)
          BY <1>2, <2>2, <2>3, <2>4, <3>0 DEF Link
    <3>2. Rank(F("td")) < Rank(g)
          BY <1>2, <2>2, <2>4, RankIs, KindAt DEF Low, CmdAt, KbAt, EndAt, TdAt, CsAt, ErAt,
             OsAt, SfAt, SdAt, SuAt, Long
    <3> QED  BY <3>1, <3>2
  <2>5. t \in Listener => F("td").at \notin Errands
        BY <1>2, <2>2 DEF Errands, SuAt, OsAt, CsAt, ErAt
  <2> QED  BY <1>2, <2>1, <2>2, <2>3, <2>4, <2>5, StepCall
<1> QED  BY <1>1, <1>2 DEF PowersOff

LEMMA ReturnsMoves ==
  ASSUME TypeInv, Stacks, NEW t \in Thread, Returns(t)
  PROVE  Kept /\ In(t, "return") /\ Returned(t, "ok")
<1>1. ASSUME In(t, "return"), Return(t, "ok")
      PROVE  Kept /\ Returned(t, "ok")
      BY <1>1, StepReturn DEF EndAt
<1> QED  BY <1>1 DEF Returns

LEMMA TearDownStartsMoves ==
  ASSUME TypeInv, Stacks, NEW t \in Thread, TearDownStarts(t)
  PROVE  /\ Kept /\ In(t, "td")
         /\ \/ targetTearDownCalled /\ Returned(t, "ok")
            \/ Screen(SelfProcess) = "closed" /\ Went(t, "tdKill")
            \/ Screen(SelfProcess) # "closed" /\ Called(t, Command("quit"), "tdKill")
<1>1. ASSUME In(t, "td"), Return(t, "ok")
      PROVE  Kept /\ Returned(t, "ok")
      BY <1>1, StepReturn DEF EndAt
<1>2. ASSUME In(t, "td"), Goto(t, "tdKill")
      PROVE  Kept /\ Went(t, "tdKill")
  <2>1. Turn("td", "tdKill") /\ "tdKill" \in At
        BY DEF Turn, At, KbAt, EndAt, TdAt, CsAt, ErAt, OsAt, SfAt, SdAt
  <2> QED  BY <1>2, <2>1, StepGo
<1>3. ASSUME In(t, "td"), Call(t, Command("quit"), "tdKill")
      PROVE  Kept /\ Called(t, Command("quit"), "tdKill")
  <2>1. Turn("td", "tdKill") /\ "tdKill" \in At
        BY DEF Turn, At, KbAt, EndAt, TdAt, CsAt, ErAt, OsAt, SfAt, SdAt
  <2>2. Command_OK(Command("quit"), "quit")
        BY Commands_OK DEF Kind
  <2>3. ASSUME NEW g \in Frame, g.at = "tdKill", g.kind = Top(t).kind
        PROVE  Link(Command("quit"), g) /\ Rank(Command("quit")) < Rank(g)
    <3>1. Link(Command("quit"), g)
          BY <1>3, <2>2, <2>3, KindAt DEF Link, Command_OK, Cmd
    <3>2. Rank(Command("quit")) < Rank(g)
          BY <2>2, <2>3, RankIs DEF Command_OK, Low, CmdAt, KbAt, EndAt, TdAt, CsAt, ErAt, OsAt,
             SfAt, SdAt, SuAt, Long
    <3> QED  BY <3>1, <3>2
  <2> QED  BY <1>3, <2>1, <2>2, <2>3, StepCall DEF Command_OK
<1> QED  BY <1>1, <1>2, <1>3 DEF TearDownStarts

LEMMA TearDownKillsMoves ==
  ASSUME TypeInv, Stacks, NEW t \in Thread, TearDownKills(t)
  PROVE  Kept /\ In(t, "tdKill") /\ Returned(t, "ok")
<1>1. ASSUME In(t, "tdKill"), Return(t, "ok")
      PROVE  Kept /\ Returned(t, "ok")
      BY <1>1, StepReturn DEF EndAt
<1> QED  BY <1>1 DEF TearDownKills

\* The other functions are called by the main thread alone.
LEMMA ErrandOfMain ==
  ASSUME TypeInv, Stacks, NEW t \in Thread, NEW a \in Errands, In(t, a)
  PROVE  t = Main
<1>1. /\ Top(t) \in Frame /\ Below(t) \in Seq(Frame) /\ stack[t] = Push(Top(t), Below(t)) /\ Top(t).at = a
      BY Acts
<1>2. Has(stack[t], Errands \cup {"script"})
      BY <1>1, HasPush
<1>3. t \notin Listener
      BY <1>2 DEF Stacks, Good
<1> QED  BY <1>3, Constants

NamesUser(t, k) ==
    /\ Others(t) /\ ret' = ret
    /\ stack'[t] = Push(Command("exit"), Push(About("suName", k), Below(t)))
    /\ Lost(stack'[t]) <=> Lost(stack[t])

LEMMA SwitchUserStartsMoves ==
  ASSUME TypeInv, Stacks, NEW t \in Thread, SwitchUserStarts(t)
  PROVE  /\ Kept /\ In(t, "su") /\ t = Main
         /\ \/ isSshConn /\ Called(t, F("cs"), "suOpen") /\ isCurrentUserRoot' = isCurrentUserRoot
            \/ /\ ~isSshConn /\ isCurrentUserRoot' = ~isCurrentUserRoot
               /\ \E k \in {"root", "user"} : NamesUser(t, k)
<1>1. t = Main /\ t \notin Listener
      BY ErrandOfMain, Constants DEF SwitchUserStarts, Errands, SuAt, OsAt, CsAt, ErAt
<1>2. ASSUME In(t, "su"), Call(t, F("cs"), "suOpen")
      PROVE  Kept /\ Called(t, F("cs"), "suOpen")
  <2>1. Turn("su", "suOpen") /\ "suOpen" \in At /\ "cs" \in At
        BY DEF Turn, At, KbAt, EndAt, TdAt, CsAt, ErAt, OsAt, SfAt, SdAt
  <2>2. /\ F("cs") \in Frame /\ F("cs").at = "cs" /\ F("cs").kind = "none" /\ F("cs").n = 0 /\ F("cs").proc = "tty"
        BY <2>1, FrameIs
  <2>3. /\ FrameOK(F("cs")) /\ F("cs").at \in CsAt
        /\ F("cs").at \notin EndAt \cup {"script"} /\ F("cs").at \notin KbAt \cup SfAt
        BY <2>2 DEF FrameOK, CmdAt, OsAt, EndAt, KbAt, SfAt, CsAt
  <2>4. ASSUME NEW g \in Frame, g.at = "suOpen", g.kind = Top(t).kind
        PROVE  Link(F("cs"), g) /\ Rank(F("cs")) < Rank(g)
    <3>1. Link(F("cs"), g)
          BY <1>2, <2>2, <2>3, <2>4, RoleIs, KindAt DEF Link
    <3>2. Rank(F("cs")) < Rank(g)
          BY <1>2, <2>2, <2>4, RankIs, KindAt DEF Low, CmdAt, KbAt, EndAt, TdAt, CsAt, ErAt,
             OsAt, SfAt, SdAt, SuAt, Long
    <3> QED  BY <3>1, <3>2
  <2>5. t \in Listener => F("cs").at \notin Errands
        BY <1>1
  <2> QED  BY <1>2, <2>1, <2>2, <2>3, <2>4, <2>5, StepCall
<1>3. ASSUME ~isSshConn, NEW k \in {"root", "user"},
             Become(t, <<Command("exit"), About("suName", k)>>), ret' = ret
      PROVE  Kept /\ NamesUser(t, k)
  <2>1. In(t, "su")
        BY DEF SwitchUserStarts
  <2>2. /\ Top(t) \in Frame /\ Top(t).at = "su" /\ stack[t] # <<>> /\ Below(t) \in Seq(Frame)
        /\ stack[t] = Push(Top(t), Below(t)) /\ FrameOK(Top(t)) /\ Good(t, stack[t])
        BY <2>1, Acts, TopIs_OK DEF Stacks
  <2> DEFINE f == Command("exit")  g == About("suName", k)
  <2>3. Command_OK(f, "exit")
        BY <1>3, Commands_OK DEF Kind
  <2>4. g \in Frame /\ g.at = "suName" /\ g.kind = k
    <3>1. "suName" \in At /\ k \in Kind
          BY DEF At, Kind
    <3> QED  BY <3>1, FrameIs
  <2>5. Become(t, <<f, g>>)
        BY <1>3
  <2> HIDE DEF f, g
  <2>6. To(t, Push(f, Push(g, Below(t))))
        BY <2>2, <2>3, <2>4, <2>5, Outcome DEF Command_OK
  <2>7. Alike(g, Top(t)) /\ FrameOK(g)
        BY <2>2, <2>4 DEF Alike, FrameOK, SuAt, CmdAt, OsAt, ErAt, SdAt
  <2>8. Good(t, Push(g, Below(t))) /\ (Lost(Push(g, Below(t))) <=> Lost(stack[t]))
        BY <2>2, <2>4, <2>7, GoodGo
  <2>9. Link(f, g) /\ Rank(f) < Rank(g)
    <3>1. Link(f, g)
          BY <2>3, <2>4 DEF Link, Command_OK
    <3>2. Rank(g) = 4
          BY <2>4, RankIs DEF SuAt
    <3>3. Rank(f) = 1
          BY <2>3 DEF Command_OK, Long
    <3> QED  BY <3>1, <3>2, <3>3
  <2>10. /\ Stacks' /\ Typed /\ Others(t)
         /\ stack'[t] = Push(f, Push(g, Below(t))) /\ (Lost(stack'[t]) <=> Lost(stack[t]))
        BY <2>1, <2>3, <2>4, <2>6, <2>8, <2>9, StacksCall DEF Command_OK
  <2> QED  BY <1>3, <2>10 DEF Kept, NamesUser, f, g
<1> QED  BY <1>1, <1>2, <1>3 DEF SwitchUserStarts

LEMMA SwitchUserLogsInMoves ==
  ASSUME TypeInv, Stacks, NEW t \in Thread, SwitchUserLogsIn(t)
  PROVE  /\ Kept /\ t = Main
         /\ \/ In(t, "suName") /\ Top(t).kind \in {"root", "user"} /\ Called(t, Command(Top(t).kind), "suPass")
            \/ In(t, "suPass") /\ Called(t, Command("password"), "return")
<1>1. t = Main /\ t \notin Listener
      BY ErrandOfMain, Constants DEF SwitchUserLogsIn, Errands, SuAt, OsAt, CsAt, ErAt
<1>2. ASSUME In(t, "suName"), Call(t, Command(Top(t).kind), "suPass")
      PROVE  Kept /\ Called(t, Command(Top(t).kind), "suPass")
  <2>1. Turn("suName", "suPass") /\ "suPass" \in At
        BY DEF Turn, At, KbAt, EndAt, TdAt, CsAt, ErAt, OsAt, SfAt, SdAt
  <2>2. Command_OK(Command(Top(t).kind), Top(t).kind) /\ Top(t).kind \in {"root", "user"}
        BY <1>2, Commands_OK, KindAt DEF Kind
  <2>3. ASSUME NEW g \in Frame, g.at = "suPass", g.kind = Top(t).kind
        PROVE  Link(Command(Top(t).kind), g) /\ Rank(Command(Top(t).kind)) < Rank(g)
    <3>1. Link(Command(Top(t).kind), g)
          BY <1>2, <2>2, <2>3, KindAt DEF Link, Command_OK, Cmd
    <3>2. Rank(Command(Top(t).kind)) < Rank(g)
          BY <2>2, <2>3, RankIs DEF Command_OK, Low, CmdAt, KbAt, EndAt, TdAt, CsAt, ErAt, OsAt,
             SfAt, SdAt, SuAt, Long
    <3> QED  BY <3>1, <3>2
  <2> QED  BY <1>2, <2>1, <2>2, <2>3, StepCall DEF Command_OK
<1>3. ASSUME In(t, "suPass"), Call(t, Command("password"), "return")
      PROVE  Kept /\ Called(t, Command("password"), "return")
  <2>1. Turn("suPass", "return") /\ "return" \in At
        BY DEF Turn, At, KbAt, EndAt, TdAt, CsAt, ErAt, OsAt, SfAt, SdAt
  <2>2. Command_OK(Command("password"), "password")
        BY Commands_OK DEF Kind
  <2>3. ASSUME NEW g \in Frame, g.at = "return", g.kind = Top(t).kind
        PROVE  Link(Command("password"), g) /\ Rank(Command("password")) < Rank(g)
    <3>1. Link(Command("password"), g)
          BY <1>3, <2>2, <2>3, KindAt DEF Link, Command_OK, Cmd
    <3>2. Rank(Command("password")) < Rank(g)
          BY <2>2, <2>3, RankIs DEF Command_OK, Low, CmdAt, KbAt, EndAt, TdAt, CsAt, ErAt, OsAt,
             SfAt, SdAt, SuAt, Long
    <3> QED  BY <3>1, <3>2
  <2> QED  BY <1>3, <2>1, <2>2, <2>3, StepCall DEF Command_OK
<1>4. In(t, "suName") => Top(t).kind \in {"root", "user"}
      BY KindAt
<1> QED  BY <1>1, <1>2, <1>3, <1>4 DEF SwitchUserLogsIn

LEMMA SwitchUserOpensMoves ==
  ASSUME TypeInv, Stacks, NEW t \in Thread, SwitchUserOpens(t)
  PROVE  /\ Kept /\ t = Main /\ In(t, "suOpen")
         /\ isCurrentUserRoot' = ~isCurrentUserRoot
         /\ \E k \in {"root", "user"} :
               Called(t, About("os", k), "suOpened") /\ (k = "root" => isCurrentUserRoot')
<1>1. t = Main /\ t \notin Listener
      BY ErrandOfMain, Constants DEF SwitchUserOpens, Errands, SuAt, OsAt, CsAt, ErAt
<1>2. ASSUME NEW k \in {"root", "user"}, In(t, "suOpen"), Call(t, About("os", k), "suOpened")
      PROVE  Kept /\ Called(t, About("os", k), "suOpened")
  <2>1. Turn("suOpen", "suOpened") /\ "suOpened" \in At /\ "os" \in At /\ k \in Kind
        BY DEF Turn, At, Kind
  <2> DEFINE f == About("os", k)
  <2>2. f \in Frame /\ f.at = "os" /\ f.kind = k /\ f.n = 0
        BY <2>1, FrameIs
  <2>3. Call(t, f, "suOpened")
        BY <1>2
  <2> HIDE DEF f
  <2>4. /\ FrameOK(f) /\ f.at \in OsAt
        /\ f.at \notin EndAt \cup {"script"} /\ f.at \notin KbAt \cup SfAt
        BY <2>2 DEF FrameOK, CmdAt, OsAt, ErAt, SdAt, EndAt, KbAt, SfAt
  <2>5. ASSUME NEW g \in Frame, g.at = "suOpened"
        PROVE  Link(f, g) /\ Rank(f) < Rank(g)
    <3>1. Link(f, g)
          BY <2>4, <2>5 DEF Link
    <3>2. Rank(f) = 3 /\ Rank(g) = 4
          BY <2>4, <2>5, RankIs DEF SuAt
    <3> QED  BY <3>1, <3>2
  <2>6. Kept /\ Called(t, f, "suOpened")
        BY <1>2, <1>1, <2>1, <2>2, <2>3, <2>4, <2>5, StepCall
  <2> QED  BY <2>6 DEF f
<1> QED  BY <1>1, <1>2 DEF SwitchUserOpens

LEMMA SwitchUserEndsMoves ==
  ASSUME TypeInv, Stacks, NEW t \in Thread, SwitchUserEnds(t)
  PROVE  /\ Kept /\ t = Main /\ In(t, "suOpened")
         /\ Returned(t, "ok") \/ Ended(t)
<1>1. t = Main /\ t \notin Listener
      BY ErrandOfMain, Constants DEF SwitchUserEnds, Errands, SuAt, OsAt, CsAt, ErAt
<1>2. ASSUME In(t, "suOpened"), Return(t, "ok")
      PROVE  Kept /\ Returned(t, "ok")
      BY <1>2, StepReturn DEF EndAt
<1>3. ASSUME In(t, "suOpened"), Terminate(t, FALSE)
      PROVE  Kept /\ Ended(t)
      BY <1>3, StepEnd
<1> QED  BY <1>1, <1>2, <1>3 DEF SwitchUserEnds

LEMMA OpenStartsMoves ==
  ASSUME TypeInv, Stacks, NEW t \in Thread, OpenStarts(t)
  PROVE  /\ Kept /\ t = Main /\ In(t, "os")
         /\ \/ Returned(t, "failed")
            \/ ~(sshRetries >= LimitSsh) /\ Top(t).kind = "root" /\ Called(t, F("er"), "osSpawn")
            \/ ~(sshRetries >= LimitSsh) /\ Went(t, "osSpawn")
<1>1. t = Main /\ t \notin Listener
      BY ErrandOfMain, Constants DEF OpenStarts, Errands, SuAt, OsAt, CsAt, ErAt
<1>2. ASSUME In(t, "os"), Return(t, "failed")
      PROVE  Kept /\ Returned(t, "failed")
      BY <1>2, StepReturn DEF EndAt
<1>3. ASSUME In(t, "os"), Call(t, F("er"), "osSpawn"), Top(t).kind = "root"
      PROVE  Kept /\ Called(t, F("er"), "osSpawn")
  <2>1. Turn("os", "osSpawn") /\ "osSpawn" \in At /\ "er" \in At
        BY DEF Turn, At, KbAt, EndAt, TdAt, CsAt, ErAt, OsAt, SfAt, SdAt
  <2>2. /\ F("er") \in Frame /\ F("er").at = "er" /\ F("er").kind = "none" /\ F("er").n = 0 /\ F("er").proc = "tty"
        BY <2>1, FrameIs
  <2>3. /\ FrameOK(F("er")) /\ F("er").at \in ErAt
        /\ F("er").at \notin EndAt \cup {"script"} /\ F("er").at \notin KbAt \cup SfAt
        BY <2>2 DEF FrameOK, CmdAt, OsAt, EndAt, KbAt, SfAt, ErAt
  <2>4. ASSUME NEW g \in Frame, g.at = "osSpawn", g.kind = Top(t).kind
        PROVE  Link(F("er"), g) /\ Rank(F("er")) < Rank(g)
    <3>1. Link(F("er"), g)
          BY <1>3, <2>2, <2>3, <2>4, RoleIs, KindAt DEF Link
    <3>2. Rank(F("er")) < Rank(g)
          BY <1>3, <2>2, <2>4, RankIs, KindAt DEF Low, CmdAt, KbAt, EndAt, TdAt, CsAt, ErAt,
             OsAt, SfAt, SdAt, SuAt, Long
    <3> QED  BY <3>1, <3>2
  <2>5. t \in Listener => F("er").at \notin Errands
        BY <1>1
  <2> QED  BY <1>3, <2>1, <2>2, <2>3, <2>4, <2>5, StepCall
<1>4. ASSUME In(t, "os"), Goto(t, "osSpawn")
      PROVE  Kept /\ Went(t, "osSpawn")
  <2>1. Turn("os", "osSpawn") /\ "osSpawn" \in At
        BY DEF Turn, At, KbAt, EndAt, TdAt, CsAt, ErAt, OsAt, SfAt, SdAt
  <2> QED  BY <1>4, <2>1, StepGo
<1> QED  BY <1>1, <1>2, <1>3, <1>4 DEF OpenStarts

\* The wait for the prompt of ssh.
Prompt_OK(f) ==
    f.at = "expect" /\ f.kind = "sshPrompt" /\ f.eoe = FALSE /\ f.intr = FALSE /\ f.proc = "ssh"

LEMMA OpenSpawnsMoves ==
  ASSUME TypeInv, Stacks, NEW t \in Thread, OpenSpawns(t)
  PROVE  /\ Kept /\ t = Main /\ In(t, "osSpawn")
         /\ \/ /\ isSshConn' = FALSE /\ ssh' = "none" /\ sshRetries' = sshRetries + 1
               /\ Went(t, "os")
            \/ /\ isSshConn' = TRUE /\ ssh' = Secret(Top(t).kind) /\ sshRetries' = sshRetries
               /\ \E f \in Frame : Prompt_OK(f) /\ Called(t, f, "osPass")
<1>1. t = Main /\ t \notin Listener
      BY ErrandOfMain, Constants DEF OpenSpawns, Errands, SuAt, OsAt, CsAt, ErAt
<1>2. ASSUME In(t, "osSpawn"), Goto(t, "os")
      PROVE  Kept /\ Went(t, "os")
  <2>1. Turn("osSpawn", "os") /\ "os" \in At
        BY DEF Turn, At, KbAt, EndAt, TdAt, CsAt, ErAt, OsAt, SfAt, SdAt
  <2> QED  BY <1>2, <2>1, StepGo
<1>3. ASSUME In(t, "osSpawn"),
             Call(t, [F("expect") EXCEPT !.kind = "sshPrompt", !.eoe = FALSE,
                                         !.intr = FALSE, !.proc = "ssh"], "osPass")
      PROVE  \E f \in Frame : Prompt_OK(f) /\ Kept /\ Called(t, f, "osPass")
  <2>1. Turn("osSpawn", "osPass") /\ "osPass" \in At /\ "expect" \in At
        /\ "sshPrompt" \in Kind /\ "ssh" \in Process
        BY DEF Turn, At, Kind, OsAt, Process
  <2> DEFINE f1 == [F("expect") EXCEPT !.kind = "sshPrompt"]
  <2> DEFINE f2 == [f1 EXCEPT !.eoe = FALSE]
  <2> DEFINE f3 == [f2 EXCEPT !.intr = FALSE]
  <2> DEFINE f == [f3 EXCEPT !.proc = "ssh"]
  <2>2. F("expect") \in Frame /\ F("expect").at = "expect"
        BY <2>1, FrameIs
  <2>3. f1 \in Frame /\ f1.at = "expect" /\ f1.kind = "sshPrompt"
        BY <2>1, <2>2, ChangedKind
  <2> HIDE DEF f1
  <2>4. f2 \in Frame /\ f2.at = "expect" /\ f2.kind = "sshPrompt" /\ f2.eoe = FALSE
        BY <2>3, ChangedEoe
  <2> HIDE DEF f2
  <2>5. f3 \in Frame /\ f3.at = "expect" /\ f3.kind = "sshPrompt" /\ f3.eoe = FALSE /\ f3.intr = FALSE
        BY <2>4, ChangedIntr
  <2> HIDE DEF f3
  <2>6. f \in Frame /\ f.at = "expect" /\ f.kind = "sshPrompt" /\ f.eoe = FALSE /\ f.intr = FALSE /\ f.proc = "ssh"
        BY <2>1, <2>5, ChangedProc
  <2>7. Call(t, f, "osPass")
        BY <1>3 DEF f1, f2, f3
  <2> HIDE DEF f
  <2>8. Prompt_OK(f)
        BY <2>6 DEF Prompt_OK
  <2>9. /\ FrameOK(f) /\ f.at \in CmdAt
        /\ f.at \notin EndAt \cup {"script"} /\ f.at \notin KbAt \cup SfAt
        BY <2>6 DEF FrameOK, CmdAt, OsAt, ErAt, SdAt, EndAt, KbAt, SfAt
  <2>10. ASSUME NEW g \in Frame, g.at = "osPass"
         PROVE  Link(f, g) /\ Rank(f) < Rank(g)
    <3>1. Link(f, g)
          BY <2>6, <2>9, <2>10 DEF Link, Cmd
    <3>2. Rank(f) = 1 /\ Rank(g) = 3
          BY <2>6, <2>9, <2>10, RankIs DEF OsAt, Long
    <3> QED  BY <3>1, <3>2
  <2>11. Kept /\ Called(t, f, "osPass")
        BY <1>3, <1>1, <2>1, <2>6, <2>7, <2>9, <2>10, StepCall
  <2> QED  BY <2>6, <2>8, <2>11
<1> QED  BY <1>1, <1>2, <1>3 DEF OpenSpawns, OpenFails

LEMMA OpenLogsInMoves ==
  ASSUME TypeInv, Stacks, NEW t \in Thread, OpenLogsIn(t)
  PROVE  /\ Kept /\ t = Main /\ In(t, "osPass")
         /\ \/ /\ isSshConn' = isSshConn /\ ssh' = ssh /\ sshRetries' = sshRetries /\ ret[t] = "ok"
               /\ Called(t, TryOnce("sshPassword"), "osIn")
            \/ /\ isSshConn' = isSshConn /\ ssh' = ssh /\ sshRetries' = sshRetries
               /\ Called(t, TryOnce("sshYes"), "osPass")
            \/ /\ isSshConn' = FALSE /\ ssh' = "none" /\ sshRetries' = sshRetries + 1
               /\ Went(t, "os")
<1>1. t = Main /\ t \notin Listener
      BY ErrandOfMain, Constants DEF OpenLogsIn, Errands, SuAt, OsAt, CsAt, ErAt
<1>2. ASSUME In(t, "osPass"), Goto(t, "os")
      PROVE  Kept /\ Went(t, "os")
  <2>1. Turn("osPass", "os") /\ "os" \in At
        BY DEF Turn, At, KbAt, EndAt, TdAt, CsAt, ErAt, OsAt, SfAt, SdAt
  <2> QED  BY <1>2, <2>1, StepGo
<1>3. ASSUME In(t, "osPass"), Call(t, TryOnce("sshPassword"), "osIn")
      PROVE  Kept /\ Called(t, TryOnce("sshPassword"), "osIn")
  <2>1. Turn("osPass", "osIn") /\ "osIn" \in At
        BY DEF Turn, At, KbAt, EndAt, TdAt, CsAt, ErAt, OsAt, SfAt, SdAt
  <2>2. Command_OK(TryOnce("sshPassword"), "sshPassword")
        BY Commands_OK DEF Kind
  <2>3. ASSUME NEW g \in Frame, g.at = "osIn", g.kind = Top(t).kind
        PROVE  Link(TryOnce("sshPassword"), g) /\ Rank(TryOnce("sshPassword")) < Rank(g)
    <3>1. Link(TryOnce("sshPassword"), g)
          BY <1>3, <2>2, <2>3, KindAt DEF Link, Command_OK, Cmd
    <3>2. Rank(TryOnce("sshPassword")) < Rank(g)
          BY <2>2, <2>3, RankIs DEF Command_OK, Low, CmdAt, KbAt, EndAt, TdAt, CsAt, ErAt, OsAt,
             SfAt, SdAt, SuAt, Long
    <3> QED  BY <3>1, <3>2
  <2> QED  BY <1>3, <2>1, <2>2, <2>3, StepCall DEF Command_OK
<1>4. ASSUME In(t, "osPass"), Call(t, TryOnce("sshYes"), "osPass")
      PROVE  Kept /\ Called(t, TryOnce("sshYes"), "osPass")
  <2>1. Turn("osPass", "osPass") /\ "osPass" \in At
        BY DEF Turn, At, KbAt, EndAt, TdAt, CsAt, ErAt, OsAt, SfAt, SdAt
  <2>2. Command_OK(TryOnce("sshYes"), "sshYes")
        BY Commands_OK DEF Kind
  <2>3. ASSUME NEW g \in Frame, g.at = "osPass", g.kind = Top(t).kind
        PROVE  Link(TryOnce("sshYes"), g) /\ Rank(TryOnce("sshYes")) < Rank(g)
    <3>1. Link(TryOnce("sshYes"), g)
          BY <1>4, <2>2, <2>3, KindAt DEF Link, Command_OK, Cmd
    <3>2. Rank(TryOnce("sshYes")) < Rank(g)
          BY <2>2, <2>3, RankIs DEF Command_OK, Low, CmdAt, KbAt, EndAt, TdAt, CsAt, ErAt, OsAt,
             SfAt, SdAt, SuAt, Long
    <3> QED  BY <3>1, <3>2
  <2> QED  BY <1>4, <2>1, <2>2, <2>3, StepCall DEF Command_OK
<1> QED  BY <1>1, <1>2, <1>3, <1>4 DEF OpenLogsIn, OpenFails, conn

LEMMA OpenEndsMoves ==
  ASSUME TypeInv, Stacks, NEW t \in Thread, OpenEnds(t)
  PROVE  /\ Kept /\ t = Main /\ In(t, "osIn")
         /\ \/ /\ isSshConn' = isSshConn /\ ssh' = ssh /\ sshRetries' = 0 /\ ret[t] = "ok"
               /\ Returned(t, "ok")
            \/ /\ isSshConn' = FALSE /\ ssh' = "none" /\ sshRetries' = sshRetries + 1
               /\ Went(t, "os")
<1>1. t = Main /\ t \notin Listener
      BY ErrandOfMain, Constants DEF OpenEnds, Errands, SuAt, OsAt, CsAt, ErAt
<1>2. ASSUME In(t, "osIn"), Goto(t, "os")
      PROVE  Kept /\ Went(t, "os")
  <2>1. Turn("osIn", "os") /\ "os" \in At
        BY DEF Turn, At, KbAt, EndAt, TdAt, CsAt, ErAt, OsAt, SfAt, SdAt
  <2> QED  BY <1>2, <2>1, StepGo
<1>3. ASSUME In(t, "osIn"), Return(t, "ok")
      PROVE  Kept /\ Returned(t, "ok")
      BY <1>3, StepReturn DEF EndAt
<1> QED  BY <1>1, <1>2, <1>3 DEF OpenEnds, OpenFails, conn

LEMMA CloseStartsMoves ==
  ASSUME TypeInv, Stacks, NEW t \in Thread, CloseStarts(t)
  PROVE  /\ Kept /\ t = Main /\ In(t, "cs")
         /\ Went(t, "csKill") \/ Called(t, TryOnce("sshExit"), "csKill")
<1>1. t = Main /\ t \notin Listener
      BY ErrandOfMain, Constants DEF CloseStarts, Errands, SuAt, OsAt, CsAt, ErAt
<1>2. ASSUME In(t, "cs"), Goto(t, "csKill")
      PROVE  Kept /\ Went(t, "csKill")
  <2>1. Turn("cs", "csKill") /\ "csKill" \in At
        BY DEF Turn, At, KbAt, EndAt, TdAt, CsAt, ErAt, OsAt, SfAt, SdAt
  <2> QED  BY <1>2, <2>1, StepGo
<1>3. ASSUME In(t, "cs"), Call(t, TryOnce("sshExit"), "csKill")
      PROVE  Kept /\ Called(t, TryOnce("sshExit"), "csKill")
  <2>1. Turn("cs", "csKill") /\ "csKill" \in At
        BY DEF Turn, At, KbAt, EndAt, TdAt, CsAt, ErAt, OsAt, SfAt, SdAt
  <2>2. Command_OK(TryOnce("sshExit"), "sshExit")
        BY Commands_OK DEF Kind
  <2>3. ASSUME NEW g \in Frame, g.at = "csKill", g.kind = Top(t).kind
        PROVE  Link(TryOnce("sshExit"), g) /\ Rank(TryOnce("sshExit")) < Rank(g)
    <3>1. Link(TryOnce("sshExit"), g)
          BY <1>3, <2>2, <2>3, KindAt DEF Link, Command_OK, Cmd
    <3>2. Rank(TryOnce("sshExit")) < Rank(g)
          BY <2>2, <2>3, RankIs DEF Command_OK, Low, CmdAt, KbAt, EndAt, TdAt, CsAt, ErAt, OsAt,
             SfAt, SdAt, SuAt, Long
    <3> QED  BY <3>1, <3>2
  <2> QED  BY <1>3, <2>1, <2>2, <2>3, StepCall DEF Command_OK
<1> QED  BY <1>1, <1>2, <1>3 DEF CloseStarts

LEMMA ClosesMoves ==
  ASSUME TypeInv, Stacks, NEW t \in Thread, Closes(t)
  PROVE  Kept /\ t = Main /\ In(t, "csKill") /\ Returned(t, "ok")
<1>1. t = Main /\ t \notin Listener
      BY ErrandOfMain, Constants DEF Closes, Errands, SuAt, OsAt, CsAt, ErAt
<1>2. ASSUME In(t, "csKill"), Return(t, "ok")
      PROVE  Kept /\ Returned(t, "ok")
      BY <1>2, StepReturn DEF EndAt
<1> QED  BY <1>1, <1>2 DEF Closes

LEMMA EnableRootMoves ==
  ASSUME TypeInv, Stacks, NEW t \in Thread, EnableRootSteps(t), In(t, "er") => isCurrentUserRoot
  PROVE  /\ Kept /\ t = Main
         /\ \/ In(t, "er") /\ Returned(t, "ok")
            \/ In(t, "er") /\ Went(t, "erEcho")
            \/ In(t, "erEcho") /\ Called(t, Command("plain"), "erService")
            \/ In(t, "erService") /\ Called(t, Command("plain"), "erDone")
            \/ In(t, "erDone") /\ Returned(t, "ok")
<1>1. t = Main /\ t \notin Listener
      BY ErrandOfMain, Constants DEF EnableRootSteps, Errands, SuAt, OsAt, CsAt, ErAt
<1>2. ASSUME In(t, "er"), Return(t, "ok")
      PROVE  Kept /\ Returned(t, "ok")
      BY <1>2, StepReturn DEF EndAt
<1>3. ASSUME In(t, "erDone"), Return(t, "ok")
      PROVE  Kept /\ Returned(t, "ok")
      BY <1>3, StepReturn DEF EndAt
<1>4. ASSUME In(t, "er"), Goto(t, "erEcho")
      PROVE  Kept /\ Went(t, "erEcho")
  <2>1. Turn("er", "erEcho") /\ "erEcho" \in At
        BY DEF Turn, At, KbAt, EndAt, TdAt, CsAt, ErAt, OsAt, SfAt, SdAt
  <2> QED  BY <1>4, <2>1, StepGo
<1>5. ASSUME In(t, "erEcho"), Call(t, Command("plain"), "erService")
      PROVE  Kept /\ Called(t, Command("plain"), "erService")
  <2>1. Turn("erEcho", "erService") /\ "erService" \in At
        BY DEF Turn, At, KbAt, EndAt, TdAt, CsAt, ErAt, OsAt, SfAt, SdAt
  <2>2. Command_OK(Command("plain"), "plain")
        BY Commands_OK DEF Kind
  <2>3. ASSUME NEW g \in Frame, g.at = "erService", g.kind = Top(t).kind
        PROVE  Link(Command("plain"), g) /\ Rank(Command("plain")) < Rank(g)
    <3>1. Link(Command("plain"), g)
          BY <1>5, <2>2, <2>3, KindAt DEF Link, Command_OK, Cmd
    <3>2. Rank(Command("plain")) < Rank(g)
          BY <2>2, <2>3, RankIs DEF Command_OK, Low, CmdAt, KbAt, EndAt, TdAt, CsAt, ErAt, OsAt,
             SfAt, SdAt, SuAt, Long
    <3> QED  BY <3>1, <3>2
  <2> QED  BY <1>5, <2>1, <2>2, <2>3, StepCall DEF Command_OK
<1>6. ASSUME In(t, "erService"), Call(t, Command("plain"), "erDone")
      PROVE  Kept /\ Called(t, Command("plain"), "erDone")
  <2>1. Turn("erService", "erDone") /\ "erDone" \in At
        BY DEF Turn, At, KbAt, EndAt, TdAt, CsAt, ErAt, OsAt, SfAt, SdAt
  <2>2. Command_OK(Command("plain"), "plain")
        BY Commands_OK DEF Kind
  <2>3. ASSUME NEW g \in Frame, g.at = "erDone", g.kind = Top(t).kind
        PROVE  Link(Command("plain"), g) /\ Rank(Command("plain")) < Rank(g)
    <3>1. Link(Command("plain"), g)
          BY <1>6, <2>2, <2>3, KindAt DEF Link, Command_OK, Cmd
    <3>2. Rank(Command("plain")) < Rank(g)
          BY <2>2, <2>3, RankIs DEF Command_OK, Low, CmdAt, KbAt, EndAt, TdAt, CsAt, ErAt, OsAt,
             SfAt, SdAt, SuAt, Long
    <3> QED  BY <3>1, <3>2
  <2> QED  BY <1>6, <2>1, <2>2, <2>3, StepCall DEF Command_OK
<1>7. In(t, "erDone") => Top(t).n # 1
      BY KindAt
<1> QED  BY <1>1, <1>2, <1>3, <1>4, <1>5, <1>6, <1>7 DEF EnableRootSteps

------------------------------------------------------------------------------
(***************************************************************************)
(* The same for sendFile, the function with a second thread.               *)
(***************************************************************************)

\* The bottom has the highest rank.
LEMMA BotRank ==
  ASSUME NEW f \in Frame, NEW s \in Seq(Frame), s # <<>>, Legal(Push(f, s))
  PROVE  Rank(f) < Rank(Bot(s)) /\ Bot(s) \in Frame
<1>1. Len(s) \in 1 .. Len(s)
      OBVIOUS
<1> QED  BY <1>1, Beneath DEF Bot

\* Only main sends files.
LEMMA SendFileOfMain ==
  ASSUME TypeInv, Stacks, NEW t \in Thread, NEW a \in SfAt, In(t, a)
  PROVE  t = Main /\ ~Lost(stack[t])
<1>1. /\ Top(t) \in Frame /\ Below(t) \in Seq(Frame) /\ stack[t] = Push(Top(t), Below(t)) /\ Top(t).at = a
      /\ stack[t] # <<>>
      BY Acts
<1>2. Good(t, stack[t]) /\ Legal(stack[t])
      BY DEF Stacks, Good
<1>3. Has(stack[t], KbAt \cup SfAt)
      BY <1>1, HasPush
<1>4. ~Lost(stack[t])
      BY <1>2, <1>3 DEF Good
<1>5. ASSUME t \in Listener
      PROVE  FALSE
  <2>1. Cmd(Bot(stack[t]), {"nc"})
        BY <1>1, <1>2, <1>4, <1>5 DEF Good
  <2>2. Rank(Bot(stack[t])) = 3
        BY <2>1, RankIs DEF Cmd, Long
  <2>3. Rank(Top(t)) = 4
        BY <1>1, RankIs
  <2>4. CASE Below(t) = <<>>
    <3>1. Bot(stack[t]) = Top(t)
          BY <1>1, <2>4, BotPush
    <3> QED  BY <2>2, <2>3, <3>1
  <2>5. CASE Below(t) # <<>>
    <3>1. Bot(stack[t]) = Bot(Below(t))
          BY <1>1, <2>5, BotPush
    <3>2. Rank(Top(t)) < Rank(Bot(Below(t)))
          BY <1>1, <1>2, <2>5, BotRank
    <3> QED  BY <2>2, <2>3, <3>1, <3>2
  <2> QED  BY <2>4, <2>5
<1> QED  BY <1>4, <1>5, Constants

\* The stack of a listener that does not terminate.
Listens(s) ==
    \/ \E c \in Frame : s = Push(c, <<>>) /\ c.at \in CmdAt /\ c.kind = "nc" /\ c.proc = "tty"
    \/ \E k, c \in Frame : /\ s = Push(k, Push(c, <<>>)) /\ k.at \in KbAt /\ k.proc = "tty"
                           /\ c.at = "timedOut"
    \/ \E f, k, c \in Frame : /\ s = Push(f, Push(k, Push(c, <<>>))) /\ c.at = "timedOut"
                              /\ f.at \in {"send", "expect"} /\ f.proc = "tty"
                              /\ \/ k.at = "kbTry" /\ f.kind = "break"
                                 \/ k.at = "kbSpace" /\ f.kind = "plain"

\* A listener that is not terminating is inside its nc command.
LEMMA ListenerShape ==
  ASSUME TypeInv, Stacks, NEW l \in Listener, stack[l] # <<>>, ~Lost(stack[l])
  PROVE  Listens(stack[l])
<1>1. l \in Thread
      BY DEF Thread
<1>2. stack[l] \in Seq(Frame) /\ Good(l, stack[l]) /\ Legal(stack[l])
      BY <1>1 DEF TypeInv, Stacks, Good
<1>3. Cmd(Bot(stack[l]), {"nc"}) /\ Bot(stack[l]).proc = "tty"
      BY <1>2 DEF Good
<1>4. Rank(Bot(stack[l])) = 3
      BY <1>3, RankIs DEF Cmd, Long
<1>5. PICK h \in Frame, T \in Seq(Frame) : stack[l] = Push(h, T)
      BY <1>2, UnPush
<1>6. CASE T = <<>>
  <2>1. Bot(stack[l]) = h
        BY <1>5, <1>6, BotPush
  <2> QED  BY <1>3, <1>5, <1>6, <2>1 DEF Listens, Cmd
<1>7. CASE T # <<>>
  <2>1. PICK g \in Frame, U \in Seq(Frame) : T = Push(g, U)
        BY <1>7, UnPush
  <2>2. /\ Bot(stack[l]) = Bot(T) /\ Legal(T) /\ FrameOK(h) /\ Link(h, Head(T)) /\ Head(T) = g
        /\ Rank(h) < Rank(g)
    <3>1. Bot(stack[l]) = Bot(T)
          BY <1>5, <1>7, BotPush
    <3>2. Legal(T) /\ FrameOK(h) /\ Link(h, Head(T)) /\ Rank(h) < Rank(Head(T))
          BY <1>2, <1>5, <1>7, LegalPush
    <3>3. Head(T) = g
          BY <2>1, PushIs
    <3> QED  BY <3>1, <3>2, <3>3
  <2>3. CASE U = <<>>
    <3>1. Bot(T) = g
          BY <2>1, <2>3, BotPush
    <3>2. g.at \in CmdAt /\ g.kind = "nc" /\ g.proc = "tty"
          BY <1>3, <2>2, <3>1 DEF Cmd
    <3>3. g.at = "timedOut" /\ h.at \in KbAt /\ h.proc = "tty"
          BY <2>2, <3>2 DEF Link, CmdAt
    <3> QED  BY <1>5, <2>1, <2>3, <3>3 DEF Listens
  <2>4. CASE U # <<>>
    <3>1. PICK u \in Frame, V \in Seq(Frame) : U = Push(u, V)
          BY <2>4, UnPush
    <3>2. /\ Bot(T) = Bot(U) /\ Legal(U) /\ FrameOK(g) /\ Link(g, Head(U)) /\ Head(U) = u
          /\ Rank(g) < Rank(u)
      <4>1. Bot(T) = Bot(U)
            BY <2>1, <2>4, BotPush
      <4>2. Legal(U) /\ FrameOK(g) /\ Link(g, Head(U)) /\ Rank(g) < Rank(Head(U))
            BY <2>1, <2>2, <2>4, LegalPush
      <4>3. Head(U) = u
            BY <3>1, PushIs
      <4> QED  BY <4>1, <4>2, <4>3
    <3>3. V = <<>>
      <4>1. SUFFICES ASSUME V # <<>>
                     PROVE  FALSE
            OBVIOUS
      <4>2. Bot(U) = Bot(V)
            BY <3>1, <4>1, BotPush
      <4>3. Rank(u) < Rank(Bot(V))
            BY <3>1, <3>2, <4>1, BotRank
      <4> QED  BY <1>4, <2>2, <3>2, <4>2, <4>3, RankIn
    <3>4. Bot(U) = u
          BY <3>1, <3>3, BotPush
    <3>5. u.at \in CmdAt /\ u.kind = "nc" /\ u.proc = "tty"
          BY <1>3, <2>2, <3>2, <3>4 DEF Cmd
    <3>6. u.at = "timedOut" /\ g.at \in KbAt /\ g.proc = "tty"
          BY <3>2, <3>5 DEF Link, CmdAt
    <3>7. \/ g.at = "kbTry" /\ Cmd(h, {"break"}) /\ h.proc = "tty"
          \/ g.at = "kbSpace" /\ Cmd(h, {"plain"}) /\ h.proc = "tty"
          BY <2>2, <3>6 DEF Link, KbAt
    <3>8. h.at \in {"send", "expect"}
          BY <2>2, <3>7 DEF FrameOK, Cmd, CmdAt, Long
    <3> QED  BY <1>5, <2>1, <3>1, <3>3, <3>6, <3>7, <3>8 DEF Listens, Cmd
  <2> QED  BY <2>3, <2>4
<1> QED  BY <1>6, <1>7

\* What returnFalse comes to.
BacksOff(t, b) ==
    \/ isSshConn /\ Went(t, b)
    \/ ~isSshConn /\ Called(t, Interrupt(SelfProcess), b)

LEMMA CallsInterrupt ==
  ASSUME TypeInv, Stacks, NEW t \in Thread, NEW a \in SfAt,
         NEW b \in {"sfRetry", "sfGiveUp", "sfCheck"},
         In(t, a), Call(t, Interrupt(SelfProcess), b), ~Lost(stack[t])
  PROVE  Kept /\ Called(t, Interrupt(SelfProcess), b)
<1> DEFINE f == Interrupt(SelfProcess)
<1>1. Turn(a, b) /\ b \in At /\ b \in SfAt
      BY DEF Turn, At, SfAt
<1>2. SelfProcess \in Process
      BY DEF SelfProcess, Process
<1>3. f \in Frame /\ f.at = "kb" /\ f.n = 0 /\ f.kind = "none"
      BY <1>2, FrameIs
<1>4. Call(t, f, b)
      OBVIOUS
<1> HIDE DEF f
<1>5. /\ FrameOK(f) /\ f.at \in KbAt
      /\ f.at \notin EndAt \cup {"script"} /\ f.at \notin Errands
      BY <1>3 DEF FrameOK, CmdAt, OsAt, SdAt, EndAt, KbAt, Errands, SuAt, CsAt, ErAt
<1>6. ASSUME NEW g \in Frame, g.at = b
      PROVE  Link(f, g) /\ Rank(f) < Rank(g)
  <2>1. Link(f, g)
        BY <1>5, <1>6 DEF Link
  <2>2. Rank(f) = 2 /\ Rank(g) = 4
        BY <1>1, <1>5, <1>6, RankIs DEF Low
  <2> QED  BY <2>1, <2>2
<1>7. b # "timedOut"
      OBVIOUS
<1>8. Kept /\ Called(t, f, b)
      BY <1>1, <1>3, <1>4, <1>5, <1>6, <1>7, StepCall
<1> QED  BY <1>8 DEF f

LEMMA SendFileJoinsMoves ==
  ASSUME TypeInv, Stacks, NEW t \in Thread, SendFileJoins(t)
  PROVE  /\ Kept /\ t = Main /\ ~Lost(stack[t]) /\ In(t, "sfJoin")
         /\ ~InCommand(resendAttempts + 1)
         /\ \/ stack[resendAttempts + 1] = <<>> /\ Called(t, Try("exists"), "sfExists")
            \/ stack[resendAttempts + 1] # <<>> /\ BacksOff(t, "sfRetry")
<1>1. t = Main /\ ~Lost(stack[t]) /\ t \notin Listener
      BY SendFileOfMain, Constants DEF SendFileJoins, SfAt
<1>2. ASSUME In(t, "sfJoin"), Call(t, Try("exists"), "sfExists")
      PROVE  Kept /\ Called(t, Try("exists"), "sfExists")
  <2>1. Turn("sfJoin", "sfExists") /\ "sfExists" \in At
        BY DEF Turn, At, KbAt, EndAt, TdAt, CsAt, ErAt, OsAt, SfAt, SdAt
  <2>2. Command_OK(Try("exists"), "exists")
        BY Commands_OK DEF Kind
  <2>3. ASSUME NEW g \in Frame, g.at = "sfExists", g.kind = Top(t).kind
        PROVE  Link(Try("exists"), g) /\ Rank(Try("exists")) < Rank(g)
    <3>1. Link(Try("exists"), g)
          BY <1>2, <2>2, <2>3, KindAt DEF Link, Command_OK, Cmd
    <3>2. Rank(Try("exists")) < Rank(g)
          BY <2>2, <2>3, RankIs DEF Command_OK, Low, CmdAt, KbAt, EndAt, TdAt, CsAt, ErAt, OsAt,
             SfAt, SdAt, SuAt, Long
    <3> QED  BY <3>1, <3>2
  <2> QED  BY <1>2, <2>1, <2>2, <2>3, StepCall DEF Command_OK
<1>3. ASSUME In(t, "sfJoin"), ReturnFalse(t, "sfRetry")
      PROVE  Kept /\ BacksOff(t, "sfRetry")
  <2>1. ASSUME Goto(t, "sfRetry")
        PROVE  Kept /\ Went(t, "sfRetry")
    <3>1. Turn("sfJoin", "sfRetry") /\ "sfRetry" \in At
          BY DEF Turn, At, KbAt, EndAt, TdAt, CsAt, ErAt, OsAt, SfAt, SdAt
    <3> QED  BY <1>3, <2>1, <3>1, StepGo
  <2>2. ASSUME Call(t, Interrupt(SelfProcess), "sfRetry")
        PROVE  Kept /\ Called(t, Interrupt(SelfProcess), "sfRetry")
    <3>1. "sfJoin" \in SfAt /\ "sfRetry" \in SfAt /\ "sfRetry" \in {"sfRetry", "sfGiveUp", "sfCheck"}
          BY DEF SfAt
    <3> QED  BY <1>3, <1>1, <2>2, <3>1, CallsInterrupt
  <2> QED  BY <1>3, <2>1, <2>2 DEF ReturnFalse, BacksOff
<1> QED  BY <1>1, <1>2, <1>3 DEF SendFileJoins

LEMMA SendFileExistsMoves ==
  ASSUME TypeInv, Stacks, NEW t \in Thread, SendFileExists(t)
  PROVE  /\ Kept /\ t = Main /\ ~Lost(stack[t]) /\ In(t, "sfExists")
         /\ Went(t, "sfCheck") \/ BacksOff(t, "sfRetry")
<1>1. t = Main /\ ~Lost(stack[t]) /\ t \notin Listener
      BY SendFileOfMain, Constants DEF SendFileExists, SfAt
<1>2. ASSUME In(t, "sfExists"), Goto(t, "sfCheck")
      PROVE  Kept /\ Went(t, "sfCheck")
  <2>1. Turn("sfExists", "sfCheck") /\ "sfCheck" \in At
        BY DEF Turn, At, KbAt, EndAt, TdAt, CsAt, ErAt, OsAt, SfAt, SdAt
  <2> QED  BY <1>2, <2>1, StepGo
<1>3. ASSUME In(t, "sfExists"), ReturnFalse(t, "sfRetry")
      PROVE  Kept /\ BacksOff(t, "sfRetry")
  <2>1. ASSUME Goto(t, "sfRetry")
        PROVE  Kept /\ Went(t, "sfRetry")
    <3>1. Turn("sfExists", "sfRetry") /\ "sfRetry" \in At
          BY DEF Turn, At, KbAt, EndAt, TdAt, CsAt, ErAt, OsAt, SfAt, SdAt
    <3> QED  BY <1>3, <2>1, <3>1, StepGo
  <2>2. ASSUME Call(t, Interrupt(SelfProcess), "sfRetry")
        PROVE  Kept /\ Called(t, Interrupt(SelfProcess), "sfRetry")
    <3>1. "sfExists" \in SfAt /\ "sfRetry" \in SfAt /\ "sfRetry" \in {"sfRetry", "sfGiveUp", "sfCheck"}
          BY DEF SfAt
    <3> QED  BY <1>3, <1>1, <2>2, <3>1, CallsInterrupt
  <2> QED  BY <1>3, <2>1, <2>2 DEF ReturnFalse, BacksOff
<1> QED  BY <1>1, <1>2, <1>3 DEF SendFileExists

LEMMA SendFileChecksMoves ==
  ASSUME TypeInv, Stacks, NEW t \in Thread, SendFileChecks(t)
  PROVE  /\ Kept /\ t = Main /\ ~Lost(stack[t])
         /\ \/ In(t, "sfCheck") /\ Called(t, Command("plain"), "sfSum") /\ resendAttempts' = resendAttempts
            \/ In(t, "sfSum") /\ BacksOff(t, "sfGiveUp") /\ resendAttempts' = resendAttempts
            \/ In(t, "sfSum") /\ BacksOff(t, "sfRetry") /\ resendAttempts' = resendAttempts
            \/ In(t, "sfSum") /\ Returned(t, "ok") /\ resendAttempts' = 0
            \/ In(t, "sfGiveUp") /\ Ended(t) /\ resendAttempts' = resendAttempts
<1>1. t = Main /\ ~Lost(stack[t]) /\ t \notin Listener
      BY SendFileOfMain, Constants DEF SendFileChecks, SfAt
<1>2. ASSUME In(t, "sfCheck"), Call(t, Command("plain"), "sfSum")
      PROVE  Kept /\ Called(t, Command("plain"), "sfSum")
  <2>1. Turn("sfCheck", "sfSum") /\ "sfSum" \in At
        BY DEF Turn, At, KbAt, EndAt, TdAt, CsAt, ErAt, OsAt, SfAt, SdAt
  <2>2. Command_OK(Command("plain"), "plain")
        BY Commands_OK DEF Kind
  <2>3. ASSUME NEW g \in Frame, g.at = "sfSum", g.kind = Top(t).kind
        PROVE  Link(Command("plain"), g) /\ Rank(Command("plain")) < Rank(g)
    <3>1. Link(Command("plain"), g)
          BY <1>2, <2>2, <2>3, KindAt DEF Link, Command_OK, Cmd
    <3>2. Rank(Command("plain")) < Rank(g)
          BY <2>2, <2>3, RankIs DEF Command_OK, Low, CmdAt, KbAt, EndAt, TdAt, CsAt, ErAt, OsAt,
             SfAt, SdAt, SuAt, Long
    <3> QED  BY <3>1, <3>2
  <2> QED  BY <1>2, <2>1, <2>2, <2>3, StepCall DEF Command_OK
<1>3. ASSUME In(t, "sfSum"), ReturnFalse(t, "sfGiveUp")
      PROVE  Kept /\ BacksOff(t, "sfGiveUp")
  <2>1. ASSUME Goto(t, "sfGiveUp")
        PROVE  Kept /\ Went(t, "sfGiveUp")
    <3>1. Turn("sfSum", "sfGiveUp") /\ "sfGiveUp" \in At
          BY DEF Turn, At, KbAt, EndAt, TdAt, CsAt, ErAt, OsAt, SfAt, SdAt
    <3> QED  BY <1>3, <2>1, <3>1, StepGo
  <2>2. ASSUME Call(t, Interrupt(SelfProcess), "sfGiveUp")
        PROVE  Kept /\ Called(t, Interrupt(SelfProcess), "sfGiveUp")
    <3>1. "sfSum" \in SfAt /\ "sfGiveUp" \in SfAt /\ "sfGiveUp" \in {"sfRetry", "sfGiveUp", "sfCheck"}
          BY DEF SfAt
    <3> QED  BY <1>3, <1>1, <2>2, <3>1, CallsInterrupt
  <2> QED  BY <1>3, <2>1, <2>2 DEF ReturnFalse, BacksOff
<1>4. ASSUME In(t, "sfSum"), ReturnFalse(t, "sfRetry")
      PROVE  Kept /\ BacksOff(t, "sfRetry")
  <2>1. ASSUME Goto(t, "sfRetry")
        PROVE  Kept /\ Went(t, "sfRetry")
    <3>1. Turn("sfSum", "sfRetry") /\ "sfRetry" \in At
          BY DEF Turn, At, KbAt, EndAt, TdAt, CsAt, ErAt, OsAt, SfAt, SdAt
    <3> QED  BY <1>4, <2>1, <3>1, StepGo
  <2>2. ASSUME Call(t, Interrupt(SelfProcess), "sfRetry")
        PROVE  Kept /\ Called(t, Interrupt(SelfProcess), "sfRetry")
    <3>1. "sfSum" \in SfAt /\ "sfRetry" \in SfAt /\ "sfRetry" \in {"sfRetry", "sfGiveUp", "sfCheck"}
          BY DEF SfAt
    <3> QED  BY <1>4, <1>1, <2>2, <3>1, CallsInterrupt
  <2> QED  BY <1>4, <2>1, <2>2 DEF ReturnFalse, BacksOff
<1>5. ASSUME In(t, "sfSum"), Return(t, "ok")
      PROVE  Kept /\ Returned(t, "ok")
      BY <1>5, StepReturn DEF EndAt
<1>6. ASSUME In(t, "sfGiveUp"), Terminate(t, FALSE)
      PROVE  Kept /\ Ended(t)
      BY <1>6, StepEnd
<1> QED  BY <1>1, <1>2, <1>3, <1>4, <1>5, <1>6 DEF SendFileChecks

LEMMA SendFileRetriesMoves ==
  ASSUME TypeInv, Stacks, NEW t \in Thread, SendFileRetries(t)
  PROVE  /\ Kept /\ t = Main /\ ~Lost(stack[t]) /\ In(t, "sfRetry")
         /\ \/ /\ resendAttempts < LimitResend - 1 /\ resendAttempts' = resendAttempts + 1 /\ Went(t, "sf")
            \/ resendAttempts' = resendAttempts /\ Ended(t)
<1>1. t = Main /\ ~Lost(stack[t]) /\ t \notin Listener
      BY SendFileOfMain, Constants DEF SendFileRetries, SfAt
<1>2. ASSUME In(t, "sfRetry"), Goto(t, "sf")
      PROVE  Kept /\ Went(t, "sf")
  <2>1. Turn("sfRetry", "sf") /\ "sf" \in At
        BY DEF Turn, At, KbAt, EndAt, TdAt, CsAt, ErAt, OsAt, SfAt, SdAt
  <2> QED  BY <1>2, <2>1, StepGo
<1>3. ASSUME In(t, "sfRetry"), Terminate(t, FALSE)
      PROVE  Kept /\ Ended(t)
      BY <1>3, StepEnd
<1> QED  BY <1>1, <1>2, <1>3 DEF SendFileRetries

\* The listener of the attempt starts, and the others are as they were.
Listening(t) ==
    /\ ret' = ret
    /\ stack'[t] = Push([Top(t) EXCEPT !.at = "sfJoin"], Below(t))
    /\ Lost(stack'[t]) <=> Lost(stack[t])
    /\ resendAttempts + 1 \in Listener
    /\ stack'[resendAttempts + 1] = <<Try("nc")>>
    /\ \A u \in Thread : u # t /\ u # resendAttempts + 1 => stack'[u] = stack[u]

LEMMA SendFileStartsMoves ==
  ASSUME TypeInv, Stacks, NEW t \in Thread, SendFileStarts(t)
  PROVE  /\ Kept /\ t = Main /\ ~Lost(stack[t]) /\ In(t, "sf")
         /\ \/ ~isSshConn /\ Listening(t)
            \/ isSshConn /\ Went(t, "sfRetry")
            \/ isSshConn /\ Called(t, Interrupt(SelfProcess), "sfCheck")
<1>1. t = Main /\ ~Lost(stack[t]) /\ t \notin Listener
      BY SendFileOfMain, Constants DEF SendFileStarts, SfAt
<1>2. ASSUME In(t, "sf"), Goto(t, "sfRetry")
      PROVE  Kept /\ Went(t, "sfRetry")
  <2>1. Turn("sf", "sfRetry") /\ "sfRetry" \in At
        BY DEF Turn, At, KbAt, EndAt, TdAt, CsAt, ErAt, OsAt, SfAt, SdAt
  <2> QED  BY <1>2, <2>1, StepGo
<1>3. ASSUME In(t, "sf"), Call(t, Interrupt(SelfProcess), "sfCheck")
      PROVE  Kept /\ Called(t, Interrupt(SelfProcess), "sfCheck")
      BY <1>3, <1>1, CallsInterrupt DEF SfAt
<1>4. ASSUME In(t, "sf"), ~isSshConn, ret' = ret,
             stack' = [stack EXCEPT ![t] = <<[Top(t) EXCEPT !.at = "sfJoin"]>> \o Tail(@),
                                    ![resendAttempts + 1] = <<Try("nc")>>]
      PROVE  Kept /\ Listening(t)
  <2> DEFINE g == [Top(t) EXCEPT !.at = "sfJoin"]  c == Try("nc")  l == resendAttempts + 1
  <2>1. /\ Top(t) \in Frame /\ Below(t) \in Seq(Frame) /\ stack[t] # <<>>
        /\ stack[t] = Push(Top(t), Below(t)) /\ Top(t).at = "sf" /\ FrameOK(Top(t)) /\ Good(t, stack[t])
        BY <1>4, Acts, TopIs_OK DEF Stacks
  <2>2. "sfJoin" \in At /\ Turn("sf", "sfJoin")
        BY DEF At, Turn, SfAt
  <2>3. /\ g \in Frame /\ g.at = "sfJoin" /\ g.kind = Top(t).kind /\ g.eoe = Top(t).eoe
        /\ g.intr = Top(t).intr /\ g.proc = Top(t).proc /\ g.n = Top(t).n
        BY <2>1, <2>2, Moved
  <2>4. l \in Listener /\ l \in Thread /\ l # t /\ t \in Thread
        BY <1>1, Constants DEF TypeInv, Listener, Thread, Main
  <2>5. stack' = [stack EXCEPT ![t] = Push(g, Below(t)), ![l] = <<c>>]
        BY <1>4 DEF Push, Below
  <2>6. c \in Frame /\ Cmd(c, {"nc"}) /\ FrameOK(c) /\ c.proc = "tty" /\ c.at = "send"
    <3>1. ~isSshConn
          BY <1>4
    <3>2. SelfProcess = "tty"
          BY <3>1 DEF SelfProcess
    <3> QED  BY <3>2, CommandIs, Commands_OK DEF Kind
  <2> HIDE DEF g, c, l
  <2>7. Alike(g, Top(t)) /\ FrameOK(g)
        BY <2>1, <2>2, <2>3, TurnsAlike
  <2>8. Good(t, Push(g, Below(t))) /\ (Lost(Push(g, Below(t))) <=> Lost(stack[t]))
        BY <2>1, <2>3, <2>7, GoodGo
  <2>9. Push(g, Below(t)) \in Seq(Frame) /\ <<c>> \in Seq(Frame)
        BY <2>1, <2>3, <2>6, PushIs
  <2>10. /\ stack' \in [Thread -> Seq(Frame)] /\ stack'[t] = Push(g, Below(t)) /\ stack'[l] = <<c>>
         /\ \A u \in Thread : u # t /\ u # l => stack'[u] = stack[u]
        BY <2>4, <2>5, <2>9 DEF TypeInv
  <2>11. Good(l, <<c>>)
    <3>1. <<c>> = Push(c, <<>>) /\ <<>> \in Seq(Frame)
          BY DEF Push
    <3>2. Legal(<<c>>)
          BY <2>6, <3>1, LegalPush, LegalNone
    <3>3. Bot(<<c>>) = c
          BY <2>6, <3>1, BotPush
    <3>4. \A A : Has(<<c>>, A) <=> c.at \in A
          BY <2>6, <3>1, HasPush, HasNone
    <3>5. c.at \notin EndAt \cup Errands \cup {"script"}
          BY <2>6 DEF EndAt, Errands, SuAt, OsAt, CsAt, ErAt
    <3> QED  BY <2>4, <2>6, <3>2, <3>3, <3>4, <3>5, Constants DEF Good, Lost
  <2>12. Stacks'
        BY <2>8, <2>10, <2>11 DEF Stacks
  <2>13. Lost(stack'[t]) <=> Lost(stack[t])
        BY <2>8, <2>10
  <2> QED  BY <1>4, <2>4, <2>10, <2>12, <2>13 DEF Kept, Listening, Typed, g, c, l
<1> QED  BY <1>1, <1>2, <1>3, <1>4 DEF SendFileStarts

------------------------------------------------------------------------------
(***************************************************************************)
(* What the places of a stack are after a step.                            *)
(***************************************************************************)

\* What a thread's top frame says of its stack.
LEMMA HereIs ==
  ASSUME TypeInv, Stacks, NEW t \in Thread, NEW a, In(t, a)
  PROVE  /\ Top(t) \in Frame /\ Top(t).at = a /\ Head(stack[t]) = Top(t)
         /\ stack[t] # <<>> /\ Below(t) \in Seq(Frame)
         /\ \A A : Has(stack[t], A) <=> (a \in A \/ Has(Below(t), A))
         /\ \A S : Calls(stack[t], S) <=> (Below(t) = <<>> \/ (Top(t) \in S /\ Calls(Below(t), S)))
         /\ Bot(stack[t]) = IF Below(t) = <<>> THEN Top(t) ELSE Bot(Below(t))
<1>1. /\ Top(t) \in Frame /\ Below(t) \in Seq(Frame) /\ stack[t] # <<>>
      /\ stack[t] = Push(Top(t), Below(t)) /\ Top(t).at = a /\ Head(stack[t]) = Top(t)
      BY Acts
<1>2. \A A : Has(stack[t], A) <=> (a \in A \/ Has(Below(t), A))
      BY <1>1, HasPush
<1>3. \A S : Calls(stack[t], S) <=> (Below(t) = <<>> \/ (Top(t) \in S /\ Calls(Below(t), S)))
      BY <1>1, CallsPush
<1>4. Bot(stack[t]) = IF Below(t) = <<>> THEN Top(t) ELSE Bot(Below(t))
      BY <1>1, BotPush
<1> QED  BY <1>1, <1>2, <1>3, <1>4

Moving(t, b) == [Top(t) EXCEPT !.at = b]

\* What a stack is after the top has gone on to g, or g has called f.
OneOn(s, g, T) ==
    /\ s # <<>> /\ Head(s) = g /\ s = Push(g, T)
    /\ \A A : Has(s, A) <=> (g.at \in A \/ Has(T, A))
    /\ \A S : Calls(s, S) <=> (T = <<>> \/ (g \in S /\ Calls(T, S)))
    /\ Bot(s) = IF T = <<>> THEN g ELSE Bot(T)
TwoOn(s, f, g, T) ==
    /\ s # <<>> /\ Head(s) = f /\ s = Push(f, Push(g, T)) /\ Len(s) # 1
    /\ \A A : Has(s, A) <=> (f.at \in A \/ g.at \in A \/ Has(T, A))
    /\ \A S : Calls(s, S) <=> (f \in S /\ (T = <<>> \/ (g \in S /\ Calls(T, S))))
    /\ Bot(s) = IF T = <<>> THEN g ELSE Bot(T)

\* The places of a stack with one new frame on top.
LEMMA OneIs ==
  ASSUME NEW g \in Frame, NEW T \in Seq(Frame)
  PROVE  OneOn(Push(g, T), g, T)
<1>1. Push(g, T) # <<>> /\ Head(Push(g, T)) = g
      BY PushIs
<1>2. \A A : Has(Push(g, T), A) <=> (g.at \in A \/ Has(T, A))
      BY HasPush
<1>3. \A S : Calls(Push(g, T), S) <=> (T = <<>> \/ (g \in S /\ Calls(T, S)))
      BY CallsPush
<1>4. Bot(Push(g, T)) = IF T = <<>> THEN g ELSE Bot(T)
      BY BotPush
<1> QED  BY <1>1, <1>2, <1>3, <1>4 DEF OneOn

\* The places of a stack with two.
LEMMA TwoIs ==
  ASSUME NEW f \in Frame, NEW g \in Frame, NEW T \in Seq(Frame)
  PROVE  TwoOn(Push(f, Push(g, T)), f, g, T)
<1> DEFINE p == Push(g, T)
<1>1. p \in Seq(Frame) /\ p # <<>> /\ Len(p) \in Nat /\ Len(p) # 0
      BY PushIs
<1>2. OneOn(p, g, T)
      BY OneIs
<1> HIDE DEF p
<1>3. Push(f, p) # <<>> /\ Head(Push(f, p)) = f /\ Len(Push(f, p)) # 1
  <2>1. Len(Push(f, p)) = Len(p) + 1 /\ Push(f, p) # <<>> /\ Head(Push(f, p)) = f
        BY <1>1, PushIs
  <2> QED  BY <1>1, <2>1
<1>4. \A A : Has(Push(f, p), A) <=> (f.at \in A \/ g.at \in A \/ Has(T, A))
  <2>1. \A A : Has(Push(f, p), A) <=> (f.at \in A \/ Has(p, A))
        BY <1>1, HasPush
  <2> QED  BY <1>2, <2>1 DEF OneOn
<1>5. \A S : Calls(Push(f, p), S) <=> (f \in S /\ (T = <<>> \/ (g \in S /\ Calls(T, S))))
  <2>1. \A S : Calls(Push(f, p), S) <=> (p = <<>> \/ (f \in S /\ Calls(p, S)))
        BY <1>1, CallsPush
  <2> QED  BY <1>1, <1>2, <2>1 DEF OneOn
<1>6. Bot(Push(f, p)) = IF T = <<>> THEN g ELSE Bot(T)
  <2>1. Bot(Push(f, p)) = Bot(p)
        BY <1>1, BotPush
  <2> QED  BY <1>2, <2>1 DEF OneOn
<1> QED  BY <1>3, <1>4, <1>5, <1>6 DEF TwoOn, p

LEMMA WentIs ==
  ASSUME TypeInv, Stacks, NEW t \in Thread, NEW a, In(t, a), NEW b \in At, Went(t, b)
  PROVE  /\ OneOn(stack'[t], Moving(t, b), Below(t))
         /\ Moving(t, b) \in Frame /\ Moving(t, b).at = b /\ Moving(t, b).kind = Top(t).kind
         /\ Moving(t, b).proc = Top(t).proc /\ Moving(t, b).n = Top(t).n /\ Moving(t, b).eoe = Top(t).eoe
<1>1. Top(t) \in Frame /\ Below(t) \in Seq(Frame)
      BY Acts
<1>2. /\ Moving(t, b) \in Frame /\ Moving(t, b).at = b /\ Moving(t, b).kind = Top(t).kind
      /\ Moving(t, b).proc = Top(t).proc /\ Moving(t, b).n = Top(t).n /\ Moving(t, b).eoe = Top(t).eoe
      BY <1>1, Moved DEF Moving
<1>3. stack'[t] = Push(Moving(t, b), Below(t))
      BY DEF Went, Moving
<1> QED  BY <1>1, <1>2, <1>3, OneIs

LEMMA CalledIs ==
  ASSUME TypeInv, Stacks, NEW t \in Thread, NEW a, In(t, a), NEW f \in Frame, NEW b \in At,
         Called(t, f, b)
  PROVE  /\ TwoOn(stack'[t], f, Moving(t, b), Below(t))
         /\ Moving(t, b) \in Frame /\ Moving(t, b).at = b /\ Moving(t, b).kind = Top(t).kind
         /\ Moving(t, b).proc = Top(t).proc /\ Moving(t, b).n = Top(t).n /\ Moving(t, b).eoe = Top(t).eoe
<1>1. Top(t) \in Frame /\ Below(t) \in Seq(Frame)
      BY Acts
<1>2. /\ Moving(t, b) \in Frame /\ Moving(t, b).at = b /\ Moving(t, b).kind = Top(t).kind
      /\ Moving(t, b).proc = Top(t).proc /\ Moving(t, b).n = Top(t).n /\ Moving(t, b).eoe = Top(t).eoe
      BY <1>1, Moved DEF Moving
<1>3. stack'[t] = Push(f, Push(Moving(t, b), Below(t)))
      BY DEF Called, Moving
<1> QED  BY <1>1, <1>2, <1>3, TwoIs

\* A main thread that has not ended is in its script or below it.
LEMMA MainCalled ==
  ASSUME TypeInv, Stacks, NEW a, In(Main, a)
  PROVE  /\ Lost(stack[Main]) \/ Bot(stack[Main]).at = "script"
         /\ ~(Lost(stack[Main]) /\ Bot(stack[Main]).at = "script")
         /\ a \notin EndAt \cup {"script"} => Below(Main) # <<>>
         /\ a = "script" => Below(Main) = <<>> /\ Bot(stack[Main]) = Top(Main) /\ ~Lost(stack[Main])
         /\ a \in EndAt => Below(Main) = <<>> /\ Bot(stack[Main]) = Top(Main) /\ Lost(stack[Main])
<1>1. /\ Top(Main) \in Frame /\ Below(Main) \in Seq(Frame) /\ stack[Main] # <<>>
      /\ stack[Main] = Push(Top(Main), Below(Main)) /\ Top(Main).at = a
      BY Acts, Constants
<1>2. Good(Main, stack[Main]) /\ Legal(stack[Main])
      BY Constants DEF Stacks, Good
<1>3. Bot(stack[Main]).at \in EndAt \cup {"script"}
      BY <1>2 DEF Good
<1>4. "script" \notin EndAt
      BY DEF EndAt
<1>5. Bot(stack[Main]) = IF Below(Main) = <<>> THEN Top(Main) ELSE Bot(Below(Main))
      BY <1>1, BotPush
<1>6. a \in EndAt \cup {"script"} => Below(Main) = <<>>
      BY <1>1, <1>2, NoSecond
<1> QED  BY <1>1, <1>3, <1>4, <1>5, <1>6 DEF Lost

------------------------------------------------------------------------------
(***************************************************************************)
(* The inductive invariant.                                                *)
(*                                                                         *)
(* The program has no list of its legal states: they follow from the order *)
(* of the script, from the flags, and from who got there first.  Types and *)
(* stacks are not enough for any of the properties: each needs to know     *)
(* where the script is (Course), which in turn needs the listeners that    *)
(* run beside it (Netcat) and the shutdown that any thread may begin       *)
(* (Ending). The parts come one after the other; Inv is their conjunction. *)
(***************************************************************************)

TopIs(s, A) == s # <<>> /\ Head(s).at \in A
main     == stack[Main]
Nth      == Bot(main).n
Scripted == Bot(main).at = "script"
Idle     == TopIs(main, {"script"})

Held == {"kbTry", "kbSpace"}
Down == {"sdUser", "sdTerm", "sdPower", "sdDown"}

\* A main thread that terminates runs errands for its shutdown only, as the user
\* that the errand needs; and no SSH connection is opened past the limit.
Errand ==
    /\ Lost(main) /\ Has(main, Errands) => Has(main, {"sdTerm", "sdPower"})
    /\ Has(main, ErAt) \/ (Lost(main) /\ Has(main, OsAt)) => isCurrentUserRoot
    /\ Lost(main) /\ Has(main, {"su", "suOpen"}) => ~isCurrentUserRoot
    /\ Has(main, {"osSpawn", "osPass", "osIn"}) => sshRetries < LimitSsh

\* The frames that the n-th call of the script can lead to, in order.
Belongs(n) ==
    {f \in Frame :
      \/ n = 1 /\ f.proc = "tty" /\ (f.at \in SfAt \cup KbAt \/ Cmd(f, {"plain", "exists", "break"}))
      \/ n = 2 /\ f.proc = "tty" /\ Cmd(f, {"plain"})
      \/ n \in {3, 8} /\ \/ f.at \in {"su", "suName", "suPass"}
                         \/ f.at = "return" /\ f.kind # "none"
                         \/ Cmd(f, {"exit", "root", "user", "password"})
      \/ n = 4 /\ ((f.at \in OsAt /\ f.kind = "user") \/ (Cmd(f, {"sshPrompt", "sshYes", "sshPassword"}) /\ f.proc = "ssh"))
      \/ n = 5 /\ \/ f.at \in SfAt \ {"sfJoin"}
                  \/ f.proc = "ssh" /\ (f.at \in KbAt \/ Cmd(f, {"plain", "exists", "break"}))
      \/ n = 6 /\ f.proc = "ssh" /\ Cmd(f, {"plain"})
      \/ n = 7 /\ (f.at \in CsAt \/ Cmd(f, {"sshExit"}))
      \/ n = 9 /\ \/ f.at \in SdAt \cup TdAt
                  \/ f.at = "return" /\ f.kind = "none"
                  \/ Cmd(f, {"poweroff", "quit"}) /\ f.proc = "tty" /\ f.eoe}

\* The n-th call of the script leads to the frames of Belongs(n) only, and the
\* user and the connection are those that the calls before it have left.
Course == Scripted =>
    /\ Nth \in 0 .. 9
    /\ Calls(main, Belongs(Nth))
    /\ Nth \in {0, 1, 2, 9} => isCurrentUserRoot
    /\ Nth \in {4, 5, 6, 7} => ~isCurrentUserRoot
    /\ Nth = 3 => (isCurrentUserRoot <=> Has(main, {"su"}))
    /\ Nth = 8 => (isCurrentUserRoot <=> ~Has(main, {"su"}))
    /\ Nth \in {0, 1, 2, 3, 8, 9} => ~isSshConn
    /\ Nth = 4 => /\ Has(main, {"os", "osSpawn"}) => ~isSshConn
                  /\ Has(main, {"osPass", "osIn"}) => isSshConn
                  /\ (Idle /\ ret[Main] = "ok") => isSshConn
    /\ Nth \in {5, 6} => isSshConn
    /\ Nth = 7 => (isSshConn <=> Has(main, CsAt))

\* The interrupt flag has one owner, and is given back unless the tool terminates.
Interrupted ==
    /\ \A t \in Thread : Has(stack[t], Held) => keyboardInterruptTriggered
    /\ \A t, u \in Thread : Has(stack[t], Held) /\ Has(stack[u], Held) => t = u
    /\ keyboardInterruptTriggered => \E t \in Thread : Has(stack[t], Held) \/ Lost(stack[t])

\* The command of a listener is over, or is not yet begun; it waits.
Off(s)   == s = <<>> \/ (Len(s) = 1 /\ Head(s).at = "timedOut")
Waits(s) == Len(s) = 1 /\ Head(s).at \in {"send", "expect"}
Clear    == \A l \in Listener : Off(stack[l])
Current  == resendAttempts + 1
\* The command of every listener is over, or the target is being terminated.
Silent   == Clear \/ terminateTargetStarted

\* When the command of a listener can still be running: only that of the current
\* try, and only while main is inside the transfer that waits for it.
Netcat == Scripted =>
    /\ terminateTargetStarted \/ \A l \in Listener : l # Current => Off(stack[l])
    /\ Nth = 0 \/ (Nth = 1 /\ ~Idle) => \A l \in Listener : l > Current => stack[l] = <<>>
    /\ Nth = 0 \/ (Nth = 1 /\ TopIs(main, {"sf"})) => stack[Current] = <<>>
    /\ Nth >= 2 \/ Idle => Silent
    /\ Has(main, {"sf", "sfExists", "sfCheck", "sfSum", "sfGiveUp", "kbSpace"}) => Silent
    /\ TopIs(main, {"sfRetry"}) => Silent
    /\ TopIs(main, {"kbTry"}) /\ Head(main).n > 0 => Silent
    /\ Has(main, {"kbTry"}) => \/ terminateTargetStarted \/ Off(stack[Current])
                               \/ Lost(stack[Current]) /\ tty = "closed"
    /\ Has(main, {"kb"}) => \/ terminateTargetStarted
                            \/ ~Waits(stack[Current]) /\ ~TopIs(stack[Current], {"kb"})
    /\ ~terminateTargetStarted => \A l \in Listener : Lost(stack[l]) =>
           tty = "closed" \/ (keyboardInterruptTriggered /\ ~Has(main, Held))

AnyLost == \E t \in Thread : Lost(stack[t])
AtHome  == isCurrentUserRoot /\ ~isSshConn
PastSd  == Scripted /\ Nth = 9 /\ (Idle \/ Has(main, Down \cup {"return"}))

\* The flags and the poweroffs count one shutdown, wherever it was begun.
Ending ==
    /\ ~attemptShutdownFailed => /\ ~terminateTargetStarted /\ poweroffs = 0
                                 /\ \A t \in Thread : ~Has(stack[t], Down)
    /\ \A t, u \in Thread : Has(stack[t], Down) /\ Has(stack[u], Down) => t = u
    /\ \A t \in Thread : Has(stack[t], {"sdUser", "sdTerm"}) => ~terminateTargetStarted
    /\ \A t \in Thread : Has(stack[t], {"sdUser", "sdTerm", "sdPower"}) => poweroffs = 0
    /\ \A t \in Thread : Has(stack[t], {"sdDown"}) =>
           poweroffs = IF TopIs(stack[t], {"send"}) THEN 0 ELSE 1
    /\ poweroffs \in {0, 1}
    /\ \A l \in Listener : Has(stack[l], {"sdUser", "sdTerm"}) => AtHome
    /\ ~attemptShutdownFailed /\ ~Clear => AtHome
    /\ attemptShutdownFailed => AnyLost \/ PastSd

\* Where the shutdown of the script has come to.
Closing ==
    /\ PastSd => Clear
    /\ PastSd /\ (Has(main, {"return"}) \/ Idle) => poweroffs = 1 /\ tty = "closed"
    /\ PastSd /\ TopIs(main, {"sdDown"}) => tty = "closed"
    /\ PastSd /\ (TopIs(main, {"return"}) \/ Idle) => targetTearDownCalled

\* What the terminals show while nothing terminates.
Screens == Scripted /\ ~AnyLost =>
    /\ Nth <= 2 => tty \in {"root", "closed"}
    /\ Nth \in {5, 6} => ssh \in {"user", "closed"}
    /\ Nth = 4 /\ (TopIs(main, {"osIn"}) \/ Idle) /\ ret[Main] = "ok" => ssh \in {"user", "closed"}

Inv == /\ TypeInv /\ Stacks /\ Errand /\ Course /\ Interrupted /\ Netcat /\ Ending
       /\ Closing /\ Screens

------------------------------------------------------------------------------
(***************************************************************************)
(* Stays(t, P): a step of t leaves no place in its stack that was not      *)
(* there or is not in P.  One lemma for each action.                       *)
(***************************************************************************)

\* A step of t, at the places P, which are the only ones that come or go.
Stays(t, P) ==
    /\ Others(t)
    /\ \/ Ended(t)
       \/ /\ Lost(stack'[t]) <=> Lost(stack[t])
          /\ Below(t) # <<>> => stack'[t] # <<>> /\ Bot(stack'[t]) = Bot(stack[t])
          /\ \A A : (\A p \in P : p \notin A) => (Has(stack'[t], A) <=> Has(stack[t], A))

LEMMA GoStays ==
  ASSUME TypeInv, Stacks, NEW t \in Thread, NEW a, In(t, a), NEW b \in At, Went(t, b)
  PROVE  Stays(t, {a, b})
<1>1. OneOn(stack'[t], Moving(t, b), Below(t)) /\ Moving(t, b).at = b
      BY WentIs
<1>2. /\ \A A : Has(stack[t], A) <=> (a \in A \/ Has(Below(t), A))
      /\ Bot(stack[t]) = IF Below(t) = <<>> THEN Top(t) ELSE Bot(Below(t))
      BY HereIs
<1> QED  BY <1>1, <1>2 DEF Stays, OneOn, Went

LEMMA CallStays ==
  ASSUME TypeInv, Stacks, NEW t \in Thread, NEW a, In(t, a), NEW f \in Frame, NEW b \in At,
         Called(t, f, b)
  PROVE  Stays(t, {a, b, f.at})
<1>1. TwoOn(stack'[t], f, Moving(t, b), Below(t)) /\ Moving(t, b).at = b
      BY CalledIs
<1>2. /\ \A A : Has(stack[t], A) <=> (a \in A \/ Has(Below(t), A))
      /\ Bot(stack[t]) = IF Below(t) = <<>> THEN Top(t) ELSE Bot(Below(t))
      BY HereIs
<1> QED  BY <1>1, <1>2 DEF Stays, TwoOn, Called

LEMMA ReturnStays ==
  ASSUME TypeInv, Stacks, NEW t \in Thread, NEW a, In(t, a), NEW r, Returned(t, r)
  PROVE  Stays(t, {a})
<1>2. /\ \A A : Has(stack[t], A) <=> (a \in A \/ Has(Below(t), A))
      /\ Bot(stack[t]) = IF Below(t) = <<>> THEN Top(t) ELSE Bot(Below(t))
      BY HereIs
<1> QED  BY <1>2 DEF Stays, Returned

LEMMA EndStays ==
  ASSUME NEW t \in Thread, Ended(t), NEW P
  PROVE  Stays(t, P)
  BY DEF Stays, Ended

LEMMA StaysMore ==
  ASSUME NEW t \in Thread, NEW P, NEW Q, Stays(t, P), \A p \in P : p \in Q
  PROVE  Stays(t, Q)
  BY DEF Stays

LEMMA KbIs ==
  ASSUME TypeInv, NEW t \in Thread, stack[t] # <<>>
  PROVE  /\ Interrupt(Top(t).proc) \in Frame /\ Interrupt(Top(t).proc).at = "kb"
         /\ Interrupt(Top(t).proc).n = 0 /\ Interrupt(Top(t).proc).kind = "none"
         /\ Interrupt(Top(t).proc).proc = Top(t).proc
         /\ Interrupt(SelfProcess) \in Frame /\ Interrupt(SelfProcess).at = "kb"
         /\ Interrupt(SelfProcess).n = 0 /\ Interrupt(SelfProcess).kind = "none"
         /\ Interrupt(SelfProcess).proc = SelfProcess
<1>1. Top(t) \in Frame
      BY UnPush DEF TypeInv, Top
<1>2. Top(t).proc \in Process /\ SelfProcess \in Process
      BY <1>1 DEF Frame, SelfProcess, Process
<1> QED  BY <1>2, FrameIs

LEMMA SendsStays ==
  ASSUME TypeInv, Stacks, NEW t \in Thread, Sends(t)
  PROVE  Stays(t, {"send", "expect"})
<1>1. ASSUME In(t, "send") /\ Went(t, "expect")
      PROVE  Stays(t, {"send", "expect"})
  <2>1. Stays(t, {"send", "expect"})
        BY <1>1, GoStays DEF At
  <2> QED  BY <2>1, StaysMore
<1>2. ASSUME In(t, "send") /\ Ended(t)
      PROVE  Stays(t, {"send", "expect"})
      BY <1>2, EndStays
<1> QED  BY <1>1, <1>2, SendsMoves

LEMMA AnswersStays ==
  ASSUME TypeInv, Stacks, NEW t \in Thread, Answers(t)
  PROVE  Stays(t, {"expect"})
<1>1. ASSUME In(t, "expect") /\ Returned(t, "ok")
      PROVE  Stays(t, {"expect"})
  <2>1. Stays(t, {"expect"})
        BY <1>1, ReturnStays
  <2> QED  BY <2>1, StaysMore
<1>2. ASSUME In(t, "expect") /\ Returned(t, "failed")
      PROVE  Stays(t, {"expect"})
  <2>1. Stays(t, {"expect"})
        BY <1>2, ReturnStays
  <2> QED  BY <2>1, StaysMore
<1>3. ASSUME In(t, "expect") /\ Returned(t, "asked")
      PROVE  Stays(t, {"expect"})
  <2>1. Stays(t, {"expect"})
        BY <1>3, ReturnStays
  <2> QED  BY <2>1, StaysMore
<1> QED  BY <1>1, <1>2, <1>3, AnswersMoves

LEMMA TimesOutStays ==
  ASSUME TypeInv, Stacks, NEW t \in Thread, TimesOut(t)
  PROVE  Stays(t, {"expect", "timedOut", "kb"})
<1>1. ASSUME In(t, "expect") /\ Ended(t)
      PROVE  Stays(t, {"expect", "timedOut", "kb"})
      BY <1>1, EndStays
<1>2. ASSUME In(t, "expect") /\ Called(t, Interrupt(Top(t).proc), "timedOut")
      PROVE  Stays(t, {"expect", "timedOut", "kb"})
  <2>1. Interrupt(Top(t).proc) \in Frame /\ Interrupt(Top(t).proc).at = "kb" /\ "timedOut" \in At
    <3>1. Interrupt(Top(t).proc) \in Frame /\ Interrupt(Top(t).proc).at = "kb"
          BY <1>2, Acts, KbIs
    <3> QED  BY <3>1 DEF At
  <2>2. Stays(t, {"expect", "timedOut", Interrupt(Top(t).proc).at})
        BY <1>2, <2>1, CallStays
  <2> QED  BY <2>1, <2>2, StaysMore
<1>3. ASSUME In(t, "expect") /\ Returned(t, "timeout")
      PROVE  Stays(t, {"expect", "timedOut", "kb"})
  <2>1. Stays(t, {"expect"})
        BY <1>3, ReturnStays
  <2> QED  BY <2>1, StaysMore
<1> QED  BY <1>1, <1>2, <1>3, TimesOutMoves

LEMMA ResolvedStays ==
  ASSUME TypeInv, Stacks, NEW t \in Thread, Resolved(t)
  PROVE  Stays(t, {"timedOut"})
<1>1. ASSUME In(t, "timedOut") /\ Returned(t, "timeout")
      PROVE  Stays(t, {"timedOut"})
  <2>1. Stays(t, {"timedOut"})
        BY <1>1, ReturnStays
  <2> QED  BY <2>1, StaysMore
<1> QED  BY <1>1, ResolvedMoves

LEMMA EofStays ==
  ASSUME TypeInv, Stacks, NEW t \in Thread, Eof(t)
  PROVE  Stays(t, {"expect"})
<1>1. ASSUME In(t, "expect") /\ Returned(t, "ok")
      PROVE  Stays(t, {"expect"})
  <2>1. Stays(t, {"expect"})
        BY <1>1, ReturnStays
  <2> QED  BY <2>1, StaysMore
<1>2. ASSUME In(t, "expect") /\ Returned(t, "failed")
      PROVE  Stays(t, {"expect"})
  <2>1. Stays(t, {"expect"})
        BY <1>2, ReturnStays
  <2> QED  BY <2>1, StaysMore
<1>3. ASSUME In(t, "expect") /\ Ended(t)
      PROVE  Stays(t, {"expect"})
      BY <1>3, EndStays
<1> QED  BY <1>1, <1>2, <1>3, EofMoves

LEMMA InterruptStartsStays ==
  ASSUME TypeInv, Stacks, NEW t \in Thread, InterruptStarts(t)
  PROVE  Stays(t, {"kb", "kbTry"})
<1>1. ASSUME In(t, "kb") /\ Returned(t, "ok")
      PROVE  Stays(t, {"kb", "kbTry"})
  <2>1. Stays(t, {"kb"})
        BY <1>1, ReturnStays
  <2> QED  BY <2>1, StaysMore
<1>2. ASSUME In(t, "kb") /\ Ended(t)
      PROVE  Stays(t, {"kb", "kbTry"})
      BY <1>2, EndStays
<1>3. ASSUME In(t, "kb") /\ Went(t, "kbTry")
      PROVE  Stays(t, {"kb", "kbTry"})
  <2>1. Stays(t, {"kb", "kbTry"})
        BY <1>3, GoStays DEF At
  <2> QED  BY <2>1, StaysMore
<1> QED  BY <1>1, <1>2, <1>3, InterruptStartsMoves

LEMMA InterruptEndsStays ==
  ASSUME TypeInv, Stacks, NEW t \in Thread, InterruptEnds(t)
  PROVE  Stays(t, {"kbSpace"})
<1>1. ASSUME In(t, "kbSpace") /\ Returned(t, "ok")
      PROVE  Stays(t, {"kbSpace"})
  <2>1. Stays(t, {"kbSpace"})
        BY <1>1, ReturnStays
  <2> QED  BY <2>1, StaysMore
<1> QED  BY <1>1, InterruptEndsMoves

LEMMA TerminateStepsStays ==
  ASSUME TypeInv, Stacks, NEW t \in Thread, TerminateSteps(t)
  PROVE  Stays(t, {"term", "tear", "sd", "exit", "td"})
<1>1. ASSUME In(t, "term") /\ Called(t, F("sd"), "tear")
      PROVE  Stays(t, {"term", "tear", "sd", "exit", "td"})
  <2>1. F("sd") \in Frame /\ F("sd").at = "sd" /\ "tear" \in At
    <3>1. F("sd") \in Frame /\ F("sd").at = "sd"
          BY <1>1, FrameIs DEF At
    <3> QED  BY <3>1 DEF At
  <2>2. Stays(t, {"term", "tear", F("sd").at})
        BY <1>1, <2>1, CallStays
  <2> QED  BY <2>1, <2>2, StaysMore
<1>2. ASSUME In(t, "term") /\ Went(t, "tear")
      PROVE  Stays(t, {"term", "tear", "sd", "exit", "td"})
  <2>1. Stays(t, {"term", "tear"})
        BY <1>2, GoStays DEF At
  <2> QED  BY <2>1, StaysMore
<1>3. ASSUME In(t, "tear") /\ Called(t, F("td"), "exit")
      PROVE  Stays(t, {"term", "tear", "sd", "exit", "td"})
  <2>1. F("td") \in Frame /\ F("td").at = "td" /\ "exit" \in At
    <3>1. F("td") \in Frame /\ F("td").at = "td"
          BY <1>3, FrameIs DEF At
    <3> QED  BY <3>1 DEF At
  <2>2. Stays(t, {"tear", "exit", F("td").at})
        BY <1>3, <2>1, CallStays
  <2> QED  BY <2>1, <2>2, StaysMore
<1>4. ASSUME In(t, "exit"), stack' = stack
      PROVE  Stays(t, {"term", "tear", "sd", "exit", "td"})
      BY <1>4, HereIs DEF Stays, Others
<1> QED  BY <1>1, <1>2, <1>3, <1>4, TerminateMoves

LEMMA ShutdownStartsStays ==
  ASSUME TypeInv, Stacks, NEW t \in Thread, ShutdownStarts(t)
  PROVE  Stays(t, {"sd", "sdUser"})
<1>1. ASSUME In(t, "sd") /\ Ended(t)
      PROVE  Stays(t, {"sd", "sdUser"})
      BY <1>1, EndStays
<1>2. ASSUME In(t, "sd") /\ Went(t, "sdUser")
      PROVE  Stays(t, {"sd", "sdUser"})
  <2>1. Stays(t, {"sd", "sdUser"})
        BY <1>2, GoStays DEF At
  <2> QED  BY <2>1, StaysMore
<1> QED  BY <1>1, <1>2, ShutdownStartsMoves

LEMMA ShutdownSwitchesUserStays ==
  ASSUME TypeInv, Stacks, NEW t \in Thread, ShutdownSwitchesUser(t), t \in Listener => isCurrentUserRoot
  PROVE  Stays(t, {"sdUser", "sdTerm", "su"})
<1>1. ASSUME In(t, "sdUser") /\ Went(t, "sdTerm")
      PROVE  Stays(t, {"sdUser", "sdTerm", "su"})
  <2>1. Stays(t, {"sdUser", "sdTerm"})
        BY <1>1, GoStays DEF At
  <2> QED  BY <2>1, StaysMore
<1>2. ASSUME In(t, "sdUser") /\ Called(t, F("su"), "sdTerm")
      PROVE  Stays(t, {"sdUser", "sdTerm", "su"})
  <2>1. F("su") \in Frame /\ F("su").at = "su" /\ "sdTerm" \in At
    <3>1. F("su") \in Frame /\ F("su").at = "su"
          BY <1>2, FrameIs DEF At
    <3> QED  BY <3>1 DEF At
  <2>2. Stays(t, {"sdUser", "sdTerm", F("su").at})
        BY <1>2, <2>1, CallStays
  <2> QED  BY <2>1, <2>2, StaysMore
<1> QED  BY <1>1, <1>2, ShutdownSwitchesMoves

LEMMA TerminateTargetStartsStays ==
  ASSUME TypeInv, Stacks, NEW t \in Thread, TerminateTargetStarts(t), t \in Listener => ~isSshConn
  PROVE  Stays(t, {"sdTerm", "sdPower", "cs"})
<1>1. ASSUME In(t, "sdTerm") /\ Called(t, F("cs"), "sdPower")
      PROVE  Stays(t, {"sdTerm", "sdPower", "cs"})
  <2>1. F("cs") \in Frame /\ F("cs").at = "cs" /\ "sdPower" \in At
    <3>1. F("cs") \in Frame /\ F("cs").at = "cs"
          BY <1>1, FrameIs DEF At
    <3> QED  BY <3>1 DEF At
  <2>2. Stays(t, {"sdTerm", "sdPower", F("cs").at})
        BY <1>1, <2>1, CallStays
  <2> QED  BY <2>1, <2>2, StaysMore
<1>2. ASSUME In(t, "sdTerm") /\ Went(t, "sdPower")
      PROVE  Stays(t, {"sdTerm", "sdPower", "cs"})
  <2>1. Stays(t, {"sdTerm", "sdPower"})
        BY <1>2, GoStays DEF At
  <2> QED  BY <2>1, StaysMore
<1> QED  BY <1>1, <1>2, TerminateTargetMoves

LEMMA PowersOffStays ==
  ASSUME TypeInv, Stacks, NEW t \in Thread, PowersOff(t)
  PROVE  Stays(t, {"sdPower", "sdDown", "send", "return", "td"})
<1>1. ASSUME In(t, "sdPower") /\ Called(t, Command("poweroff"), "sdDown")
      PROVE  Stays(t, {"sdPower", "sdDown", "send", "return", "td"})
  <2>1. Command("poweroff") \in Frame /\ Command("poweroff").at = "send" /\ "sdDown" \in At
    <3>1. Command("poweroff") \in Frame /\ Command("poweroff").at = "send"
          BY <1>1, CommandIs DEF Kind
    <3> QED  BY <3>1 DEF At
  <2>2. Stays(t, {"sdPower", "sdDown", Command("poweroff").at})
        BY <1>1, <2>1, CallStays
  <2> QED  BY <2>1, <2>2, StaysMore
<1>2. ASSUME In(t, "sdDown") /\ Called(t, F("td"), "return")
      PROVE  Stays(t, {"sdPower", "sdDown", "send", "return", "td"})
  <2>1. F("td") \in Frame /\ F("td").at = "td" /\ "return" \in At
    <3>1. F("td") \in Frame /\ F("td").at = "td"
          BY <1>2, FrameIs DEF At
    <3> QED  BY <3>1 DEF At
  <2>2. Stays(t, {"sdDown", "return", F("td").at})
        BY <1>2, <2>1, CallStays
  <2> QED  BY <2>1, <2>2, StaysMore
<1> QED  BY <1>1, <1>2, PowersOffMoves

LEMMA ReturnsStays ==
  ASSUME TypeInv, Stacks, NEW t \in Thread, Returns(t)
  PROVE  Stays(t, {"return"})
<1>1. ASSUME In(t, "return") /\ Returned(t, "ok")
      PROVE  Stays(t, {"return"})
  <2>1. Stays(t, {"return"})
        BY <1>1, ReturnStays
  <2> QED  BY <2>1, StaysMore
<1> QED  BY <1>1, ReturnsMoves

LEMMA TearDownStartsStays ==
  ASSUME TypeInv, Stacks, NEW t \in Thread, TearDownStarts(t)
  PROVE  Stays(t, {"td", "tdKill", "send"})
<1>1. ASSUME In(t, "td") /\ Returned(t, "ok")
      PROVE  Stays(t, {"td", "tdKill", "send"})
  <2>1. Stays(t, {"td"})
        BY <1>1, ReturnStays
  <2> QED  BY <2>1, StaysMore
<1>2. ASSUME In(t, "td") /\ Went(t, "tdKill")
      PROVE  Stays(t, {"td", "tdKill", "send"})
  <2>1. Stays(t, {"td", "tdKill"})
        BY <1>2, GoStays DEF At
  <2> QED  BY <2>1, StaysMore
<1>3. ASSUME In(t, "td") /\ Called(t, Command("quit"), "tdKill")
      PROVE  Stays(t, {"td", "tdKill", "send"})
  <2>1. Command("quit") \in Frame /\ Command("quit").at = "send" /\ "tdKill" \in At
    <3>1. Command("quit") \in Frame /\ Command("quit").at = "send"
          BY <1>3, CommandIs DEF Kind
    <3> QED  BY <3>1 DEF At
  <2>2. Stays(t, {"td", "tdKill", Command("quit").at})
        BY <1>3, <2>1, CallStays
  <2> QED  BY <2>1, <2>2, StaysMore
<1> QED  BY <1>1, <1>2, <1>3, TearDownStartsMoves

LEMMA TearDownKillsStays ==
  ASSUME TypeInv, Stacks, NEW t \in Thread, TearDownKills(t)
  PROVE  Stays(t, {"tdKill"})
<1>1. ASSUME In(t, "tdKill") /\ Returned(t, "ok")
      PROVE  Stays(t, {"tdKill"})
  <2>1. Stays(t, {"tdKill"})
        BY <1>1, ReturnStays
  <2> QED  BY <2>1, StaysMore
<1> QED  BY <1>1, TearDownKillsMoves

LEMMA SwitchUserLogsInStays ==
  ASSUME TypeInv, Stacks, NEW t \in Thread, SwitchUserLogsIn(t)
  PROVE  Stays(t, {"suName", "suPass", "send", "return"})
<1>1. ASSUME In(t, "suName") /\ Called(t, Command(Top(t).kind), "suPass")
      PROVE  Stays(t, {"suName", "suPass", "send", "return"})
  <2>1. Command(Top(t).kind) \in Frame /\ Command(Top(t).kind).at = "send" /\ "suPass" \in At
    <3>1. Command(Top(t).kind) \in Frame /\ Command(Top(t).kind).at = "send"
          BY <1>1, Acts, CommandIs DEF Frame
    <3> QED  BY <3>1 DEF At
  <2>2. Stays(t, {"suName", "suPass", Command(Top(t).kind).at})
        BY <1>1, <2>1, CallStays
  <2> QED  BY <2>1, <2>2, StaysMore
<1>2. ASSUME In(t, "suPass") /\ Called(t, Command("password"), "return")
      PROVE  Stays(t, {"suName", "suPass", "send", "return"})
  <2>1. Command("password") \in Frame /\ Command("password").at = "send" /\ "return" \in At
    <3>1. Command("password") \in Frame /\ Command("password").at = "send"
          BY <1>2, CommandIs DEF Kind
    <3> QED  BY <3>1 DEF At
  <2>2. Stays(t, {"suPass", "return", Command("password").at})
        BY <1>2, <2>1, CallStays
  <2> QED  BY <2>1, <2>2, StaysMore
<1> QED  BY <1>1, <1>2, SwitchUserLogsInMoves

LEMMA SwitchUserEndsStays ==
  ASSUME TypeInv, Stacks, NEW t \in Thread, SwitchUserEnds(t)
  PROVE  Stays(t, {"suOpened"})
<1>1. ASSUME In(t, "suOpened") /\ Returned(t, "ok")
      PROVE  Stays(t, {"suOpened"})
  <2>1. Stays(t, {"suOpened"})
        BY <1>1, ReturnStays
  <2> QED  BY <2>1, StaysMore
<1>2. ASSUME In(t, "suOpened") /\ Ended(t)
      PROVE  Stays(t, {"suOpened"})
      BY <1>2, EndStays
<1> QED  BY <1>1, <1>2, SwitchUserEndsMoves

LEMMA OpenStartsStays ==
  ASSUME TypeInv, Stacks, NEW t \in Thread, OpenStarts(t)
  PROVE  Stays(t, {"os", "osSpawn", "er"})
<1>1. ASSUME In(t, "os") /\ Returned(t, "failed")
      PROVE  Stays(t, {"os", "osSpawn", "er"})
  <2>1. Stays(t, {"os"})
        BY <1>1, ReturnStays
  <2> QED  BY <2>1, StaysMore
<1>2. ASSUME In(t, "os") /\ Called(t, F("er"), "osSpawn")
      PROVE  Stays(t, {"os", "osSpawn", "er"})
  <2>1. F("er") \in Frame /\ F("er").at = "er" /\ "osSpawn" \in At
    <3>1. F("er") \in Frame /\ F("er").at = "er"
          BY <1>2, FrameIs DEF At
    <3> QED  BY <3>1 DEF At
  <2>2. Stays(t, {"os", "osSpawn", F("er").at})
        BY <1>2, <2>1, CallStays
  <2> QED  BY <2>1, <2>2, StaysMore
<1>3. ASSUME In(t, "os") /\ Went(t, "osSpawn")
      PROVE  Stays(t, {"os", "osSpawn", "er"})
  <2>1. Stays(t, {"os", "osSpawn"})
        BY <1>3, GoStays DEF At
  <2> QED  BY <2>1, StaysMore
<1> QED  BY <1>1, <1>2, <1>3, OpenStartsMoves

LEMMA OpenLogsInStays ==
  ASSUME TypeInv, Stacks, NEW t \in Thread, OpenLogsIn(t)
  PROVE  Stays(t, {"osPass", "osIn", "send", "os"})
<1>1. ASSUME In(t, "osPass") /\ Called(t, TryOnce("sshPassword"), "osIn")
      PROVE  Stays(t, {"osPass", "osIn", "send", "os"})
  <2>1. TryOnce("sshPassword") \in Frame /\ TryOnce("sshPassword").at = "send" /\ "osIn" \in At
    <3>1. TryOnce("sshPassword") \in Frame /\ TryOnce("sshPassword").at = "send"
          BY <1>1, CommandIs DEF Kind
    <3> QED  BY <3>1 DEF At
  <2>2. Stays(t, {"osPass", "osIn", TryOnce("sshPassword").at})
        BY <1>1, <2>1, CallStays
  <2> QED  BY <2>1, <2>2, StaysMore
<1>2. ASSUME In(t, "osPass") /\ Went(t, "os")
      PROVE  Stays(t, {"osPass", "osIn", "send", "os"})
  <2>1. Stays(t, {"osPass", "os"})
        BY <1>2, GoStays DEF At
  <2> QED  BY <2>1, StaysMore
<1>3. ASSUME In(t, "osPass") /\ Called(t, TryOnce("sshYes"), "osPass")
      PROVE  Stays(t, {"osPass", "osIn", "send", "os"})
  <2>1. TryOnce("sshYes") \in Frame /\ TryOnce("sshYes").at = "send" /\ "osPass" \in At
    <3>1. TryOnce("sshYes") \in Frame /\ TryOnce("sshYes").at = "send"
          BY <1>3, CommandIs DEF Kind
    <3> QED  BY <3>1 DEF At
  <2>2. Stays(t, {"osPass", "osPass", TryOnce("sshYes").at})
        BY <1>3, <2>1, CallStays
  <2> QED  BY <2>1, <2>2, StaysMore
<1> QED  BY <1>1, <1>2, <1>3, OpenLogsInMoves

LEMMA OpenEndsStays ==
  ASSUME TypeInv, Stacks, NEW t \in Thread, OpenEnds(t)
  PROVE  Stays(t, {"osIn", "os"})
<1>1. ASSUME In(t, "osIn") /\ Returned(t, "ok")
      PROVE  Stays(t, {"osIn", "os"})
  <2>1. Stays(t, {"osIn"})
        BY <1>1, ReturnStays
  <2> QED  BY <2>1, StaysMore
<1>2. ASSUME In(t, "osIn") /\ Went(t, "os")
      PROVE  Stays(t, {"osIn", "os"})
  <2>1. Stays(t, {"osIn", "os"})
        BY <1>2, GoStays DEF At
  <2> QED  BY <2>1, StaysMore
<1> QED  BY <1>1, <1>2, OpenEndsMoves

LEMMA CloseStartsStays ==
  ASSUME TypeInv, Stacks, NEW t \in Thread, CloseStarts(t)
  PROVE  Stays(t, {"cs", "csKill", "send"})
<1>1. ASSUME In(t, "cs") /\ Went(t, "csKill")
      PROVE  Stays(t, {"cs", "csKill", "send"})
  <2>1. Stays(t, {"cs", "csKill"})
        BY <1>1, GoStays DEF At
  <2> QED  BY <2>1, StaysMore
<1>2. ASSUME In(t, "cs") /\ Called(t, TryOnce("sshExit"), "csKill")
      PROVE  Stays(t, {"cs", "csKill", "send"})
  <2>1. TryOnce("sshExit") \in Frame /\ TryOnce("sshExit").at = "send" /\ "csKill" \in At
    <3>1. TryOnce("sshExit") \in Frame /\ TryOnce("sshExit").at = "send"
          BY <1>2, CommandIs DEF Kind
    <3> QED  BY <3>1 DEF At
  <2>2. Stays(t, {"cs", "csKill", TryOnce("sshExit").at})
        BY <1>2, <2>1, CallStays
  <2> QED  BY <2>1, <2>2, StaysMore
<1> QED  BY <1>1, <1>2, CloseStartsMoves

LEMMA ClosesStays ==
  ASSUME TypeInv, Stacks, NEW t \in Thread, Closes(t)
  PROVE  Stays(t, {"csKill"})
<1>1. ASSUME In(t, "csKill") /\ Returned(t, "ok")
      PROVE  Stays(t, {"csKill"})
  <2>1. Stays(t, {"csKill"})
        BY <1>1, ReturnStays
  <2> QED  BY <2>1, StaysMore
<1> QED  BY <1>1, ClosesMoves

LEMMA EnableRootStepsStays ==
  ASSUME TypeInv, Stacks, NEW t \in Thread, EnableRootSteps(t), In(t, "er") => isCurrentUserRoot
  PROVE  Stays(t, {"er", "erEcho", "erService", "send", "erDone"})
<1>1. ASSUME In(t, "er") /\ Returned(t, "ok")
      PROVE  Stays(t, {"er", "erEcho", "erService", "send", "erDone"})
  <2>1. Stays(t, {"er"})
        BY <1>1, ReturnStays
  <2> QED  BY <2>1, StaysMore
<1>2. ASSUME In(t, "er") /\ Went(t, "erEcho")
      PROVE  Stays(t, {"er", "erEcho", "erService", "send", "erDone"})
  <2>1. Stays(t, {"er", "erEcho"})
        BY <1>2, GoStays DEF At
  <2> QED  BY <2>1, StaysMore
<1>3. ASSUME In(t, "erEcho") /\ Called(t, Command("plain"), "erService")
      PROVE  Stays(t, {"er", "erEcho", "erService", "send", "erDone"})
  <2>1. Command("plain") \in Frame /\ Command("plain").at = "send" /\ "erService" \in At
    <3>1. Command("plain") \in Frame /\ Command("plain").at = "send"
          BY <1>3, CommandIs DEF Kind
    <3> QED  BY <3>1 DEF At
  <2>2. Stays(t, {"erEcho", "erService", Command("plain").at})
        BY <1>3, <2>1, CallStays
  <2> QED  BY <2>1, <2>2, StaysMore
<1>4. ASSUME In(t, "erService") /\ Called(t, Command("plain"), "erDone")
      PROVE  Stays(t, {"er", "erEcho", "erService", "send", "erDone"})
  <2>1. Command("plain") \in Frame /\ Command("plain").at = "send" /\ "erDone" \in At
    <3>1. Command("plain") \in Frame /\ Command("plain").at = "send"
          BY <1>4, CommandIs DEF Kind
    <3> QED  BY <3>1 DEF At
  <2>2. Stays(t, {"erService", "erDone", Command("plain").at})
        BY <1>4, <2>1, CallStays
  <2> QED  BY <2>1, <2>2, StaysMore
<1>5. ASSUME In(t, "erDone") /\ Returned(t, "ok")
      PROVE  Stays(t, {"er", "erEcho", "erService", "send", "erDone"})
  <2>1. Stays(t, {"erDone"})
        BY <1>5, ReturnStays
  <2> QED  BY <2>1, StaysMore
<1> QED  BY <1>1, <1>2, <1>3, <1>4, <1>5, EnableRootMoves

LEMMA SendFileJoinsStays ==
  ASSUME TypeInv, Stacks, NEW t \in Thread, SendFileJoins(t)
  PROVE  Stays(t, {"sfJoin", "sfExists", "send", "sfRetry", "kb"})
<1>1. ASSUME In(t, "sfJoin") /\ Called(t, Try("exists"), "sfExists")
      PROVE  Stays(t, {"sfJoin", "sfExists", "send", "sfRetry", "kb"})
  <2>1. Try("exists") \in Frame /\ Try("exists").at = "send" /\ "sfExists" \in At
    <3>1. Try("exists") \in Frame /\ Try("exists").at = "send"
          BY <1>1, CommandIs DEF Kind
    <3> QED  BY <3>1 DEF At
  <2>2. Stays(t, {"sfJoin", "sfExists", Try("exists").at})
        BY <1>1, <2>1, CallStays
  <2> QED  BY <2>1, <2>2, StaysMore
<1>2. ASSUME In(t, "sfJoin") /\ Went(t, "sfRetry")
      PROVE  Stays(t, {"sfJoin", "sfExists", "send", "sfRetry", "kb"})
  <2>1. Stays(t, {"sfJoin", "sfRetry"})
        BY <1>2, GoStays DEF At
  <2> QED  BY <2>1, StaysMore
<1>3. ASSUME In(t, "sfJoin") /\ Called(t, Interrupt(SelfProcess), "sfRetry")
      PROVE  Stays(t, {"sfJoin", "sfExists", "send", "sfRetry", "kb"})
  <2>1. Interrupt(SelfProcess) \in Frame /\ Interrupt(SelfProcess).at = "kb" /\ "sfRetry" \in At
    <3>1. Interrupt(SelfProcess) \in Frame /\ Interrupt(SelfProcess).at = "kb"
          BY <1>3, Acts, KbIs
    <3> QED  BY <3>1 DEF At
  <2>2. Stays(t, {"sfJoin", "sfRetry", Interrupt(SelfProcess).at})
        BY <1>3, <2>1, CallStays
  <2> QED  BY <2>1, <2>2, StaysMore
<1> QED  BY <1>1, <1>2, <1>3, SendFileJoinsMoves DEF BacksOff

LEMMA SendFileExistsStays ==
  ASSUME TypeInv, Stacks, NEW t \in Thread, SendFileExists(t)
  PROVE  Stays(t, {"sfExists", "sfCheck", "sfRetry", "kb"})
<1>1. ASSUME In(t, "sfExists") /\ Went(t, "sfCheck")
      PROVE  Stays(t, {"sfExists", "sfCheck", "sfRetry", "kb"})
  <2>1. Stays(t, {"sfExists", "sfCheck"})
        BY <1>1, GoStays DEF At
  <2> QED  BY <2>1, StaysMore
<1>2. ASSUME In(t, "sfExists") /\ Went(t, "sfRetry")
      PROVE  Stays(t, {"sfExists", "sfCheck", "sfRetry", "kb"})
  <2>1. Stays(t, {"sfExists", "sfRetry"})
        BY <1>2, GoStays DEF At
  <2> QED  BY <2>1, StaysMore
<1>3. ASSUME In(t, "sfExists") /\ Called(t, Interrupt(SelfProcess), "sfRetry")
      PROVE  Stays(t, {"sfExists", "sfCheck", "sfRetry", "kb"})
  <2>1. Interrupt(SelfProcess) \in Frame /\ Interrupt(SelfProcess).at = "kb" /\ "sfRetry" \in At
    <3>1. Interrupt(SelfProcess) \in Frame /\ Interrupt(SelfProcess).at = "kb"
          BY <1>3, Acts, KbIs
    <3> QED  BY <3>1 DEF At
  <2>2. Stays(t, {"sfExists", "sfRetry", Interrupt(SelfProcess).at})
        BY <1>3, <2>1, CallStays
  <2> QED  BY <2>1, <2>2, StaysMore
<1> QED  BY <1>1, <1>2, <1>3, SendFileExistsMoves DEF BacksOff

LEMMA SendFileChecksStays ==
  ASSUME TypeInv, Stacks, NEW t \in Thread, SendFileChecks(t)
  PROVE  Stays(t, {"sfCheck", "sfSum", "send", "sfGiveUp", "kb", "sfRetry"})
<1>1. ASSUME In(t, "sfCheck") /\ Called(t, Command("plain"), "sfSum")
      PROVE  Stays(t, {"sfCheck", "sfSum", "send", "sfGiveUp", "kb", "sfRetry"})
  <2>1. Command("plain") \in Frame /\ Command("plain").at = "send" /\ "sfSum" \in At
    <3>1. Command("plain") \in Frame /\ Command("plain").at = "send"
          BY <1>1, CommandIs DEF Kind
    <3> QED  BY <3>1 DEF At
  <2>2. Stays(t, {"sfCheck", "sfSum", Command("plain").at})
        BY <1>1, <2>1, CallStays
  <2> QED  BY <2>1, <2>2, StaysMore
<1>2. ASSUME In(t, "sfSum") /\ Went(t, "sfGiveUp")
      PROVE  Stays(t, {"sfCheck", "sfSum", "send", "sfGiveUp", "kb", "sfRetry"})
  <2>1. Stays(t, {"sfSum", "sfGiveUp"})
        BY <1>2, GoStays DEF At
  <2> QED  BY <2>1, StaysMore
<1>3. ASSUME In(t, "sfSum") /\ Called(t, Interrupt(SelfProcess), "sfGiveUp")
      PROVE  Stays(t, {"sfCheck", "sfSum", "send", "sfGiveUp", "kb", "sfRetry"})
  <2>1. Interrupt(SelfProcess) \in Frame /\ Interrupt(SelfProcess).at = "kb" /\ "sfGiveUp" \in At
    <3>1. Interrupt(SelfProcess) \in Frame /\ Interrupt(SelfProcess).at = "kb"
          BY <1>3, Acts, KbIs
    <3> QED  BY <3>1 DEF At
  <2>2. Stays(t, {"sfSum", "sfGiveUp", Interrupt(SelfProcess).at})
        BY <1>3, <2>1, CallStays
  <2> QED  BY <2>1, <2>2, StaysMore
<1>4. ASSUME In(t, "sfSum") /\ Went(t, "sfRetry")
      PROVE  Stays(t, {"sfCheck", "sfSum", "send", "sfGiveUp", "kb", "sfRetry"})
  <2>1. Stays(t, {"sfSum", "sfRetry"})
        BY <1>4, GoStays DEF At
  <2> QED  BY <2>1, StaysMore
<1>5. ASSUME In(t, "sfSum") /\ Called(t, Interrupt(SelfProcess), "sfRetry")
      PROVE  Stays(t, {"sfCheck", "sfSum", "send", "sfGiveUp", "kb", "sfRetry"})
  <2>1. Interrupt(SelfProcess) \in Frame /\ Interrupt(SelfProcess).at = "kb" /\ "sfRetry" \in At
    <3>1. Interrupt(SelfProcess) \in Frame /\ Interrupt(SelfProcess).at = "kb"
          BY <1>5, Acts, KbIs
    <3> QED  BY <3>1 DEF At
  <2>2. Stays(t, {"sfSum", "sfRetry", Interrupt(SelfProcess).at})
        BY <1>5, <2>1, CallStays
  <2> QED  BY <2>1, <2>2, StaysMore
<1>6. ASSUME In(t, "sfSum") /\ Returned(t, "ok")
      PROVE  Stays(t, {"sfCheck", "sfSum", "send", "sfGiveUp", "kb", "sfRetry"})
  <2>1. Stays(t, {"sfSum"})
        BY <1>6, ReturnStays
  <2> QED  BY <2>1, StaysMore
<1>7. ASSUME In(t, "sfGiveUp") /\ Ended(t)
      PROVE  Stays(t, {"sfCheck", "sfSum", "send", "sfGiveUp", "kb", "sfRetry"})
      BY <1>7, EndStays
<1> QED  BY <1>1, <1>2, <1>3, <1>4, <1>5, <1>6, <1>7, SendFileChecksMoves DEF BacksOff

LEMMA SendFileRetriesStays ==
  ASSUME TypeInv, Stacks, NEW t \in Thread, SendFileRetries(t)
  PROVE  Stays(t, {"sfRetry", "sf"})
<1>1. ASSUME In(t, "sfRetry") /\ Went(t, "sf")
      PROVE  Stays(t, {"sfRetry", "sf"})
  <2>1. Stays(t, {"sfRetry", "sf"})
        BY <1>1, GoStays DEF At
  <2> QED  BY <2>1, StaysMore
<1>2. ASSUME In(t, "sfRetry") /\ Ended(t)
      PROVE  Stays(t, {"sfRetry", "sf"})
      BY <1>2, EndStays
<1> QED  BY <1>1, <1>2, SendFileRetriesMoves

LEMMA TwoStays ==
  ASSUME TypeInv, Stacks, NEW t \in Thread, NEW a, In(t, a), NEW f \in Frame, NEW g \in Frame,
         stack'[t] = Push(f, Push(g, Below(t))), Others(t), Lost(stack'[t]) <=> Lost(stack[t])
  PROVE  Stays(t, {a, g.at, f.at}) /\ TwoOn(stack'[t], f, g, Below(t))
<1>0. Below(t) \in Seq(Frame)
      BY Acts
<1>1. TwoOn(stack'[t], f, g, Below(t))
      BY <1>0, TwoIs
<1>2. /\ \A A : Has(stack[t], A) <=> (a \in A \/ Has(Below(t), A))
      /\ Bot(stack[t]) = IF Below(t) = <<>> THEN Top(t) ELSE Bot(Below(t))
      BY HereIs
<1> QED  BY <1>1, <1>2 DEF Stays, TwoOn

LEMMA TriesStays ==
  ASSUME TypeInv, Stacks, NEW t \in Thread, In(t, "kbTry"), TriesAgain(t)
  PROVE  /\ Stays(t, {"kbTry", "send"})
         /\ \E f, g \in Frame :
               /\ TwoOn(stack'[t], f, g, Below(t))
               /\ Cmd(f, {"break"}) /\ f.at = "send" /\ f.proc = Top(t).proc
               /\ g.at = "kbTry" /\ g.proc = Top(t).proc /\ g.n = Top(t).n + 1
<1> DEFINE f == On(TryOnce("break"), t)
<1>1. f \in Frame /\ Cmd(f, {"break"}) /\ f.at = "send" /\ f.proc = Top(t).proc
      BY OnIs DEF Command_OK
<1>2. PICK g \in Frame : /\ stack'[t] = Push(f, Push(g, Below(t)))
                         /\ g.at = "kbTry" /\ g.proc = Top(t).proc /\ g.n = Top(t).n + 1
      BY DEF TriesAgain
<1>3. Others(t) /\ (Lost(stack'[t]) <=> Lost(stack[t]))
      BY DEF TriesAgain
<1> HIDE DEF f
<1>4. Stays(t, {"kbTry", g.at, f.at}) /\ TwoOn(stack'[t], f, g, Below(t))
      BY <1>1, <1>2, <1>3, TwoStays
<1>5. Stays(t, {"kbTry", "send"})
      BY <1>1, <1>2, <1>4, StaysMore
<1> QED  BY <1>1, <1>2, <1>4, <1>5

LEMMA InterruptTriesStays ==
  ASSUME TypeInv, Stacks, NEW t \in Thread, InterruptTries(t)
  PROVE  Stays(t, {"kbTry", "send", "kbSpace"})
<1>1. ASSUME In(t, "kbTry"), TriesAgain(t)
      PROVE  Stays(t, {"kbTry", "send", "kbSpace"})
  <2>1. Stays(t, {"kbTry", "send"})
        BY <1>1, TriesStays
  <2> QED  BY <2>1, StaysMore
<1>2. ASSUME In(t, "kbTry") /\ Called(t, On(Command("plain"), t), "kbSpace")
      PROVE  Stays(t, {"kbTry", "send", "kbSpace"})
  <2>1. On(Command("plain"), t) \in Frame /\ On(Command("plain"), t).at = "send" /\ "kbSpace" \in At
    <3>1. On(Command("plain"), t) \in Frame /\ On(Command("plain"), t).at = "send"
          BY <1>2, OnIs DEF Command_OK
    <3> QED  BY <3>1 DEF At
  <2>2. Stays(t, {"kbTry", "kbSpace", On(Command("plain"), t).at})
        BY <1>2, <2>1, CallStays
  <2> QED  BY <2>1, <2>2, StaysMore
<1>3. ASSUME In(t, "kbTry") /\ Went(t, "kbSpace")
      PROVE  Stays(t, {"kbTry", "send", "kbSpace"})
  <2>1. Stays(t, {"kbTry", "kbSpace"})
        BY <1>3, GoStays DEF At
  <2> QED  BY <2>1, StaysMore
<1> QED  BY <1>1, <1>2, <1>3, InterruptTriesMoves

LEMMA NamesStays ==
  ASSUME TypeInv, Stacks, NEW t \in Thread, In(t, "su"), NEW k \in {"root", "user"},
         NamesUser(t, k)
  PROVE  /\ Stays(t, {"su", "suName", "send"})
         /\ \E f, g \in Frame :
               /\ TwoOn(stack'[t], f, g, Below(t))
               /\ Cmd(f, {"exit"}) /\ f.at = "send"
               /\ g.at = "suName" /\ g.kind = k
<1> DEFINE f == Command("exit")  g == About("suName", k)
<1>1. f \in Frame /\ Cmd(f, {"exit"}) /\ f.at = "send"
      BY CommandIs DEF Cmd, CmdAt, Kind
<1>2. g \in Frame /\ g.at = "suName" /\ g.kind = k
  <2>1. "suName" \in At /\ k \in Kind
        BY DEF At, Kind
  <2> QED  BY <2>1, FrameIs
<1>3. /\ Others(t) /\ (Lost(stack'[t]) <=> Lost(stack[t]))
      /\ stack'[t] = Push(f, Push(g, Below(t)))
      BY DEF NamesUser
<1> HIDE DEF f, g
<1>4. Stays(t, {"su", g.at, f.at}) /\ TwoOn(stack'[t], f, g, Below(t))
      BY <1>1, <1>2, <1>3, TwoStays
<1>5. Stays(t, {"su", "suName", "send"})
      BY <1>1, <1>2, <1>4, StaysMore
<1> QED  BY <1>1, <1>2, <1>4, <1>5

LEMMA SwitchUserStartsStays ==
  ASSUME TypeInv, Stacks, NEW t \in Thread, SwitchUserStarts(t)
  PROVE  Stays(t, {"su", "suOpen", "cs", "suName", "send"})
<1>1. ASSUME In(t, "su") /\ Called(t, F("cs"), "suOpen")
      PROVE  Stays(t, {"su", "suOpen", "cs", "suName", "send"})
  <2>1. F("cs") \in Frame /\ F("cs").at = "cs" /\ "suOpen" \in At
    <3>1. F("cs") \in Frame /\ F("cs").at = "cs"
          BY <1>1, FrameIs DEF At
    <3> QED  BY <3>1 DEF At
  <2>2. Stays(t, {"su", "suOpen", F("cs").at})
        BY <1>1, <2>1, CallStays
  <2> QED  BY <2>1, <2>2, StaysMore
<1>2. ASSUME NEW k \in {"root", "user"}, In(t, "su"), NamesUser(t, k)
      PROVE  Stays(t, {"su", "suOpen", "cs", "suName", "send"})
  <2>1. Stays(t, {"su", "suName", "send"})
        BY <1>2, NamesStays
  <2> QED  BY <2>1, StaysMore
<1> QED  BY <1>1, <1>2, SwitchUserStartsMoves

LEMMA OpensIs ==
  ASSUME TypeInv, NEW t \in Thread, NEW k \in {"root", "user"}
  PROVE  About("os", k) \in Frame /\ About("os", k).at = "os" /\ About("os", k).kind = k
<1>1. "os" \in At /\ k \in Kind
      BY DEF At, Kind
<1> QED  BY <1>1, FrameIs

LEMMA SwitchUserOpensStays ==
  ASSUME TypeInv, Stacks, NEW t \in Thread, SwitchUserOpens(t)
  PROVE  Stays(t, {"suOpen", "suOpened", "os"})
<1>1. PICK k \in {"root", "user"} : In(t, "suOpen") /\ Called(t, About("os", k), "suOpened")
      BY SwitchUserOpensMoves
<1>2. /\ About("os", k) \in Frame /\ About("os", k).at = "os" /\ "suOpened" \in At
      BY OpensIs DEF At
<1>3. Stays(t, {"suOpen", "suOpened", About("os", k).at})
      BY <1>1, <1>2, CallStays
<1> QED  BY <1>2, <1>3, StaysMore

LEMMA OpenSpawnsStays ==
  ASSUME TypeInv, Stacks, NEW t \in Thread, OpenSpawns(t)
  PROVE  Stays(t, {"osSpawn", "os", "osPass", "expect"})
<1>1. ASSUME In(t, "osSpawn") /\ Went(t, "os")
      PROVE  Stays(t, {"osSpawn", "os", "osPass", "expect"})
  <2>1. Stays(t, {"osSpawn", "os"})
        BY <1>1, GoStays DEF At
  <2> QED  BY <2>1, StaysMore
<1>2. ASSUME In(t, "osSpawn"), NEW f \in Frame, Prompt_OK(f), Called(t, f, "osPass")
      PROVE  Stays(t, {"osSpawn", "os", "osPass", "expect"})
  <2>1. f.at = "expect" /\ "osPass" \in At
        BY <1>2 DEF Prompt_OK, At
  <2>2. Stays(t, {"osSpawn", "osPass", f.at})
        BY <1>2, <2>1, CallStays
  <2> QED  BY <2>1, <2>2, StaysMore
<1> QED  BY <1>1, <1>2, OpenSpawnsMoves

------------------------------------------------------------------------------
(***************************************************************************)
(* The interrupt flag has one owner (keyboardInterrupt,                    *)
(* keyboardInterruptTriggered).                                            *)
(***************************************************************************)

\* A step that does not touch keyboardInterrupt keeps the flag's owner.
LEMMA CalmKeeps ==
  ASSUME TypeInv, Interrupted, NEW t \in Thread, NEW P, Stays(t, P), \A p \in P : p \notin Held,
         keyboardInterruptTriggered' = keyboardInterruptTriggered
  PROVE  Interrupted'
<1>1. \A u \in Thread : /\ Has(stack'[u], Held) => Has(stack[u], Held)
                        /\ Has(stack[u], Held) \/ Lost(stack[u]) => Has(stack'[u], Held) \/ Lost(stack'[u])
  <2> SUFFICES ASSUME NEW u \in Thread
               PROVE  /\ Has(stack'[u], Held) => Has(stack[u], Held)
                      /\ Has(stack[u], Held) \/ Lost(stack[u]) => Has(stack'[u], Held) \/ Lost(stack'[u])
      OBVIOUS
  <2>1. CASE u # t
        BY <2>1 DEF Stays, Others
  <2>2. CASE u = t /\ Ended(t)
        BY <2>2 DEF Ended, Held
  <2>3. CASE u = t /\ ~Ended(t)
        BY <2>3 DEF Stays
  <2> QED  BY <2>1, <2>2, <2>3
<1> QED  BY <1>1 DEF Interrupted

LEMMA InterruptStartsKeeps ==
  ASSUME TypeInv, Stacks, Interrupted, NEW t \in Thread, InterruptStarts(t)
  PROVE  Interrupted'
<1>1. ASSUME In(t, "kb"), Returned(t, "ok"),
             keyboardInterruptTriggered' = keyboardInterruptTriggered
      PROVE  Interrupted'
  <2>1. Stays(t, {"kb"})
        BY <1>1, ReturnStays
  <2> QED  BY <1>1, <2>1, CalmKeeps DEF Held
<1>2. ASSUME Ended(t), keyboardInterruptTriggered' = keyboardInterruptTriggered
      PROVE  Interrupted'
  <2>1. Stays(t, {})
        BY <1>2, EndStays
  <2> QED  BY <1>2, <2>1, CalmKeeps
<1>3. ASSUME In(t, "kb"), ~keyboardInterruptTriggered, keyboardInterruptTriggered',
             Went(t, "kbTry")
      PROVE  Interrupted'
  <2>1. \A A : Has(stack'[t], A) <=> ("kbTry" \in A \/ Has(Below(t), A))
        BY <1>3, WentIs DEF OneOn, At
  <2>2. Others(t)
        BY <1>3 DEF Went
  <2>3. Has(stack'[t], Held)
        BY <2>1 DEF Held
  <2>4. \A u \in Thread : ~Has(stack[u], Held)
        BY <1>3 DEF Interrupted
  <2>5. \A u \in Thread : Has(stack'[u], Held) => u = t
        BY <2>2, <2>4 DEF Others
  <2> QED  BY <1>3, <2>3, <2>5 DEF Interrupted
<1> QED  BY <1>1, <1>2, <1>3, InterruptStartsMoves

LEMMA InterruptTriesKeeps ==
  ASSUME TypeInv, Stacks, Interrupted, NEW t \in Thread, InterruptTries(t)
  PROVE  Interrupted'
<1>1. In(t, "kbTry") /\ keyboardInterruptTriggered' = keyboardInterruptTriggered
      BY DEF InterruptTries
<1>2. Has(stack[t], Held)
      BY <1>1, HereIs DEF Held
<1>3. Others(t) /\ Has(stack'[t], Held)
  <2>1. CASE TriesAgain(t)
    <3>1. PICK f, g \in Frame : TwoOn(stack'[t], f, g, Below(t)) /\ g.at = "kbTry"
          BY <1>1, <2>1, TriesStays
    <3> QED  BY <2>1, <3>1 DEF TwoOn, Held, TriesAgain
  <2>2. CASE Called(t, On(Command("plain"), t), "kbSpace")
    <3>1. On(Command("plain"), t) \in Frame
          BY <1>1, OnIs DEF Command_OK
    <3>2. TwoOn(stack'[t], On(Command("plain"), t), Moving(t, "kbSpace"), Below(t)) /\ Moving(t, "kbSpace").at = "kbSpace"
          BY <1>1, <2>2, <3>1, CalledIs DEF At
    <3> QED  BY <2>2, <3>2 DEF TwoOn, Held, Called
  <2>3. CASE Went(t, "kbSpace")
    <3>1. OneOn(stack'[t], Moving(t, "kbSpace"), Below(t)) /\ Moving(t, "kbSpace").at = "kbSpace"
          BY <1>1, <2>3, WentIs DEF At
    <3> QED  BY <2>3, <3>1 DEF OneOn, Held, Went
  <2> QED  BY <2>1, <2>2, <2>3, InterruptTriesMoves
<1>4. \A u \in Thread : Has(stack'[u], Held) <=> Has(stack[u], Held)
      BY <1>2, <1>3 DEF Others
<1> QED  BY <1>1, <1>2, <1>3, <1>4 DEF Interrupted

LEMMA InterruptEndsKeeps ==
  ASSUME TypeInv, Stacks, Interrupted, NEW t \in Thread, InterruptEnds(t)
  PROVE  Interrupted'
<1>1. In(t, "kbSpace") /\ keyboardInterruptTriggered' = FALSE /\ Returned(t, "ok")
      BY InterruptEndsMoves DEF InterruptEnds
<1>2. Has(stack[t], Held)
      BY <1>1, HereIs DEF Held
<1>3. ~Has(Below(t), Held)
  <2>1. /\ Top(t) \in Frame /\ Below(t) \in Seq(Frame) /\ stack[t] = Push(Top(t), Below(t)) /\ Top(t).at = "kbSpace"
        BY <1>1, Acts
  <2>2. Legal(stack[t])
        BY DEF Stacks, Good
  <2>3. Top(t).at \in Low /\ Held \subseteq Low
        BY <2>1 DEF Low, KbAt, Held
  <2> QED  BY <2>1, <2>2, <2>3, NoSecond
<1>4. \A u \in Thread : ~Has(stack'[u], Held)
      BY <1>1, <1>2, <1>3 DEF Interrupted, Returned, Others
<1> QED  BY <1>1, <1>4 DEF Interrupted

\* The listener of an attempt starts on an empty stack.
LEMMA ListensCalmly ==
  ASSUME TypeInv, Stacks, Interrupted, In(Main, "sf"), Listening(Main), stack[Current] = <<>>,
         keyboardInterruptTriggered' = keyboardInterruptTriggered
  PROVE  Interrupted'
<1>1. Current \in Thread /\ Current # Main
      BY DEF Listening, Listener, Thread, Main, Current
<1>2. Moving(Main, "sfJoin") \in Frame /\ Moving(Main, "sfJoin").at = "sfJoin" /\ Below(Main) \in Seq(Frame)
  <2>1. Top(Main) \in Frame /\ Below(Main) \in Seq(Frame)
        BY Acts, Constants
  <2>2. "sfJoin" \in At
        BY DEF At
  <2> QED  BY <2>1, <2>2, Moved DEF Moving
<1>3. \A A : Has(stack'[Main], A) <=> ("sfJoin" \in A \/ Has(Below(Main), A))
  <2>1. stack'[Main] = Push(Moving(Main, "sfJoin"), Below(Main))
        BY DEF Listening, Moving
  <2> QED  BY <1>2, <2>1, HasPush
<1>4. \A A : Has(stack[Main], A) <=> ("sf" \in A \/ Has(Below(Main), A))
      BY HereIs, Constants
<1>5. Has(stack'[Main], Held) <=> Has(stack[Main], Held)
      BY <1>3, <1>4 DEF Held
<1>6. ~Has(stack'[Current], Held)
  <2> DEFINE c == Try("nc")
  <2>1. c \in Frame /\ c.at = "send"
        BY CommandIs DEF Kind
  <2> HIDE DEF c
  <2>2. \A A : Has(<<c>>, A) <=> c.at \in A
        BY <2>1 DEF Has
  <2>3. stack'[Current] = <<c>>
        BY DEF Listening, Current, c
  <2> QED  BY <2>1, <2>2, <2>3 DEF Held
<1>7. ~Has(stack[Current], Held) /\ ~Lost(stack[Current])
      BY HasNone DEF Lost
<1>8. \A u \in Thread : u # Main /\ u # Current => stack'[u] = stack[u]
      BY DEF Listening, Current
<1>9. Lost(stack'[Main]) <=> Lost(stack[Main])
      BY DEF Listening
<1> QED  BY <1>1, <1>5, <1>6, <1>7, <1>8, <1>9 DEF Interrupted

\* Every step keeps Interrupted.
LEMMA InterruptedStep ==
  ASSUME TypeInv, Stacks, Interrupted, NEW t \in Thread, Step(t),
         t \in Listener /\ In(t, "sdUser") => isCurrentUserRoot,
         t \in Listener /\ In(t, "sdTerm") => ~isSshConn,
         In(t, "er") => isCurrentUserRoot,
         In(t, "sf") /\ ~isSshConn => stack[Current] = <<>>,
         In(t, "script") /\ t = Main => \E P : Stays(t, P) /\ \A p \in P : p \notin Held
  PROVE  Interrupted'
<1>1. CASE Sends(t)
  <2>1. Stays(t, {"send", "expect"})
        BY <1>1, SendsStays
  <2>2. keyboardInterruptTriggered' = keyboardInterruptTriggered
        BY <1>1 DEF Sends
  <2> QED  BY <2>1, <2>2, CalmKeeps DEF Held
<1>2. CASE Answers(t)
  <2>1. Stays(t, {"expect"})
        BY <1>2, AnswersStays
  <2>2. keyboardInterruptTriggered' = keyboardInterruptTriggered
        BY <1>2 DEF Answers
  <2> QED  BY <2>1, <2>2, CalmKeeps DEF Held
<1>3. CASE TimesOut(t)
  <2>1. Stays(t, {"expect", "timedOut", "kb"})
        BY <1>3, TimesOutStays
  <2>2. keyboardInterruptTriggered' = keyboardInterruptTriggered
        BY <1>3 DEF TimesOut
  <2> QED  BY <2>1, <2>2, CalmKeeps DEF Held
<1>4. CASE Resolved(t)
  <2>1. Stays(t, {"timedOut"})
        BY <1>4, ResolvedStays
  <2>2. keyboardInterruptTriggered' = keyboardInterruptTriggered
        BY <1>4 DEF Resolved
  <2> QED  BY <2>1, <2>2, CalmKeeps DEF Held
<1>5. CASE Eof(t)
  <2>1. Stays(t, {"expect"})
        BY <1>5, EofStays
  <2>2. keyboardInterruptTriggered' = keyboardInterruptTriggered
        BY <1>5 DEF Eof
  <2> QED  BY <2>1, <2>2, CalmKeeps DEF Held
<1>6. CASE InterruptStarts(t)
      BY <1>6, InterruptStartsKeeps
<1>7. CASE InterruptTries(t)
      BY <1>7, InterruptTriesKeeps
<1>8. CASE InterruptEnds(t)
      BY <1>8, InterruptEndsKeeps
<1>9. CASE TerminateSteps(t)
  <2>1. Stays(t, {"term", "tear", "sd", "exit", "td"})
        BY <1>9, TerminateStepsStays
  <2>2. keyboardInterruptTriggered' = keyboardInterruptTriggered
        BY <1>9 DEF TerminateSteps, still
  <2> QED  BY <2>1, <2>2, CalmKeeps DEF Held
<1>10. CASE ShutdownStarts(t)
  <2>1. Stays(t, {"sd", "sdUser"})
        BY <1>10, ShutdownStartsStays
  <2>2. keyboardInterruptTriggered' = keyboardInterruptTriggered
        BY <1>10 DEF ShutdownStarts, still
  <2> QED  BY <2>1, <2>2, CalmKeeps DEF Held
<1>11. CASE ShutdownSwitchesUser(t)
  <2>1. Stays(t, {"sdUser", "sdTerm", "su"})
        BY <1>11, ShutdownSwitchesUserStays DEF ShutdownSwitchesUser
  <2>2. keyboardInterruptTriggered' = keyboardInterruptTriggered
        BY <1>11 DEF ShutdownSwitchesUser, still
  <2> QED  BY <2>1, <2>2, CalmKeeps DEF Held
<1>12. CASE TerminateTargetStarts(t)
  <2>1. Stays(t, {"sdTerm", "sdPower", "cs"})
        BY <1>12, TerminateTargetStartsStays DEF TerminateTargetStarts
  <2>2. keyboardInterruptTriggered' = keyboardInterruptTriggered
        BY <1>12 DEF TerminateTargetStarts, still
  <2> QED  BY <2>1, <2>2, CalmKeeps DEF Held
<1>13. CASE PowersOff(t)
  <2>1. Stays(t, {"sdPower", "sdDown", "send", "return", "td"})
        BY <1>13, PowersOffStays
  <2>2. keyboardInterruptTriggered' = keyboardInterruptTriggered
        BY <1>13 DEF PowersOff, still
  <2> QED  BY <2>1, <2>2, CalmKeeps DEF Held
<1>14. CASE Returns(t)
  <2>1. Stays(t, {"return"})
        BY <1>14, ReturnsStays
  <2>2. keyboardInterruptTriggered' = keyboardInterruptTriggered
        BY <1>14 DEF Returns, still
  <2> QED  BY <2>1, <2>2, CalmKeeps DEF Held
<1>15. CASE TearDownStarts(t)
  <2>1. Stays(t, {"td", "tdKill", "send"})
        BY <1>15, TearDownStartsStays
  <2>2. keyboardInterruptTriggered' = keyboardInterruptTriggered
        BY <1>15 DEF TearDownStarts, still
  <2> QED  BY <2>1, <2>2, CalmKeeps DEF Held
<1>16. CASE TearDownKills(t)
  <2>1. Stays(t, {"tdKill"})
        BY <1>16, TearDownKillsStays
  <2>2. keyboardInterruptTriggered' = keyboardInterruptTriggered
        BY <1>16 DEF TearDownKills, still
  <2> QED  BY <2>1, <2>2, CalmKeeps DEF Held
<1>17. CASE SwitchUserStarts(t)
  <2>1. Stays(t, {"su", "suOpen", "cs", "suName", "send"})
        BY <1>17, SwitchUserStartsStays
  <2>2. keyboardInterruptTriggered' = keyboardInterruptTriggered
        BY <1>17 DEF SwitchUserStarts, still
  <2> QED  BY <2>1, <2>2, CalmKeeps DEF Held
<1>18. CASE SwitchUserLogsIn(t)
  <2>1. Stays(t, {"suName", "suPass", "send", "return"})
        BY <1>18, SwitchUserLogsInStays
  <2>2. keyboardInterruptTriggered' = keyboardInterruptTriggered
        BY <1>18 DEF SwitchUserLogsIn, still
  <2> QED  BY <2>1, <2>2, CalmKeeps DEF Held
<1>19. CASE SwitchUserOpens(t)
  <2>1. Stays(t, {"suOpen", "suOpened", "os"})
        BY <1>19, SwitchUserOpensStays
  <2>2. keyboardInterruptTriggered' = keyboardInterruptTriggered
        BY <1>19 DEF SwitchUserOpens, still
  <2> QED  BY <2>1, <2>2, CalmKeeps DEF Held
<1>20. CASE SwitchUserEnds(t)
  <2>1. Stays(t, {"suOpened"})
        BY <1>20, SwitchUserEndsStays
  <2>2. keyboardInterruptTriggered' = keyboardInterruptTriggered
        BY <1>20 DEF SwitchUserEnds, still
  <2> QED  BY <2>1, <2>2, CalmKeeps DEF Held
<1>21. CASE OpenStarts(t)
  <2>1. Stays(t, {"os", "osSpawn", "er"})
        BY <1>21, OpenStartsStays
  <2>2. keyboardInterruptTriggered' = keyboardInterruptTriggered
        BY <1>21 DEF OpenStarts, quiet
  <2> QED  BY <2>1, <2>2, CalmKeeps DEF Held
<1>22. CASE OpenSpawns(t)
  <2>1. Stays(t, {"osSpawn", "os", "osPass", "expect"})
        BY <1>22, OpenSpawnsStays
  <2>2. keyboardInterruptTriggered' = keyboardInterruptTriggered
        BY <1>22 DEF OpenSpawns, quiet
  <2> QED  BY <2>1, <2>2, CalmKeeps DEF Held
<1>23. CASE OpenLogsIn(t)
  <2>1. Stays(t, {"osPass", "osIn", "send", "os"})
        BY <1>23, OpenLogsInStays
  <2>2. keyboardInterruptTriggered' = keyboardInterruptTriggered
        BY <1>23 DEF OpenLogsIn, quiet
  <2> QED  BY <2>1, <2>2, CalmKeeps DEF Held
<1>24. CASE OpenEnds(t)
  <2>1. Stays(t, {"osIn", "os"})
        BY <1>24, OpenEndsStays
  <2>2. keyboardInterruptTriggered' = keyboardInterruptTriggered
        BY <1>24 DEF OpenEnds, quiet
  <2> QED  BY <2>1, <2>2, CalmKeeps DEF Held
<1>25. CASE CloseStarts(t)
  <2>1. Stays(t, {"cs", "csKill", "send"})
        BY <1>25, CloseStartsStays
  <2>2. keyboardInterruptTriggered' = keyboardInterruptTriggered
        BY <1>25 DEF CloseStarts, quiet
  <2> QED  BY <2>1, <2>2, CalmKeeps DEF Held
<1>26. CASE Closes(t)
  <2>1. Stays(t, {"csKill"})
        BY <1>26, ClosesStays
  <2>2. keyboardInterruptTriggered' = keyboardInterruptTriggered
        BY <1>26 DEF Closes, quiet
  <2> QED  BY <2>1, <2>2, CalmKeeps DEF Held
<1>27. CASE EnableRootSteps(t)
  <2>1. Stays(t, {"er", "erEcho", "erService", "send", "erDone"})
        BY <1>27, EnableRootStepsStays DEF EnableRootSteps
  <2>2. keyboardInterruptTriggered' = keyboardInterruptTriggered
        BY <1>27 DEF EnableRootSteps, quiet
  <2> QED  BY <2>1, <2>2, CalmKeeps DEF Held
<1>28. CASE SendFileJoins(t)
  <2>1. Stays(t, {"sfJoin", "sfExists", "send", "sfRetry", "kb"})
        BY <1>28, SendFileJoinsStays
  <2>2. keyboardInterruptTriggered' = keyboardInterruptTriggered
        BY <1>28 DEF SendFileJoins, rest
  <2> QED  BY <2>1, <2>2, CalmKeeps DEF Held
<1>29. CASE SendFileExists(t)
  <2>1. Stays(t, {"sfExists", "sfCheck", "sfRetry", "kb"})
        BY <1>29, SendFileExistsStays
  <2>2. keyboardInterruptTriggered' = keyboardInterruptTriggered
        BY <1>29 DEF SendFileExists, rest
  <2> QED  BY <2>1, <2>2, CalmKeeps DEF Held
<1>30. CASE SendFileChecks(t)
  <2>1. Stays(t, {"sfCheck", "sfSum", "send", "sfGiveUp", "kb", "sfRetry"})
        BY <1>30, SendFileChecksStays
  <2>2. keyboardInterruptTriggered' = keyboardInterruptTriggered
        BY <1>30 DEF SendFileChecks, rest
  <2> QED  BY <2>1, <2>2, CalmKeeps DEF Held
<1>31. CASE SendFileRetries(t)
  <2>1. Stays(t, {"sfRetry", "sf"})
        BY <1>31, SendFileRetriesStays
  <2>2. keyboardInterruptTriggered' = keyboardInterruptTriggered
        BY <1>31 DEF SendFileRetries, rest
  <2> QED  BY <2>1, <2>2, CalmKeeps DEF Held
<1>32. CASE SendFileStarts(t)
  <2>1. t = Main /\ In(t, "sf") /\ keyboardInterruptTriggered' = keyboardInterruptTriggered
        BY <1>32, SendFileStartsMoves DEF SendFileStarts, rest
  <2>2. CASE ~isSshConn /\ Listening(t)
        BY <2>1, <2>2, ListensCalmly
  <2>3. CASE Went(t, "sfRetry")
    <3>1. Stays(t, {"sf", "sfRetry"})
          BY <2>1, <2>3, GoStays DEF At
    <3> QED  BY <2>1, <3>1, CalmKeeps DEF Held
  <2>4. CASE Called(t, Interrupt(SelfProcess), "sfCheck")
    <3>1. Interrupt(SelfProcess) \in Frame /\ Interrupt(SelfProcess).at = "kb" /\ "sfCheck" \in At
          BY <2>1, Acts, KbIs DEF At
    <3>2. Stays(t, {"sf", "sfCheck", Interrupt(SelfProcess).at})
          BY <2>1, <2>4, <3>1, CallStays
    <3> QED  BY <2>1, <3>1, <3>2, CalmKeeps DEF Held
  <2> QED  BY <1>32, <2>2, <2>3, <2>4, SendFileStartsMoves
<1>33. CASE t = Main /\ ScriptGoes
  <2>1. In(t, "script") /\ keyboardInterruptTriggered' = keyboardInterruptTriggered
        BY <1>33 DEF ScriptGoes, rest
  <2> QED  BY <1>33, <2>1, CalmKeeps
<1> QED  BY <1>1, <1>2, <1>3, <1>4, <1>5, <1>6, <1>7, <1>8, <1>9, <1>10, <1>11, <1>12, <1>13,
            <1>14, <1>15, <1>16, <1>17, <1>18, <1>19, <1>20, <1>21, <1>22, <1>23, <1>24, <1>25,
            <1>26, <1>27, <1>28, <1>29, <1>30, <1>31, <1>32, <1>33 DEF Step

------------------------------------------------------------------------------
(***************************************************************************)
(* The calls of the script.                                                *)
(***************************************************************************)

LEMMA ScriptIs ==
  /\ Len(Script) = 9
  /\ Script[1] = F("sf") /\ Script[2] = Command("plain") /\ Script[3] = F("su")
  /\ Script[4] = About("os", "user") /\ Script[5] = F("sf") /\ Script[6] = Command("plain")
  /\ Script[7] = F("cs") /\ Script[8] = F("su") /\ Script[9] = F("sd")
  BY DEF Script

\* The n-th call of the script.
Starts(f, n) ==
    /\ f \in Frame
    /\ n \in {1, 5} => f.at = "sf" /\ f.kind = "none" /\ f.proc = "tty"
    /\ n \in {2, 6} => f.at = "send" /\ f.kind = "plain" /\ f.eoe /\ f.proc = SelfProcess
    /\ n \in {3, 8} => f.at = "su" /\ f.kind = "none"
    /\ n = 4 => f.at = "os" /\ f.kind = "user"
    /\ n = 7 => f.at = "cs" /\ f.kind = "none"
    /\ n = 9 => f.at = "sd" /\ f.kind = "none"

LEMMA ScriptStarts ==
  \A n \in 0 .. 8 : Starts(Script[n + 1], n + 1)
<1>1. {"sf", "su", "cs", "sd", "os"} \subseteq At /\ "plain" \in Kind /\ "user" \in Kind
      BY DEF At, Kind
<1>2. \A a \in {"sf", "su", "cs", "sd"} : F(a) \in Frame /\ F(a).at = a /\ F(a).kind = "none" /\ F(a).proc = "tty"
      BY <1>1, FrameIs
<1>3. About("os", "user") \in Frame /\ About("os", "user").at = "os" /\ About("os", "user").kind = "user"
      BY <1>1, FrameIs
<1>4. /\ Command("plain") \in Frame /\ Command("plain").at = "send" /\ Command("plain").kind = "plain"
      /\ Command("plain").eoe /\ Command("plain").proc = SelfProcess
      BY <1>1, CommandIs
<1> SUFFICES ASSUME NEW n \in 0 .. 8
             PROVE  Starts(Script[n + 1], n + 1)
    OBVIOUS
<1>5. CASE n \in {0, 4}
      BY <1>2, <1>5, ScriptIs DEF Starts
<1>6. CASE n \in {1, 5}
      BY <1>4, <1>6, ScriptIs DEF Starts
<1>7. CASE n \in {2, 7}
      BY <1>2, <1>7, ScriptIs DEF Starts
<1>8. CASE n = 3
      BY <1>3, <1>8, ScriptIs DEF Starts
<1>9. CASE n = 6
      BY <1>2, <1>9, ScriptIs DEF Starts
<1>10. CASE n = 8
      BY <1>2, <1>10, ScriptIs DEF Starts
<1> QED  BY <1>5, <1>6, <1>7, <1>8, <1>9, <1>10

LEMMA StartsGood ==
  ASSUME NEW n \in 1 .. 9, NEW f, Starts(f, n), NEW g \in Frame, g.at = "script", g.n = n
  PROVE  /\ FrameOK(f) /\ Link(f, g) /\ Rank(f) < Rank(g)
         /\ f.at \notin EndAt \cup {"script"}
<1>1. f \in Frame
      BY DEF Starts
<1>2. CASE n \in {1, 5}
  <2>1. f.at = "sf" /\ f.at \in SfAt
        BY <1>2 DEF Starts, SfAt
  <2>2. Role(f) = "sf" /\ Rank(f) = 4 /\ Rank(g) = 6
        BY <2>1, RoleIs, RankIs
  <2>3. CalledAt(f, g.n)
        BY <1>2, <2>2 DEF CalledAt
  <2> QED  BY <2>1, <2>2, <2>3 DEF FrameOK, Link, CmdAt, OsAt, ErAt, SdAt, EndAt
<1>3. CASE n \in {2, 6}
  <2>1. f.at = "send" /\ f.kind = "plain" /\ f.eoe /\ f.at \in CmdAt
        BY <1>3 DEF Starts, CmdAt
  <2>2. Role(f) = "cmd" /\ Rank(f) = 1 /\ Rank(g) = 6
        BY <2>1, RoleIs, RankIs DEF Long
  <2>3. CalledAt(f, g.n)
        BY <1>3, <2>2 DEF CalledAt
  <2> QED  BY <2>1, <2>2, <2>3 DEF FrameOK, Link, CmdAt, OsAt, ErAt, SdAt, EndAt
<1>4. CASE n \in {3, 8}
  <2>1. f.at = "su" /\ f.at \in SuAt
        BY <1>4 DEF Starts, SuAt
  <2>2. Role(f) = "su" /\ Rank(f) = 4 /\ Rank(g) = 6
        BY <2>1, RoleIs, RankIs
  <2>3. CalledAt(f, g.n)
        BY <1>4, <2>2 DEF CalledAt
  <2> QED  BY <2>1, <2>2, <2>3 DEF FrameOK, Link, CmdAt, OsAt, ErAt, SdAt, EndAt
<1>5. CASE n = 4
  <2>1. f.at = "os" /\ f.at \in OsAt /\ f.kind = "user"
        BY <1>5 DEF Starts, OsAt
  <2>2. Role(f) = "os" /\ Rank(f) = 3 /\ Rank(g) = 6
        BY <2>1, RoleIs, RankIs
  <2>3. CalledAt(f, g.n)
        BY <1>5, <2>2 DEF CalledAt
  <2> QED  BY <2>1, <2>2, <2>3 DEF FrameOK, Link, CmdAt, OsAt, ErAt, SdAt, EndAt
<1>6. CASE n = 7
  <2>1. f.at = "cs" /\ f.at \in CsAt
        BY <1>6 DEF Starts, CsAt
  <2>2. Role(f) = "cs" /\ Rank(f) = 2 /\ Rank(g) = 6
        BY <2>1, RoleIs, RankIs DEF Low
  <2>3. CalledAt(f, g.n)
        BY <1>6, <2>2 DEF CalledAt
  <2> QED  BY <2>1, <2>2, <2>3 DEF FrameOK, Link, CmdAt, OsAt, ErAt, SdAt, EndAt
<1>7. CASE n = 9
  <2>1. f.at = "sd" /\ f.at \in SdAt /\ f.kind = "none"
        BY <1>7 DEF Starts, SdAt
  <2>2. Role(f) = "sd" /\ Rank(f) = 5 /\ Rank(g) = 6
        BY <2>1, RoleIs, RankIs
  <2>3. CalledAt(f, g.n)
        BY <1>7, <2>2 DEF CalledAt
  <2> QED  BY <2>1, <2>2, <2>3 DEF FrameOK, Link, CmdAt, OsAt, ErAt, SdAt, EndAt
<1> QED  BY <1>2, <1>3, <1>4, <1>5, <1>6, <1>7

\* The main thread starts its n-th call.
ScriptCalls(n) ==
    /\ Others(Main) /\ ret' = ret
    /\ \E f, g \in Frame : /\ Starts(f, n) /\ g.at = "script" /\ g.n = n
                           /\ TwoOn(stack'[Main], f, g, <<>>)

\* The script goes on to its next call, or gives up.
LEMMA ScriptGoesMoves ==
  ASSUME TypeInv, Stacks, ScriptGoes, Scripted => Nth \in 0 .. 9
  PROVE  /\ Kept /\ In(Main, "script") /\ Below(Main) = <<>> /\ Scripted /\ Idle
         /\ Nth = Top(Main).n /\ Nth \in 0 .. 8
         /\ \/ Nth = 4 /\ ret[Main] # "ok" /\ Ended(Main)
            \/ (Nth = 4 => ret[Main] = "ok") /\ ScriptCalls(Nth + 1)
<1>1. In(Main, "script") /\ ~Done
      BY DEF ScriptGoes
<1>2. /\ Top(Main) \in Frame /\ Below(Main) \in Seq(Frame) /\ stack[Main] # <<>>
      /\ stack[Main] = Push(Top(Main), Below(Main)) /\ Top(Main).at = "script" /\ Head(stack[Main]) = Top(Main)
      BY <1>1, Acts, Constants
<1>3. Below(Main) = <<>> /\ Bot(stack[Main]) = Top(Main) /\ ~Lost(stack[Main])
      BY <1>1, MainCalled
<1>4. Scripted /\ Nth = Top(Main).n /\ Idle
      BY <1>2, <1>3 DEF Scripted, Nth, main, Idle, TopIs
<1>5. Nth \in 0 .. 8
  <2>1. Nth # 9
        BY <1>1, <1>4, ScriptIs DEF Done
  <2> QED  BY <1>4, <2>1
<1>6. CASE Nth = 4 /\ ret[Main] # "ok"
  <2>1. Terminate(Main, FALSE)
        BY <1>4, <1>6 DEF ScriptGoes
  <2>2. Kept /\ Ended(Main)
        BY <1>1, <2>1, StepEnd, Constants
  <2> QED  BY <1>1, <1>3, <1>4, <1>5, <1>6, <2>2
<1>7. CASE ~(Nth = 4 /\ ret[Main] # "ok")
  <2> DEFINE n == Nth  f == Script[n + 1]  g == [Top(Main) EXCEPT !.n = n + 1]
  <2>0. n \in 0 .. 8 /\ n + 1 \in Nat /\ n + 1 \in 1 .. 9
        BY <1>5
  <2>1. Become(Main, <<f, g>>) /\ ret' = ret
        BY <1>4, <1>7 DEF ScriptGoes
  <2>2. Starts(f, n + 1)
        BY <2>0, ScriptStarts
  <2>3. g \in Frame /\ g.at = "script" /\ g.n = n + 1
        BY <1>2, <2>0, ChangedN
  <2> HIDE DEF n, f, g
  <2>4. f \in Frame /\ FrameOK(f) /\ Link(f, g) /\ Rank(f) < Rank(g) /\ f.at \notin EndAt \cup {"script"}
        BY <2>0, <2>2, <2>3, StartsGood DEF Starts
  <2>5. To(Main, Push(f, Push(g, Below(Main))))
        BY <1>2, <2>1, <2>3, <2>4, Outcome, Constants
  <2>6. Good(Main, Push(g, Below(Main))) /\ ~Lost(Push(g, Below(Main)))
    <3>1. Push(g, Below(Main)) = Push(g, <<>>) /\ <<>> \in Seq(Frame)
          BY <1>3
    <3>2. FrameOK(g)
          BY <2>3 DEF FrameOK, CmdAt, OsAt, ErAt, SdAt
    <3>3. Legal(Push(g, <<>>))
          BY <2>3, <3>1, <3>2, LegalPush, LegalNone
    <3>4. Bot(Push(g, <<>>)) = g /\ Push(g, <<>>) # <<>>
          BY <2>3, <3>1, BotPush, PushIs
    <3>5. "script" \notin EndAt
          BY DEF EndAt
    <3> QED  BY <2>3, <3>1, <3>3, <3>4, <3>5, Constants DEF Good, Lost
  <2>7. /\ Stacks' /\ Typed /\ Others(Main) /\ stack'[Main] = Push(f, Push(g, Below(Main)))
    <3>1. Lost(Push(g, Below(Main))) <=> Lost(stack[Main])
          BY <1>3, <2>6
    <3>2. Main \in Thread /\ Main \notin Listener /\ ~Lost(stack[Main])
          BY <1>3, Constants
    <3> QED  BY <1>1, <2>3, <2>4, <2>5, <2>6, <3>1, <3>2, StacksCall
  <2>8. TwoOn(stack'[Main], f, g, <<>>)
    <3>1. <<>> \in Seq(Frame)
          OBVIOUS
    <3>2. stack'[Main] = Push(f, Push(g, <<>>))
          BY <1>3, <2>7
    <3> QED  BY <2>3, <2>4, <3>1, <3>2, TwoIs
  <2>9. ScriptCalls(n + 1)
        BY <2>1, <2>2, <2>3, <2>4, <2>7, <2>8 DEF ScriptCalls
  <2>10. ScriptCalls(Nth + 1)
        BY <2>9 DEF n
  <2> QED  BY <1>1, <1>3, <1>4, <1>5, <1>7, <2>7, <2>10 DEF Kept
<1> QED  BY <1>6, <1>7

------------------------------------------------------------------------------
(***************************************************************************)
(* The types and the stacks, together.                                     *)
(***************************************************************************)

VarsTyped ==
    /\ isCurrentUserRoot \in BOOLEAN /\ isSshConn \in BOOLEAN /\ isSshRootEnabled \in BOOLEAN
    /\ attemptShutdownFailed \in BOOLEAN /\ keyboardInterruptTriggered \in BOOLEAN
    /\ terminateTargetStarted \in BOOLEAN /\ targetTearDownCalled \in BOOLEAN
    /\ exited \in BOOLEAN
    /\ sshRetries \in 0 .. LimitSsh
    /\ resendAttempts \in 0 .. LimitResend - 1
    /\ tty \in {"root", "user", "login", "rootSecret", "userSecret", "closed"}
    /\ ssh \in {"none", "rootSecret", "userSecret", "root", "user", "closed"}
    /\ poweroffs \in 0 .. 2
Results == {"ok", "failed", "timeout", "asked"}
CallsTyped(t) ==
    /\ Kept
    /\ ret' = ret \/ \E r \in Results : ret' = [ret EXCEPT ![t] = r]

LEMMA TypedAll ==
  ASSUME TypeInv, NEW t \in Thread, CallsTyped(t), VarsTyped'
  PROVE  TypeInv' /\ Stacks'
<1>1. ret' \in [Thread -> Results]
      BY DEF CallsTyped, TypeInv, Results
<1> QED  BY <1>1 DEF CallsTyped, Kept, Typed, TypeInv, VarsTyped, Results

\* An answer leaves the process at a screen of its own.
LEMMA AnswerIs ==
  ASSUME TypeInv, NEW p \in Process, NEW k, Answer(k, Screen(p)) # "silent", k = "exit" => p = "tty",
         Shows(p, Answer(k, Screen(p)))
  PROVE  /\ tty' \in {"root", "user", "login", "rootSecret", "userSecret", "closed"}
         /\ ssh' \in {"none", "rootSecret", "userSecret", "root", "user", "closed"}
<1>1. CASE p = "tty"
      BY <1>1 DEF TypeInv, Shows, Screen, Answer, CurrentUser, Secret
<1>2. CASE p = "ssh"
  <2>1. Screen(p) = ssh /\ ssh' = Answer(k, ssh) /\ tty' = tty /\ k # "exit"
        BY <1>2 DEF Shows, Screen
  <2> QED  BY <2>1, <1>2 DEF TypeInv, Answer, CurrentUser, Secret, Screen
<1> QED  BY <1>1, <1>2 DEF Process

\* Every step keeps the types and the stacks.
LEMMA TypesStep ==
  ASSUME TypeInv, Stacks, NEW t \in Thread, Step(t), poweroffs \in {0, 1},
         t \in Listener /\ In(t, "sdUser") => isCurrentUserRoot,
         t \in Listener /\ In(t, "sdTerm") => ~isSshConn,
         In(t, "er") => isCurrentUserRoot,
         \A a \in {"osSpawn", "osPass", "osIn"} : In(t, a) => sshRetries < LimitSsh,
         Scripted => Nth \in 0 .. 9
  PROVE  TypeInv' /\ Stacks'
<1>1. CASE Sends(t)
  <2>1. CallsTyped(t)
        BY <1>1, SendsMoves DEF Went, Called, Returned, Ended, CallsTyped, Results, BacksOff,
           Listening, TriesAgain, NamesUser
  <2>2. poweroffs' \in 0 .. 2
        BY <1>1 DEF Sends
  <2>3. VarsTyped'
        BY <1>1, <2>2 DEF Sends, VarsTyped, TypeInv, attempts, ending, conn, Shows
  <2> QED  BY <2>1, <2>3, TypedAll
<1>2. CASE Answers(t)
  <2>1. CallsTyped(t)
        BY <1>2, AnswersMoves DEF Went, Called, Returned, Ended, CallsTyped, Results, BacksOff,
           Listening, TriesAgain, NamesUser
  <2>2. In(t, "expect") /\ Top(t).proc \in Process /\ (Top(t).kind = "exit" => Top(t).proc = "tty")
    <3>1. In(t, "expect")
          BY <1>2 DEF Answers
    <3>2. Top(t) \in Frame /\ Top(t).at = "expect" /\ FrameOK(Top(t))
          BY <3>1, Acts, TopIs_OK
    <3> QED  BY <3>1, <3>2 DEF FrameOK, Frame, CmdAt
  <2>3. /\ tty' \in {"root", "user", "login", "rootSecret", "userSecret", "closed"}
        /\ ssh' \in {"none", "rootSecret", "userSecret", "root", "user", "closed"}
        BY <1>2, <2>2, AnswersMoves, AnswerIs
  <2>4. VarsTyped'
        BY <1>2, <2>3 DEF Answers, VarsTyped, TypeInv, attempts, ending
  <2> QED  BY <2>1, <2>4, TypedAll
<1>3. CASE TimesOut(t)
  <2>1. CallsTyped(t)
        BY <1>3, TimesOutMoves DEF Went, Called, Returned, Ended, CallsTyped, Results, BacksOff,
           Listening, TriesAgain, NamesUser
  <2>2. VarsTyped'
        BY <1>3 DEF TimesOut, VarsTyped, TypeInv, attempts, ending, conn, Shows
  <2> QED  BY <2>1, <2>2, TypedAll
<1>4. CASE Resolved(t)
  <2>1. CallsTyped(t)
        BY <1>4, ResolvedMoves DEF Went, Called, Returned, Ended, CallsTyped, Results, BacksOff,
           Listening, TriesAgain, NamesUser
  <2>2. VarsTyped'
        BY <1>4 DEF Resolved, VarsTyped, TypeInv, attempts, ending, conn, Shows
  <2> QED  BY <2>1, <2>2, TypedAll
<1>5. CASE Eof(t)
  <2>1. CallsTyped(t)
        BY <1>5, EofMoves DEF Went, Called, Returned, Ended, CallsTyped, Results, BacksOff,
           Listening, TriesAgain, NamesUser
  <2>2. VarsTyped'
        BY <1>5 DEF Eof, VarsTyped, TypeInv, attempts, ending, conn, Shows
  <2> QED  BY <2>1, <2>2, TypedAll
<1>6. CASE InterruptStarts(t)
  <2>1. CallsTyped(t)
        BY <1>6, InterruptStartsMoves DEF Went, Called, Returned, Ended, CallsTyped, Results,
           BacksOff, Listening, TriesAgain, NamesUser
  <2>2. keyboardInterruptTriggered' \in BOOLEAN
        BY <1>6 DEF InterruptStarts, TypeInv
  <2>3. UNCHANGED <<isCurrentUserRoot, isSshConn, isSshRootEnabled, attemptShutdownFailed, terminateTargetStarted, targetTearDownCalled, exited, sshRetries, resendAttempts, tty, ssh, poweroffs>>
        BY <1>6 DEF InterruptStarts, attempts, ending, conn
  <2>4. VarsTyped'
        BY <2>2, <2>3 DEF VarsTyped, TypeInv
  <2> QED  BY <2>1, <2>4, TypedAll
<1>7. CASE InterruptTries(t)
  <2>1. CallsTyped(t)
        BY <1>7, InterruptTriesMoves DEF Went, Called, Returned, Ended, CallsTyped, Results,
           BacksOff, Listening, TriesAgain, NamesUser
  <2>2. VarsTyped'
        BY <1>7 DEF InterruptTries, VarsTyped, TypeInv, attempts, ending, conn, Shows
  <2> QED  BY <2>1, <2>2, TypedAll
<1>8. CASE InterruptEnds(t)
  <2>1. CallsTyped(t)
        BY <1>8, InterruptEndsMoves DEF Went, Called, Returned, Ended, CallsTyped, Results,
           BacksOff, Listening, TriesAgain, NamesUser
  <2>2. keyboardInterruptTriggered' \in BOOLEAN
        BY <1>8 DEF InterruptEnds, TypeInv
  <2>3. UNCHANGED <<isCurrentUserRoot, isSshConn, isSshRootEnabled, attemptShutdownFailed, terminateTargetStarted, targetTearDownCalled, exited, sshRetries, resendAttempts, tty, ssh, poweroffs>>
        BY <1>8 DEF InterruptEnds, attempts, ending, conn
  <2>4. VarsTyped'
        BY <2>2, <2>3 DEF VarsTyped, TypeInv
  <2> QED  BY <2>1, <2>4, TypedAll
<1>9. CASE TerminateSteps(t)
  <2>1. CallsTyped(t)
        BY <1>9, TerminateMoves DEF Went, Called, Returned, Ended, CallsTyped, Results, BacksOff,
           Listening, TriesAgain, NamesUser
  <2>2. exited' \in BOOLEAN
        BY <1>9 DEF TerminateSteps, still, TypeInv
  <2>3. UNCHANGED <<isCurrentUserRoot, isSshConn, isSshRootEnabled, attemptShutdownFailed, keyboardInterruptTriggered, terminateTargetStarted, targetTearDownCalled, sshRetries, resendAttempts, tty, ssh, poweroffs>>
        BY <1>9 DEF TerminateSteps, still, attempts, ending, conn
  <2>4. VarsTyped'
        BY <2>2, <2>3 DEF VarsTyped, TypeInv
  <2> QED  BY <2>1, <2>4, TypedAll
<1>10. CASE ShutdownStarts(t)
  <2>1. CallsTyped(t)
        BY <1>10, ShutdownStartsMoves DEF Went, Called, Returned, Ended, CallsTyped, Results,
           BacksOff, Listening, TriesAgain, NamesUser
  <2>2. VarsTyped'
        BY <1>10 DEF ShutdownStarts, still, VarsTyped, TypeInv, attempts, ending, conn, Shows
  <2> QED  BY <2>1, <2>2, TypedAll
<1>11. CASE ShutdownSwitchesUser(t)
  <2>1. CallsTyped(t)
        BY <1>11, ShutdownSwitchesMoves DEF ShutdownSwitchesUser, Went, Called, Returned, Ended,
           CallsTyped, Results, BacksOff, Listening, TriesAgain, NamesUser
  <2>2. VarsTyped'
        BY <1>11 DEF ShutdownSwitchesUser, still, VarsTyped, TypeInv, attempts, ending, conn,
           Shows
  <2> QED  BY <2>1, <2>2, TypedAll
<1>12. CASE TerminateTargetStarts(t)
  <2>1. CallsTyped(t)
        BY <1>12, TerminateTargetMoves DEF TerminateTargetStarts, Went, Called, Returned, Ended,
           CallsTyped, Results, BacksOff, Listening, TriesAgain, NamesUser
  <2>2. VarsTyped'
        BY <1>12 DEF TerminateTargetStarts, still, VarsTyped, TypeInv, attempts, ending, conn,
           Shows
  <2> QED  BY <2>1, <2>2, TypedAll
<1>13. CASE PowersOff(t)
  <2>1. CallsTyped(t)
        BY <1>13, PowersOffMoves DEF Went, Called, Returned, Ended, CallsTyped, Results,
           BacksOff, Listening, TriesAgain, NamesUser
  <2>2. VarsTyped'
        BY <1>13 DEF PowersOff, still, VarsTyped, TypeInv, attempts, ending, conn, Shows
  <2> QED  BY <2>1, <2>2, TypedAll
<1>14. CASE Returns(t)
  <2>1. CallsTyped(t)
        BY <1>14, ReturnsMoves DEF Went, Called, Returned, Ended, CallsTyped, Results, BacksOff,
           Listening, TriesAgain, NamesUser
  <2>2. VarsTyped'
        BY <1>14 DEF Returns, still, VarsTyped, TypeInv, attempts, ending, conn, Shows
  <2> QED  BY <2>1, <2>2, TypedAll
<1>15. CASE TearDownStarts(t)
  <2>1. CallsTyped(t)
        BY <1>15, TearDownStartsMoves DEF Went, Called, Returned, Ended, CallsTyped, Results,
           BacksOff, Listening, TriesAgain, NamesUser
  <2>2. VarsTyped'
        BY <1>15 DEF TearDownStarts, still, VarsTyped, TypeInv, attempts, ending, conn, Shows
  <2> QED  BY <2>1, <2>2, TypedAll
<1>16. CASE TearDownKills(t)
  <2>1. CallsTyped(t)
        BY <1>16, TearDownKillsMoves DEF Went, Called, Returned, Ended, CallsTyped, Results,
           BacksOff, Listening, TriesAgain, NamesUser
  <2>2. VarsTyped'
        BY <1>16 DEF TearDownKills, VarsTyped, TypeInv, attempts, ending, conn, Shows
  <2> QED  BY <2>1, <2>2, TypedAll
<1>17. CASE SwitchUserStarts(t)
  <2>1. CallsTyped(t)
        BY <1>17, SwitchUserStartsMoves DEF Went, Called, Returned, Ended, CallsTyped, Results,
           BacksOff, Listening, TriesAgain, NamesUser
  <2>2. isCurrentUserRoot' \in BOOLEAN
        BY <1>17, SwitchUserStartsMoves DEF SwitchUserStarts, still, TypeInv
  <2>3. UNCHANGED <<isSshConn, isSshRootEnabled, attemptShutdownFailed, keyboardInterruptTriggered, terminateTargetStarted, targetTearDownCalled, exited, sshRetries, resendAttempts, tty, ssh, poweroffs>>
        BY <1>17 DEF SwitchUserStarts, still, attempts, ending, conn
  <2>4. VarsTyped'
        BY <2>2, <2>3 DEF VarsTyped, TypeInv
  <2> QED  BY <2>1, <2>4, TypedAll
<1>18. CASE SwitchUserLogsIn(t)
  <2>1. CallsTyped(t)
        BY <1>18, SwitchUserLogsInMoves DEF Went, Called, Returned, Ended, CallsTyped, Results,
           BacksOff, Listening, TriesAgain, NamesUser
  <2>2. VarsTyped'
        BY <1>18 DEF SwitchUserLogsIn, still, VarsTyped, TypeInv, attempts, ending, conn, Shows
  <2> QED  BY <2>1, <2>2, TypedAll
<1>19. CASE SwitchUserOpens(t)
  <2>1. CallsTyped(t)
        BY <1>19, SwitchUserOpensMoves DEF Went, Called, Returned, Ended, CallsTyped, Results,
           BacksOff, Listening, TriesAgain, NamesUser
  <2>2. VarsTyped'
        BY <1>19 DEF SwitchUserOpens, still, VarsTyped, TypeInv, attempts, ending, conn, Shows
  <2> QED  BY <2>1, <2>2, TypedAll
<1>20. CASE SwitchUserEnds(t)
  <2>1. CallsTyped(t)
        BY <1>20, SwitchUserEndsMoves DEF Went, Called, Returned, Ended, CallsTyped, Results,
           BacksOff, Listening, TriesAgain, NamesUser
  <2>2. VarsTyped'
        BY <1>20 DEF SwitchUserEnds, still, VarsTyped, TypeInv, attempts, ending, conn, Shows
  <2> QED  BY <2>1, <2>2, TypedAll
<1>21. CASE OpenStarts(t)
  <2>1. CallsTyped(t)
        BY <1>21, OpenStartsMoves DEF Went, Called, Returned, Ended, CallsTyped, Results,
           BacksOff, Listening, TriesAgain, NamesUser
  <2>2. VarsTyped'
        BY <1>21 DEF OpenStarts, quiet, VarsTyped, TypeInv, attempts, ending, conn, Shows
  <2> QED  BY <2>1, <2>2, TypedAll
<1>22. CASE OpenSpawns(t)
  <2>1. CallsTyped(t)
        BY <1>22, OpenSpawnsMoves DEF Went, Called, Returned, Ended, CallsTyped, Results,
           BacksOff, Listening, TriesAgain, NamesUser
  <2>2. sshRetries' \in 0 .. LimitSsh
    <3>1. In(t, "osSpawn") /\ sshRetries < LimitSsh /\ sshRetries \in 0 .. LimitSsh /\ LimitSsh \in Nat
          BY <1>22, Constants DEF OpenSpawns, TypeInv
    <3>2. sshRetries' \in {sshRetries, 0, sshRetries + 1}
          BY <1>22 DEF OpenSpawns, OpenFails
    <3> QED  BY <3>1, <3>2
  <2>3. VarsTyped'
        BY <1>22, <2>2 DEF OpenSpawns, quiet, Secret, VarsTyped, TypeInv, attempts, ending, conn,
           Shows, OpenFails
  <2> QED  BY <2>1, <2>3, TypedAll
<1>23. CASE OpenLogsIn(t)
  <2>1. CallsTyped(t)
        BY <1>23, OpenLogsInMoves DEF Went, Called, Returned, Ended, CallsTyped, Results,
           BacksOff, Listening, TriesAgain, NamesUser
  <2>2. isSshConn' \in BOOLEAN
        BY <1>23, OpenLogsInMoves DEF OpenLogsIn, quiet, OpenFails, TypeInv
  <2>3. sshRetries' \in 0 .. LimitSsh /\ (ssh' = ssh \/ ssh' = "none")
    <3>1. In(t, "osPass") /\ sshRetries < LimitSsh /\ sshRetries \in 0 .. LimitSsh /\ LimitSsh \in Nat
          BY <1>23, Constants DEF OpenLogsIn, TypeInv
    <3>2. sshRetries' \in {sshRetries, 0, sshRetries + 1} /\ (ssh' = ssh \/ ssh' = "none")
          BY <1>23 DEF OpenLogsIn, OpenFails, conn
    <3> QED  BY <3>1, <3>2
  <2>4. UNCHANGED <<isSshRootEnabled, ending, resendAttempts, isCurrentUserRoot, keyboardInterruptTriggered, tty, poweroffs, exited>>
        BY <1>23 DEF OpenLogsIn, quiet
  <2>5. VarsTyped'
        BY <2>2, <2>3, <2>4 DEF VarsTyped, TypeInv, ending
  <2> QED  BY <2>1, <2>5, TypedAll
<1>24. CASE OpenEnds(t)
  <2>1. CallsTyped(t)
        BY <1>24, OpenEndsMoves DEF Went, Called, Returned, Ended, CallsTyped, Results, BacksOff,
           Listening, TriesAgain, NamesUser
  <2>2. isSshConn' \in BOOLEAN
        BY <1>24, OpenEndsMoves DEF OpenEnds, quiet, OpenFails, TypeInv
  <2>3. sshRetries' \in 0 .. LimitSsh /\ (ssh' = ssh \/ ssh' = "none")
    <3>1. In(t, "osIn") /\ sshRetries < LimitSsh /\ sshRetries \in 0 .. LimitSsh /\ LimitSsh \in Nat
          BY <1>24, Constants DEF OpenEnds, TypeInv
    <3>2. sshRetries' \in {sshRetries, 0, sshRetries + 1} /\ (ssh' = ssh \/ ssh' = "none")
          BY <1>24 DEF OpenEnds, OpenFails, conn
    <3> QED  BY <3>1, <3>2
  <2>4. UNCHANGED <<isSshRootEnabled, ending, resendAttempts, isCurrentUserRoot, keyboardInterruptTriggered, tty, poweroffs, exited>>
        BY <1>24 DEF OpenEnds, quiet
  <2>5. VarsTyped'
        BY <2>2, <2>3, <2>4 DEF VarsTyped, TypeInv, ending
  <2> QED  BY <2>1, <2>5, TypedAll
<1>25. CASE CloseStarts(t)
  <2>1. CallsTyped(t)
        BY <1>25, CloseStartsMoves DEF Went, Called, Returned, Ended, CallsTyped, Results,
           BacksOff, Listening, TriesAgain, NamesUser
  <2>2. VarsTyped'
        BY <1>25 DEF CloseStarts, quiet, VarsTyped, TypeInv, attempts, ending, conn, Shows
  <2> QED  BY <2>1, <2>2, TypedAll
<1>26. CASE Closes(t)
  <2>1. CallsTyped(t)
        BY <1>26, ClosesMoves DEF Went, Called, Returned, Ended, CallsTyped, Results, BacksOff,
           Listening, TriesAgain, NamesUser
  <2>2. VarsTyped'
        BY <1>26 DEF Closes, quiet, VarsTyped, TypeInv, attempts, ending, conn, Shows
  <2> QED  BY <2>1, <2>2, TypedAll
<1>27. CASE EnableRootSteps(t)
  <2>1. CallsTyped(t)
        BY <1>27, EnableRootMoves DEF EnableRootSteps, Went, Called, Returned, Ended, CallsTyped,
           Results, BacksOff, Listening, TriesAgain, NamesUser
  <2>2. isSshRootEnabled' \in BOOLEAN
        BY <1>27 DEF EnableRootSteps, quiet, TypeInv
  <2>3. UNCHANGED <<isCurrentUserRoot, isSshConn, attemptShutdownFailed, keyboardInterruptTriggered, terminateTargetStarted, targetTearDownCalled, exited, sshRetries, resendAttempts, tty, ssh, poweroffs>>
        BY <1>27 DEF EnableRootSteps, quiet, attempts, ending, conn
  <2>4. VarsTyped'
        BY <2>2, <2>3 DEF VarsTyped, TypeInv
  <2> QED  BY <2>1, <2>4, TypedAll
<1>28. CASE SendFileJoins(t)
  <2>1. CallsTyped(t)
        BY <1>28, SendFileJoinsMoves DEF Went, Called, Returned, Ended, CallsTyped, Results,
           BacksOff, Listening, TriesAgain, NamesUser
  <2>2. VarsTyped'
        BY <1>28 DEF SendFileJoins, rest, VarsTyped, TypeInv, attempts, ending, conn, Shows
  <2> QED  BY <2>1, <2>2, TypedAll
<1>29. CASE SendFileExists(t)
  <2>1. CallsTyped(t)
        BY <1>29, SendFileExistsMoves DEF Went, Called, Returned, Ended, CallsTyped, Results,
           BacksOff, Listening, TriesAgain, NamesUser
  <2>2. VarsTyped'
        BY <1>29 DEF SendFileExists, rest, VarsTyped, TypeInv, attempts, ending, conn, Shows
  <2> QED  BY <2>1, <2>2, TypedAll
<1>30. CASE SendFileChecks(t)
  <2>1. CallsTyped(t)
        BY <1>30, SendFileChecksMoves DEF Went, Called, Returned, Ended, CallsTyped, Results,
           BacksOff, Listening, TriesAgain, NamesUser
  <2>2. resendAttempts' \in 0 .. LimitResend - 1
        BY <1>30, SendFileChecksMoves, Constants DEF TypeInv
  <2>3. VarsTyped'
        BY <1>30, <2>2 DEF SendFileChecks, rest, VarsTyped, TypeInv, attempts, ending, conn,
           Shows
  <2> QED  BY <2>1, <2>3, TypedAll
<1>31. CASE SendFileRetries(t)
  <2>1. CallsTyped(t)
        BY <1>31, SendFileRetriesMoves DEF Went, Called, Returned, Ended, CallsTyped, Results,
           BacksOff, Listening, TriesAgain, NamesUser
  <2>2. resendAttempts' \in 0 .. LimitResend - 1
        BY <1>31, SendFileRetriesMoves, Constants DEF TypeInv
  <2>3. VarsTyped'
        BY <1>31, <2>2 DEF SendFileRetries, rest, VarsTyped, TypeInv, attempts, ending, conn,
           Shows
  <2> QED  BY <2>1, <2>3, TypedAll
<1>32. CASE SendFileStarts(t)
  <2>1. CallsTyped(t)
        BY <1>32, SendFileStartsMoves DEF Went, Called, Returned, Ended, CallsTyped, Results,
           BacksOff, Listening, TriesAgain, NamesUser
  <2>2. VarsTyped'
        BY <1>32 DEF SendFileStarts, rest, VarsTyped, TypeInv, attempts, ending, conn, Shows
  <2> QED  BY <2>1, <2>2, TypedAll
<1>33. CASE t = Main /\ ScriptGoes
  <2>1. CallsTyped(t)
        BY <1>33, ScriptGoesMoves DEF CallsTyped, Ended, ScriptCalls
  <2>2. VarsTyped'
        BY <1>33 DEF ScriptGoes, rest, VarsTyped, TypeInv, attempts, ending, conn
  <2> QED  BY <2>1, <2>2, TypedAll
<1> QED  BY <1>1, <1>2, <1>3, <1>4, <1>5, <1>6, <1>7, <1>8, <1>9, <1>10, <1>11, <1>12, <1>13,
            <1>14, <1>15, <1>16, <1>17, <1>18, <1>19, <1>20, <1>21, <1>22, <1>23, <1>24, <1>25,
            <1>26, <1>27, <1>28, <1>29, <1>30, <1>31, <1>32, <1>33 DEF Step

------------------------------------------------------------------------------
(***************************************************************************)
(* What a listener leaves alone.                                           *)
(***************************************************************************)

\* What a listener can do.
SharedStep(t) ==
    \/ Sends(t) \/ Answers(t) \/ TimesOut(t) \/ Resolved(t) \/ Eof(t)
    \/ InterruptStarts(t) \/ InterruptTries(t) \/ InterruptEnds(t)
    \/ TerminateSteps(t) \/ ShutdownStarts(t) \/ ShutdownSwitchesUser(t)
    \/ TerminateTargetStarts(t) \/ PowersOff(t) \/ Returns(t)
    \/ TearDownStarts(t) \/ TearDownKills(t)

\* What it leaves alone.
MainAlone ==
    /\ stack'[Main] = stack[Main] /\ ret'[Main] = ret[Main]
    /\ isCurrentUserRoot' = isCurrentUserRoot /\ isSshConn' = isSshConn
    /\ isSshRootEnabled' = isSshRootEnabled
    /\ sshRetries' = sshRetries /\ resendAttempts' = resendAttempts

\* A listener changes nothing of main's.
LEMMA ListenerLeaves ==
  ASSUME TypeInv, Stacks, NEW t \in Listener, Step(t),
         In(t, "sdUser") => isCurrentUserRoot,
         In(t, "sdTerm") => ~isSshConn
  PROVE  MainAlone /\ Others(t) /\ SharedStep(t)
<1>0. t \in Thread /\ t # Main /\ Main \in Thread
      BY Constants DEF Thread
<1>m. ASSUME Others(t), ret' = ret \/ \E r : ret' = [ret EXCEPT ![t] = r]
      PROVE  stack'[Main] = stack[Main] /\ ret'[Main] = ret[Main]
      BY <1>0, <1>m DEF Others, TypeInv
<1>1. CASE Sends(t)
  <2>1. Others(t) /\ (ret' = ret \/ \E r : ret' = [ret EXCEPT ![t] = r])
        BY <1>0, <1>1, SendsMoves DEF Sends, Went, Called, Returned, Ended, TriesAgain
  <2>2. UNCHANGED <<isCurrentUserRoot, isSshConn, isSshRootEnabled, sshRetries, resendAttempts>>
        BY <1>1 DEF Sends, attempts, conn
  <2>3. SharedStep(t)
        BY <1>1 DEF SharedStep
  <2> QED  BY <1>m, <2>1, <2>2, <2>3 DEF MainAlone
<1>2. CASE Answers(t)
  <2>1. Others(t) /\ (ret' = ret \/ \E r : ret' = [ret EXCEPT ![t] = r])
        BY <1>0, <1>2, AnswersMoves DEF Answers, Went, Called, Returned, Ended, TriesAgain
  <2>2. UNCHANGED <<isCurrentUserRoot, isSshConn, isSshRootEnabled, sshRetries, resendAttempts>>
        BY <1>2 DEF Answers, attempts, conn
  <2>3. SharedStep(t)
        BY <1>2 DEF SharedStep
  <2> QED  BY <1>m, <2>1, <2>2, <2>3 DEF MainAlone
<1>3. CASE TimesOut(t)
  <2>1. Others(t) /\ (ret' = ret \/ \E r : ret' = [ret EXCEPT ![t] = r])
        BY <1>0, <1>3, TimesOutMoves DEF TimesOut, Went, Called, Returned, Ended, TriesAgain
  <2>2. UNCHANGED <<isCurrentUserRoot, isSshConn, isSshRootEnabled, sshRetries, resendAttempts>>
        BY <1>3 DEF TimesOut, attempts, conn
  <2>3. SharedStep(t)
        BY <1>3 DEF SharedStep
  <2> QED  BY <1>m, <2>1, <2>2, <2>3 DEF MainAlone
<1>4. CASE Resolved(t)
  <2>1. Others(t) /\ (ret' = ret \/ \E r : ret' = [ret EXCEPT ![t] = r])
        BY <1>0, <1>4, ResolvedMoves DEF Resolved, Went, Called, Returned, Ended, TriesAgain
  <2>2. UNCHANGED <<isCurrentUserRoot, isSshConn, isSshRootEnabled, sshRetries, resendAttempts>>
        BY <1>4 DEF Resolved, attempts, conn
  <2>3. SharedStep(t)
        BY <1>4 DEF SharedStep
  <2> QED  BY <1>m, <2>1, <2>2, <2>3 DEF MainAlone
<1>5. CASE Eof(t)
  <2>1. Others(t) /\ (ret' = ret \/ \E r : ret' = [ret EXCEPT ![t] = r])
        BY <1>0, <1>5, EofMoves DEF Eof, Went, Called, Returned, Ended, TriesAgain
  <2>2. UNCHANGED <<isCurrentUserRoot, isSshConn, isSshRootEnabled, sshRetries, resendAttempts>>
        BY <1>5 DEF Eof, attempts, conn
  <2>3. SharedStep(t)
        BY <1>5 DEF SharedStep
  <2> QED  BY <1>m, <2>1, <2>2, <2>3 DEF MainAlone
<1>6. CASE InterruptStarts(t)
  <2>1. Others(t) /\ (ret' = ret \/ \E r : ret' = [ret EXCEPT ![t] = r])
        BY <1>0, <1>6, InterruptStartsMoves DEF InterruptStarts, Went, Called, Returned, Ended,
           TriesAgain
  <2>2. UNCHANGED <<isCurrentUserRoot, isSshConn, isSshRootEnabled, sshRetries, resendAttempts>>
        BY <1>6 DEF InterruptStarts, attempts, conn
  <2>3. SharedStep(t)
        BY <1>6 DEF SharedStep
  <2> QED  BY <1>m, <2>1, <2>2, <2>3 DEF MainAlone
<1>7. CASE InterruptTries(t)
  <2>1. Others(t) /\ (ret' = ret \/ \E r : ret' = [ret EXCEPT ![t] = r])
        BY <1>0, <1>7, InterruptTriesMoves DEF InterruptTries, Went, Called, Returned, Ended,
           TriesAgain
  <2>2. UNCHANGED <<isCurrentUserRoot, isSshConn, isSshRootEnabled, sshRetries, resendAttempts>>
        BY <1>7 DEF InterruptTries, attempts, conn
  <2>3. SharedStep(t)
        BY <1>7 DEF SharedStep
  <2> QED  BY <1>m, <2>1, <2>2, <2>3 DEF MainAlone
<1>8. CASE InterruptEnds(t)
  <2>1. Others(t) /\ (ret' = ret \/ \E r : ret' = [ret EXCEPT ![t] = r])
        BY <1>0, <1>8, InterruptEndsMoves DEF InterruptEnds, Went, Called, Returned, Ended,
           TriesAgain
  <2>2. UNCHANGED <<isCurrentUserRoot, isSshConn, isSshRootEnabled, sshRetries, resendAttempts>>
        BY <1>8 DEF InterruptEnds, attempts, conn
  <2>3. SharedStep(t)
        BY <1>8 DEF SharedStep
  <2> QED  BY <1>m, <2>1, <2>2, <2>3 DEF MainAlone
<1>9. CASE TerminateSteps(t)
  <2>1. Others(t) /\ (ret' = ret \/ \E r : ret' = [ret EXCEPT ![t] = r])
        BY <1>0, <1>9, TerminateMoves DEF Went, Called, Others
  <2>2. UNCHANGED <<isCurrentUserRoot, isSshConn, isSshRootEnabled, sshRetries, resendAttempts>>
        BY <1>9 DEF TerminateSteps, still, attempts, conn
  <2>3. SharedStep(t)
        BY <1>9 DEF SharedStep
  <2> QED  BY <1>m, <2>1, <2>2, <2>3 DEF MainAlone
<1>10. CASE ShutdownStarts(t)
  <2>1. Others(t) /\ (ret' = ret \/ \E r : ret' = [ret EXCEPT ![t] = r])
        BY <1>0, <1>10, ShutdownStartsMoves DEF ShutdownStarts, Went, Called, Returned, Ended,
           TriesAgain
  <2>2. UNCHANGED <<isCurrentUserRoot, isSshConn, isSshRootEnabled, sshRetries, resendAttempts>>
        BY <1>10 DEF ShutdownStarts, still, attempts, conn
  <2>3. SharedStep(t)
        BY <1>10 DEF SharedStep
  <2> QED  BY <1>m, <2>1, <2>2, <2>3 DEF MainAlone
<1>11. CASE ShutdownSwitchesUser(t)
  <2>1. Others(t) /\ (ret' = ret \/ \E r : ret' = [ret EXCEPT ![t] = r])
        BY <1>0, <1>11, ShutdownSwitchesMoves DEF ShutdownSwitchesUser, Went, Called, Returned,
           Ended, TriesAgain
  <2>2. UNCHANGED <<isCurrentUserRoot, isSshConn, isSshRootEnabled, sshRetries, resendAttempts>>
        BY <1>11 DEF ShutdownSwitchesUser, still, attempts, conn
  <2>3. SharedStep(t)
        BY <1>11 DEF SharedStep
  <2> QED  BY <1>m, <2>1, <2>2, <2>3 DEF MainAlone
<1>12. CASE TerminateTargetStarts(t)
  <2>1. Others(t) /\ (ret' = ret \/ \E r : ret' = [ret EXCEPT ![t] = r])
        BY <1>0, <1>12, TerminateTargetMoves DEF TerminateTargetStarts, Went, Called, Returned,
           Ended, TriesAgain
  <2>2. UNCHANGED <<isCurrentUserRoot, isSshConn, isSshRootEnabled, sshRetries, resendAttempts>>
        BY <1>12 DEF TerminateTargetStarts, still, attempts, conn
  <2>3. SharedStep(t)
        BY <1>12 DEF SharedStep
  <2> QED  BY <1>m, <2>1, <2>2, <2>3 DEF MainAlone
<1>13. CASE PowersOff(t)
  <2>1. Others(t) /\ (ret' = ret \/ \E r : ret' = [ret EXCEPT ![t] = r])
        BY <1>0, <1>13, PowersOffMoves DEF PowersOff, Went, Called, Returned, Ended, TriesAgain
  <2>2. UNCHANGED <<isCurrentUserRoot, isSshConn, isSshRootEnabled, sshRetries, resendAttempts>>
        BY <1>13 DEF PowersOff, still, attempts, conn
  <2>3. SharedStep(t)
        BY <1>13 DEF SharedStep
  <2> QED  BY <1>m, <2>1, <2>2, <2>3 DEF MainAlone
<1>14. CASE Returns(t)
  <2>1. Others(t) /\ (ret' = ret \/ \E r : ret' = [ret EXCEPT ![t] = r])
        BY <1>0, <1>14, ReturnsMoves DEF Returns, Went, Called, Returned, Ended, TriesAgain
  <2>2. UNCHANGED <<isCurrentUserRoot, isSshConn, isSshRootEnabled, sshRetries, resendAttempts>>
        BY <1>14 DEF Returns, still, attempts, conn
  <2>3. SharedStep(t)
        BY <1>14 DEF SharedStep
  <2> QED  BY <1>m, <2>1, <2>2, <2>3 DEF MainAlone
<1>15. CASE TearDownStarts(t)
  <2>1. Others(t) /\ (ret' = ret \/ \E r : ret' = [ret EXCEPT ![t] = r])
        BY <1>0, <1>15, TearDownStartsMoves DEF TearDownStarts, Went, Called, Returned, Ended,
           TriesAgain
  <2>2. UNCHANGED <<isCurrentUserRoot, isSshConn, isSshRootEnabled, sshRetries, resendAttempts>>
        BY <1>15 DEF TearDownStarts, still, attempts, conn
  <2>3. SharedStep(t)
        BY <1>15 DEF SharedStep
  <2> QED  BY <1>m, <2>1, <2>2, <2>3 DEF MainAlone
<1>16. CASE TearDownKills(t)
  <2>1. Others(t) /\ (ret' = ret \/ \E r : ret' = [ret EXCEPT ![t] = r])
        BY <1>0, <1>16, TearDownKillsMoves DEF TearDownKills, Went, Called, Returned, Ended,
           TriesAgain
  <2>2. UNCHANGED <<isCurrentUserRoot, isSshConn, isSshRootEnabled, sshRetries, resendAttempts>>
        BY <1>16 DEF TearDownKills, attempts, conn
  <2>3. SharedStep(t)
        BY <1>16 DEF SharedStep
  <2> QED  BY <1>m, <2>1, <2>2, <2>3 DEF MainAlone
<1>17. CASE SwitchUserStarts(t)
      BY <1>0, <1>17, SwitchUserStartsMoves
<1>18. CASE SwitchUserLogsIn(t)
      BY <1>0, <1>18, SwitchUserLogsInMoves
<1>19. CASE SwitchUserOpens(t)
      BY <1>0, <1>19, SwitchUserOpensMoves
<1>20. CASE SwitchUserEnds(t)
      BY <1>0, <1>20, SwitchUserEndsMoves
<1>21. CASE OpenStarts(t)
      BY <1>0, <1>21, OpenStartsMoves
<1>22. CASE OpenSpawns(t)
      BY <1>0, <1>22, OpenSpawnsMoves
<1>23. CASE OpenLogsIn(t)
      BY <1>0, <1>23, OpenLogsInMoves
<1>24. CASE OpenEnds(t)
      BY <1>0, <1>24, OpenEndsMoves
<1>25. CASE CloseStarts(t)
      BY <1>0, <1>25, CloseStartsMoves
<1>26. CASE Closes(t)
      BY <1>0, <1>26, ClosesMoves
<1>27. CASE EnableRootSteps(t)
      BY <1>0, <1>27, ErrandOfMain DEF EnableRootSteps, Errands, ErAt
<1>28. CASE SendFileJoins(t)
      BY <1>0, <1>28, SendFileJoinsMoves
<1>29. CASE SendFileExists(t)
      BY <1>0, <1>29, SendFileExistsMoves
<1>30. CASE SendFileChecks(t)
      BY <1>0, <1>30, SendFileChecksMoves
<1>31. CASE SendFileRetries(t)
      BY <1>0, <1>31, SendFileRetriesMoves
<1>32. CASE SendFileStarts(t)
      BY <1>0, <1>32, SendFileStartsMoves
<1>33. CASE t = Main /\ ScriptGoes
      BY <1>0, <1>33
<1> QED  BY <1>1, <1>2, <1>3, <1>4, <1>5, <1>6, <1>7, <1>8, <1>9, <1>10, <1>11, <1>12, <1>13,
            <1>14, <1>15, <1>16, <1>17, <1>18, <1>19, <1>20, <1>21, <1>22, <1>23, <1>24, <1>25,
            <1>26, <1>27, <1>28, <1>29, <1>30, <1>31, <1>32, <1>33 DEF Step

------------------------------------------------------------------------------
(***************************************************************************)
(* Errands: the user and the connection of a thread that terminates.       *)
(***************************************************************************)

\* Below a function there are only functions of a higher rank.
LEMMA UnderIs ==
  ASSUME TypeInv, Stacks, NEW t \in Thread, NEW a, In(t, a), NEW A
  PROVE  /\ (a \in Low /\ A \subseteq Low) => ~Has(Below(t), A)
         /\ (a \in OsAt /\ A \subseteq Low3) => ~Has(Below(t), A)
         /\ (a \in SuAt \cup SfAt /\ A \subseteq Low4) => ~Has(Below(t), A)
         /\ (a \in SdAt /\ A \subseteq Low5) => ~Has(Below(t), A)
         /\ (a = "return" /\ A \subseteq Low4) => ~Has(Below(t), A)
         /\ (a = "return" /\ Top(t).kind = "none" /\ A \subseteq Low5) => ~Has(Below(t), A)
         /\ a \in EndAt \cup {"script"} => Below(t) = <<>>
<1>1. /\ Top(t) \in Frame /\ Below(t) \in Seq(Frame)
      /\ stack[t] = Push(Top(t), Below(t)) /\ Top(t).at = a
      BY Acts
<1>2. Legal(Push(Top(t), Below(t)))
      BY <1>1 DEF Stacks, Good
<1> QED  BY <1>1, <1>2, NoSecond

LEMMA ErrandKeeps ==
  ASSUME Errand, NEW P, Stays(Main, P), \A p \in P : p \notin Errands \cup {"sdTerm", "sdPower"},
         isCurrentUserRoot' = isCurrentUserRoot, sshRetries' = sshRetries
  PROVE  Errand'
<1>1. CASE Ended(Main)
  <2>1. \A A : Has(stack'[Main], A) <=> "term" \in A
        BY <1>1 DEF Ended
  <2> QED  BY <2>1 DEF Errand, main, Errands, SuAt, OsAt, ErAt, CsAt
<1>2. CASE ~Ended(Main)
  <2>1. /\ Lost(stack'[Main]) <=> Lost(stack[Main])
        /\ \A A : (\A p \in P : p \notin A) => (Has(stack'[Main], A) <=> Has(stack[Main], A))
        BY <1>2 DEF Stays
  <2>2. \A p \in P : /\ p \notin Errands /\ p \notin {"sdTerm", "sdPower"} /\ p \notin ErAt /\ p \notin OsAt
                      /\ p \notin {"su", "suOpen"} /\ p \notin {"osSpawn", "osPass", "osIn"}
        BY DEF Errands, SuAt, OsAt, ErAt, CsAt
  <2>3. /\ Has(stack'[Main], Errands) <=> Has(stack[Main], Errands)
        /\ Has(stack'[Main], ErAt) <=> Has(stack[Main], ErAt)
        /\ Has(stack'[Main], OsAt) <=> Has(stack[Main], OsAt)
        /\ Has(stack'[Main], {"su", "suOpen"}) <=> Has(stack[Main], {"su", "suOpen"})
        /\ Has(stack'[Main], {"sdTerm", "sdPower"}) <=> Has(stack[Main], {"sdTerm", "sdPower"})
        /\ Has(stack'[Main], {"osSpawn", "osPass", "osIn"}) <=> Has(stack[Main], {"osSpawn", "osPass", "osIn"})
        BY <2>1, <2>2
  <2> QED  BY <2>1, <2>3 DEF Errand, main
<1> QED  BY <1>1, <1>2

\* The places of the frames that come and go, over those below.
Was(t, a)     == \A A : Has(stack[t], A) <=> (a \in A \/ Has(Below(t), A))
Goes(t, b)    == \A A : Has(stack'[t], A) <=> (b \in A \/ Has(Below(t), A))
Puts(t, c, b) == \A A : Has(stack'[t], A) <=> (c \in A \/ b \in A \/ Has(Below(t), A))

LEMMA WentPlaces ==
  ASSUME TypeInv, Stacks, NEW t \in Thread, NEW a, In(t, a), NEW b \in At, Went(t, b)
  PROVE  Was(t, a) /\ Goes(t, b) /\ (Lost(stack'[t]) <=> Lost(stack[t])) /\ Head(stack'[t]).at = b
<1>1. OneOn(stack'[t], Moving(t, b), Below(t)) /\ Moving(t, b).at = b
      BY WentIs
<1>2. Was(t, a)
      BY HereIs DEF Was
<1> QED  BY <1>1, <1>2 DEF OneOn, Goes, Went

LEMMA CalledPlaces ==
  ASSUME TypeInv, Stacks, NEW t \in Thread, NEW a, In(t, a), NEW f \in Frame, NEW b \in At,
         Called(t, f, b)
  PROVE  Was(t, a) /\ Puts(t, f.at, b) /\ (Lost(stack'[t]) <=> Lost(stack[t])) /\ Head(stack'[t]) = f
<1>1. TwoOn(stack'[t], f, Moving(t, b), Below(t)) /\ Moving(t, b).at = b
      BY CalledIs
<1>2. Was(t, a)
      BY HereIs DEF Was
<1> QED  BY <1>1, <1>2 DEF TwoOn, Puts, Called

LEMMA ReturnedPlaces ==
  ASSUME TypeInv, Stacks, NEW t \in Thread, NEW a, In(t, a), NEW r, Returned(t, r)
  PROVE  /\ Was(t, a) /\ (\A A : Has(stack'[t], A) <=> Has(Below(t), A))
         /\ Lost(stack'[t]) <=> Lost(stack[t])
<1>1. Was(t, a)
      BY HereIs DEF Was
<1> QED  BY <1>1 DEF Returned

\* Every step of main keeps Errand.
LEMMA ErrandStep ==
  ASSUME TypeInv, Stacks, Errand, NEW t \in Thread, Step(t), t = Main,
         In(Main, "os") /\ ~Lost(main) => Top(Main).kind = "user",
         Scripted => Nth \in 0 .. 9
  PROVE  Errand'
<1>1. CASE Sends(t)
  <2>1. Stays(t, {"send", "expect"})
        BY <1>1, SendsStays
  <2>2. isCurrentUserRoot' = isCurrentUserRoot /\ sshRetries' = sshRetries
        BY <1>1 DEF Sends, attempts
  <2> QED  BY <2>1, <2>2, ErrandKeeps DEF Errands, SuAt, OsAt, ErAt, CsAt
<1>2. CASE Answers(t)
  <2>1. Stays(t, {"expect"})
        BY <1>2, AnswersStays
  <2>2. isCurrentUserRoot' = isCurrentUserRoot /\ sshRetries' = sshRetries
        BY <1>2 DEF Answers, attempts
  <2> QED  BY <2>1, <2>2, ErrandKeeps DEF Errands, SuAt, OsAt, ErAt, CsAt
<1>3. CASE TimesOut(t)
  <2>1. Stays(t, {"expect", "timedOut", "kb"})
        BY <1>3, TimesOutStays
  <2>2. isCurrentUserRoot' = isCurrentUserRoot /\ sshRetries' = sshRetries
        BY <1>3 DEF TimesOut, attempts
  <2> QED  BY <2>1, <2>2, ErrandKeeps DEF Errands, SuAt, OsAt, ErAt, CsAt
<1>4. CASE Resolved(t)
  <2>1. Stays(t, {"timedOut"})
        BY <1>4, ResolvedStays
  <2>2. isCurrentUserRoot' = isCurrentUserRoot /\ sshRetries' = sshRetries
        BY <1>4 DEF Resolved, attempts
  <2> QED  BY <2>1, <2>2, ErrandKeeps DEF Errands, SuAt, OsAt, ErAt, CsAt
<1>5. CASE Eof(t)
  <2>1. Stays(t, {"expect"})
        BY <1>5, EofStays
  <2>2. isCurrentUserRoot' = isCurrentUserRoot /\ sshRetries' = sshRetries
        BY <1>5 DEF Eof, attempts
  <2> QED  BY <2>1, <2>2, ErrandKeeps DEF Errands, SuAt, OsAt, ErAt, CsAt
<1>6. CASE InterruptStarts(t)
  <2>1. Stays(t, {"kb", "kbTry"})
        BY <1>6, InterruptStartsStays
  <2>2. isCurrentUserRoot' = isCurrentUserRoot /\ sshRetries' = sshRetries
        BY <1>6 DEF InterruptStarts, attempts
  <2> QED  BY <2>1, <2>2, ErrandKeeps DEF Errands, SuAt, OsAt, ErAt, CsAt
<1>7. CASE InterruptTries(t)
  <2>1. Stays(t, {"kbTry", "send", "kbSpace"})
        BY <1>7, InterruptTriesStays
  <2>2. isCurrentUserRoot' = isCurrentUserRoot /\ sshRetries' = sshRetries
        BY <1>7 DEF InterruptTries, attempts
  <2> QED  BY <2>1, <2>2, ErrandKeeps DEF Errands, SuAt, OsAt, ErAt, CsAt
<1>8. CASE InterruptEnds(t)
  <2>1. Stays(t, {"kbSpace"})
        BY <1>8, InterruptEndsStays
  <2>2. isCurrentUserRoot' = isCurrentUserRoot /\ sshRetries' = sshRetries
        BY <1>8 DEF InterruptEnds, attempts
  <2> QED  BY <2>1, <2>2, ErrandKeeps DEF Errands, SuAt, OsAt, ErAt, CsAt
<1>9. CASE TerminateSteps(t)
  <2>1. Stays(t, {"term", "tear", "sd", "exit", "td"})
        BY <1>9, TerminateStepsStays
  <2>2. isCurrentUserRoot' = isCurrentUserRoot /\ sshRetries' = sshRetries
        BY <1>9 DEF TerminateSteps, still, attempts
  <2> QED  BY <2>1, <2>2, ErrandKeeps DEF Errands, SuAt, OsAt, ErAt, CsAt
<1>10. CASE ShutdownStarts(t)
  <2>1. Stays(t, {"sd", "sdUser"})
        BY <1>10, ShutdownStartsStays
  <2>2. isCurrentUserRoot' = isCurrentUserRoot /\ sshRetries' = sshRetries
        BY <1>10 DEF ShutdownStarts, still, attempts
  <2> QED  BY <2>1, <2>2, ErrandKeeps DEF Errands, SuAt, OsAt, ErAt, CsAt
<1>11. CASE ShutdownSwitchesUser(t)
  <2>0. isCurrentUserRoot' = isCurrentUserRoot /\ sshRetries' = sshRetries
        BY <1>11 DEF ShutdownSwitchesUser, still, attempts
  <2>1. ASSUME In(t, "sdUser"), Went(t, "sdTerm")
        PROVE  Errand'
    <3>u. ~Has(Below(t), Low5) /\ (\A A : A \subseteq Low5 => ~Has(Below(t), A))
          BY <2>1, UnderIs DEF Low, SuAt, OsAt, CsAt, ErAt, SdAt
    <3>1. Was(t, "sdUser") /\ Goes(t, "sdTerm") /\ (Lost(stack'[t]) <=> Lost(stack[t]))
          BY <2>1, WentPlaces DEF At
    <3> QED  BY <2>0, <2>1, <3>u, <3>1 DEF Was, Goes, Puts, Errand, main, Low, Low3, Low4, Low5,
                KbAt, TdAt, CsAt, ErAt, OsAt, SuAt, SfAt, SdAt, Errands
  <2>2. ASSUME In(t, "sdUser"), ~isCurrentUserRoot /\ Called(t, F("su"), "sdTerm")
        PROVE  Errand'
    <3>u. ~Has(Below(t), Low5) /\ (\A A : A \subseteq Low5 => ~Has(Below(t), A))
          BY <2>2, UnderIs DEF Low, SuAt, OsAt, CsAt, ErAt, SdAt
    <3>0. F("su") \in Frame /\ F("su").at = "su"
          BY <2>2, FrameIs DEF At
    <3>1. Was(t, "sdUser") /\ Puts(t, F("su").at, "sdTerm") /\ (Lost(stack'[t]) <=> Lost(stack[t]))
          BY <2>2, <3>0, CalledPlaces DEF At
    <3> QED  BY <2>0, <2>2, <3>u, <3>0, <3>1 DEF Was, Goes, Puts, Errand, main, Low, Low3, Low4,
                Low5, KbAt, TdAt, CsAt, ErAt, OsAt, SuAt, SfAt, SdAt, Errands
  <2> QED  BY <1>11, <2>1, <2>2, ShutdownSwitchesMoves, Constants
<1>12. CASE TerminateTargetStarts(t)
  <2>0. isCurrentUserRoot' = isCurrentUserRoot /\ sshRetries' = sshRetries
        BY <1>12 DEF TerminateTargetStarts, still, attempts
  <2>1. ASSUME In(t, "sdTerm"), Called(t, F("cs"), "sdPower")
        PROVE  Errand'
    <3>u. ~Has(Below(t), Low5) /\ (\A A : A \subseteq Low5 => ~Has(Below(t), A))
          BY <2>1, UnderIs DEF Low, SuAt, OsAt, CsAt, ErAt, SdAt
    <3>0. F("cs") \in Frame /\ F("cs").at = "cs"
          BY <2>1, FrameIs DEF At
    <3>1. Was(t, "sdTerm") /\ Puts(t, F("cs").at, "sdPower") /\ (Lost(stack'[t]) <=> Lost(stack[t]))
          BY <2>1, <3>0, CalledPlaces DEF At
    <3> QED  BY <2>0, <2>1, <3>u, <3>0, <3>1 DEF Was, Goes, Puts, Errand, main, Low, Low3, Low4,
                Low5, KbAt, TdAt, CsAt, ErAt, OsAt, SuAt, SfAt, SdAt, Errands
  <2>2. ASSUME In(t, "sdTerm"), Went(t, "sdPower")
        PROVE  Errand'
    <3>u. ~Has(Below(t), Low5) /\ (\A A : A \subseteq Low5 => ~Has(Below(t), A))
          BY <2>2, UnderIs DEF Low, SuAt, OsAt, CsAt, ErAt, SdAt
    <3>1. Was(t, "sdTerm") /\ Goes(t, "sdPower") /\ (Lost(stack'[t]) <=> Lost(stack[t]))
          BY <2>2, WentPlaces DEF At
    <3> QED  BY <2>0, <2>2, <3>u, <3>1 DEF Was, Goes, Puts, Errand, main, Low, Low3, Low4, Low5,
                KbAt, TdAt, CsAt, ErAt, OsAt, SuAt, SfAt, SdAt, Errands
  <2> QED  BY <1>12, <2>1, <2>2, TerminateTargetMoves, Constants
<1>13. CASE PowersOff(t)
  <2>0. isCurrentUserRoot' = isCurrentUserRoot /\ sshRetries' = sshRetries
        BY <1>13 DEF PowersOff, still, attempts
  <2>1. ASSUME In(t, "sdPower"), Called(t, Command("poweroff"), "sdDown")
        PROVE  Errand'
    <3>u. ~Has(Below(t), Low5) /\ (\A A : A \subseteq Low5 => ~Has(Below(t), A))
          BY <2>1, UnderIs DEF Low, SuAt, OsAt, CsAt, ErAt, SdAt
    <3>0. Command("poweroff") \in Frame /\ Command("poweroff").at = "send"
          BY <2>1, CommandIs DEF Kind
    <3>1. Was(t, "sdPower") /\ Puts(t, Command("poweroff").at, "sdDown") /\ (Lost(stack'[t]) <=> Lost(stack[t]))
          BY <2>1, <3>0, CalledPlaces DEF At
    <3> QED  BY <2>0, <2>1, <3>u, <3>0, <3>1 DEF Was, Goes, Puts, Errand, main, Low, Low3, Low4,
                Low5, KbAt, TdAt, CsAt, ErAt, OsAt, SuAt, SfAt, SdAt, Errands
  <2>2. ASSUME In(t, "sdDown"), Called(t, F("td"), "return")
        PROVE  Errand'
    <3>u. ~Has(Below(t), Low5) /\ (\A A : A \subseteq Low5 => ~Has(Below(t), A))
          BY <2>2, UnderIs DEF Low, SuAt, OsAt, CsAt, ErAt, SdAt
    <3>0. F("td") \in Frame /\ F("td").at = "td"
          BY <2>2, FrameIs DEF At
    <3>1. Was(t, "sdDown") /\ Puts(t, F("td").at, "return") /\ (Lost(stack'[t]) <=> Lost(stack[t]))
          BY <2>2, <3>0, CalledPlaces DEF At
    <3> QED  BY <2>0, <2>2, <3>u, <3>0, <3>1 DEF Was, Goes, Puts, Errand, main, Low, Low3, Low4,
                Low5, KbAt, TdAt, CsAt, ErAt, OsAt, SuAt, SfAt, SdAt, Errands
  <2> QED  BY <1>13, <2>1, <2>2, PowersOffMoves
<1>14. CASE Returns(t)
  <2>1. Stays(t, {"return"})
        BY <1>14, ReturnsStays
  <2>2. isCurrentUserRoot' = isCurrentUserRoot /\ sshRetries' = sshRetries
        BY <1>14 DEF Returns, still, attempts
  <2> QED  BY <2>1, <2>2, ErrandKeeps DEF Errands, SuAt, OsAt, ErAt, CsAt
<1>15. CASE TearDownStarts(t)
  <2>1. Stays(t, {"td", "tdKill", "send"})
        BY <1>15, TearDownStartsStays
  <2>2. isCurrentUserRoot' = isCurrentUserRoot /\ sshRetries' = sshRetries
        BY <1>15 DEF TearDownStarts, still, attempts
  <2> QED  BY <2>1, <2>2, ErrandKeeps DEF Errands, SuAt, OsAt, ErAt, CsAt
<1>16. CASE TearDownKills(t)
  <2>1. Stays(t, {"tdKill"})
        BY <1>16, TearDownKillsStays
  <2>2. isCurrentUserRoot' = isCurrentUserRoot /\ sshRetries' = sshRetries
        BY <1>16 DEF TearDownKills, attempts
  <2> QED  BY <2>1, <2>2, ErrandKeeps DEF Errands, SuAt, OsAt, ErAt, CsAt
<1>17. CASE SwitchUserStarts(t)
  <2>0. sshRetries' = sshRetries
        BY <1>17 DEF SwitchUserStarts, still, attempts
  <2>1. ASSUME In(t, "su"), Called(t, F("cs"), "suOpen") /\ isCurrentUserRoot' = isCurrentUserRoot
        PROVE  Errand'
    <3>u. ~Has(Below(t), Low4) /\ (\A A : A \subseteq Low4 => ~Has(Below(t), A))
          BY <2>1, UnderIs DEF Low, SuAt, OsAt, CsAt, ErAt, SdAt
    <3>0. F("cs") \in Frame /\ F("cs").at = "cs"
          BY <2>1, FrameIs DEF At
    <3>1. Was(t, "su") /\ Puts(t, F("cs").at, "suOpen") /\ (Lost(stack'[t]) <=> Lost(stack[t]))
          BY <2>1, <3>0, CalledPlaces DEF At
    <3> QED  BY <2>0, <2>1, <3>u, <3>0, <3>1 DEF Was, Goes, Puts, Errand, main, Low, Low3, Low4,
                Low5, KbAt, TdAt, CsAt, ErAt, OsAt, SuAt, SfAt, SdAt, Errands
  <2>2. ASSUME In(t, "su"), isCurrentUserRoot' = ~isCurrentUserRoot, NEW k \in {"root", "user"},
               NamesUser(t, k)
        PROVE  Errand'
    <3>u. ~Has(Below(t), Low4) /\ (\A A : A \subseteq Low4 => ~Has(Below(t), A))
          BY <2>2, UnderIs DEF Low, SuAt, OsAt, CsAt, ErAt, SdAt
    <3>1. Was(t, "su") /\ Puts(t, "send", "suName") /\ (Lost(stack'[t]) <=> Lost(stack[t]))
      <4>1. PICK f, g \in Frame : TwoOn(stack'[t], f, g, Below(t)) /\ f.at = "send" /\ g.at = "suName"
            BY <2>2, NamesStays
      <4> QED  BY <2>2, <4>1, HereIs DEF TwoOn, Was, Puts, NamesUser
    <3> QED  BY <2>0, <2>2, <3>u, <3>1 DEF Was, Goes, Puts, Errand, main, Low, Low3, Low4, Low5,
                KbAt, TdAt, CsAt, ErAt, OsAt, SuAt, SfAt, SdAt, Errands
  <2> QED  BY <1>17, <2>1, <2>2, SwitchUserStartsMoves
<1>18. CASE SwitchUserLogsIn(t)
  <2>0. isCurrentUserRoot' = isCurrentUserRoot /\ sshRetries' = sshRetries
        BY <1>18 DEF SwitchUserLogsIn, still, attempts
  <2>1. ASSUME In(t, "suName"), Called(t, Command(Top(t).kind), "suPass")
        PROVE  Errand'
    <3>u. ~Has(Below(t), Low4) /\ (\A A : A \subseteq Low4 => ~Has(Below(t), A))
          BY <2>1, UnderIs DEF Low, SuAt, OsAt, CsAt, ErAt, SdAt
    <3>0. Command(Top(t).kind) \in Frame /\ Command(Top(t).kind).at = "send"
          BY <2>1, Acts, CommandIs DEF Frame
    <3>1. Was(t, "suName") /\ Puts(t, Command(Top(t).kind).at, "suPass") /\ (Lost(stack'[t]) <=> Lost(stack[t]))
          BY <2>1, <3>0, CalledPlaces DEF At
    <3> QED  BY <2>0, <2>1, <3>u, <3>0, <3>1 DEF Was, Goes, Puts, Errand, main, Low, Low3, Low4,
                Low5, KbAt, TdAt, CsAt, ErAt, OsAt, SuAt, SfAt, SdAt, Errands
  <2>2. ASSUME In(t, "suPass"), Called(t, Command("password"), "return")
        PROVE  Errand'
    <3>u. ~Has(Below(t), Low4) /\ (\A A : A \subseteq Low4 => ~Has(Below(t), A))
          BY <2>2, UnderIs DEF Low, SuAt, OsAt, CsAt, ErAt, SdAt
    <3>0. Command("password") \in Frame /\ Command("password").at = "send"
          BY <2>2, CommandIs DEF Kind
    <3>1. Was(t, "suPass") /\ Puts(t, Command("password").at, "return") /\ (Lost(stack'[t]) <=> Lost(stack[t]))
          BY <2>2, <3>0, CalledPlaces DEF At
    <3> QED  BY <2>0, <2>2, <3>u, <3>0, <3>1 DEF Was, Goes, Puts, Errand, main, Low, Low3, Low4,
                Low5, KbAt, TdAt, CsAt, ErAt, OsAt, SuAt, SfAt, SdAt, Errands
  <2> QED  BY <1>18, <2>1, <2>2, SwitchUserLogsInMoves
<1>19. CASE SwitchUserOpens(t)
  <2>0. sshRetries' = sshRetries /\ isCurrentUserRoot' = ~isCurrentUserRoot
        BY <1>19 DEF SwitchUserOpens, still, attempts
  <2>1. ASSUME In(t, "suOpen"), NEW k \in {"root", "user"},
               Called(t, About("os", k), "suOpened")
        PROVE  Errand'
    <3>u. ~Has(Below(t), Low4) /\ (\A A : A \subseteq Low4 => ~Has(Below(t), A))
          BY <2>1, UnderIs DEF Low, SuAt, OsAt, CsAt, ErAt, SdAt
    <3>0. About("os", k) \in Frame /\ About("os", k).at = "os"
          BY OpensIs
    <3>1. Was(t, "suOpen") /\ Puts(t, About("os", k).at, "suOpened") /\ (Lost(stack'[t]) <=> Lost(stack[t]))
          BY <2>1, <3>0, CalledPlaces DEF At
    <3>2. isCurrentUserRoot' \/ ~Lost(stack[t])
      <4>1. Has(stack[t], {"su", "suOpen"})
            BY <3>1 DEF Was
      <4>2. ~isCurrentUserRoot \/ ~Lost(stack[t])
            BY <4>1 DEF Errand, main
      <4> QED  BY <2>0, <4>2
    <3> QED  BY <2>0, <2>1, <3>u, <3>0, <3>1, <3>2 DEF Was, Goes, Puts, Errand, main, Low, Low3,
                Low4, Low5, KbAt, TdAt, CsAt, ErAt, OsAt, SuAt, SfAt, SdAt, Errands
  <2> QED  BY <1>19, <2>1, SwitchUserOpensMoves
<1>20. CASE SwitchUserEnds(t)
  <2>0. isCurrentUserRoot' = isCurrentUserRoot /\ sshRetries' = sshRetries
        BY <1>20 DEF SwitchUserEnds, still, attempts
  <2>1. ASSUME In(t, "suOpened"), Returned(t, "ok")
        PROVE  Errand'
    <3>u. ~Has(Below(t), Low4) /\ (\A A : A \subseteq Low4 => ~Has(Below(t), A))
          BY <2>1, UnderIs DEF Low, SuAt, OsAt, CsAt, ErAt, SdAt
    <3>1. /\ Was(t, "suOpened") /\ (\A A : Has(stack'[t], A) <=> Has(Below(t), A))
          /\ Lost(stack'[t]) <=> Lost(stack[t])
          BY <2>1, ReturnedPlaces
    <3> QED  BY <2>0, <2>1, <3>u, <3>1 DEF Was, Goes, Puts, Errand, main, Low, Low3, Low4, Low5,
                KbAt, TdAt, CsAt, ErAt, OsAt, SuAt, SfAt, SdAt, Errands
  <2>2. CASE Ended(t)
    <3>1. Stays(t, {})
          BY <2>2, EndStays
    <3> QED  BY <2>0, <3>1, ErrandKeeps
  <2> QED  BY <1>20, <2>1, <2>2, SwitchUserEndsMoves
<1>21. CASE OpenStarts(t)
  <2>0. isCurrentUserRoot' = isCurrentUserRoot /\ sshRetries' = sshRetries
        BY <1>21 DEF OpenStarts, quiet
  <2>1. ASSUME In(t, "os"), Returned(t, "failed")
        PROVE  Errand'
    <3>u. ~Has(Below(t), Low3) /\ (\A A : A \subseteq Low3 => ~Has(Below(t), A))
          BY <2>1, UnderIs DEF Low, SuAt, OsAt, CsAt, ErAt, SdAt
    <3>1. /\ Was(t, "os") /\ (\A A : Has(stack'[t], A) <=> Has(Below(t), A))
          /\ Lost(stack'[t]) <=> Lost(stack[t])
          BY <2>1, ReturnedPlaces
    <3> QED  BY <2>0, <2>1, <3>u, <3>1 DEF Was, Goes, Puts, Errand, main, Low, Low3, Low4, Low5,
                KbAt, TdAt, CsAt, ErAt, OsAt, SuAt, SfAt, SdAt, Errands
  <2>2. ASSUME In(t, "os"), Top(t).kind = "root" /\ ~(sshRetries >= LimitSsh) /\ Called(t, F("er"), "osSpawn")
        PROVE  Errand'
    <3>u. ~Has(Below(t), Low3) /\ (\A A : A \subseteq Low3 => ~Has(Below(t), A))
          BY <2>2, UnderIs DEF Low, SuAt, OsAt, CsAt, ErAt, SdAt
    <3>0. F("er") \in Frame /\ F("er").at = "er"
          BY <2>2, FrameIs DEF At
    <3>1. Was(t, "os") /\ Puts(t, F("er").at, "osSpawn") /\ (Lost(stack'[t]) <=> Lost(stack[t]))
          BY <2>2, <3>0, CalledPlaces DEF At
    <3>2. sshRetries < LimitSsh
          BY <2>2, Constants DEF TypeInv
    <3> QED  BY <2>0, <2>2, <3>u, <3>0, <3>1, <3>2 DEF Was, Goes, Puts, Errand, main, Low, Low3,
                Low4, Low5, KbAt, TdAt, CsAt, ErAt, OsAt, SuAt, SfAt, SdAt, Errands
  <2>3. ASSUME In(t, "os"), ~(sshRetries >= LimitSsh) /\ Went(t, "osSpawn")
        PROVE  Errand'
    <3>u. ~Has(Below(t), Low3) /\ (\A A : A \subseteq Low3 => ~Has(Below(t), A))
          BY <2>3, UnderIs DEF Low, SuAt, OsAt, CsAt, ErAt, SdAt
    <3>1. Was(t, "os") /\ Goes(t, "osSpawn") /\ (Lost(stack'[t]) <=> Lost(stack[t]))
          BY <2>3, WentPlaces DEF At
    <3>2. sshRetries < LimitSsh
          BY <2>3, Constants DEF TypeInv
    <3> QED  BY <2>0, <2>3, <3>u, <3>1, <3>2 DEF Was, Goes, Puts, Errand, main, Low, Low3, Low4,
                Low5, KbAt, TdAt, CsAt, ErAt, OsAt, SuAt, SfAt, SdAt, Errands
  <2> QED  BY <1>21, <2>1, <2>2, <2>3, OpenStartsMoves
<1>22. CASE OpenSpawns(t)
  <2>0. isCurrentUserRoot' = isCurrentUserRoot
        BY <1>22 DEF OpenSpawns, quiet
  <2>1. ASSUME In(t, "osSpawn"), sshRetries' = sshRetries + 1 /\ Went(t, "os")
        PROVE  Errand'
    <3>u. ~Has(Below(t), Low3) /\ (\A A : A \subseteq Low3 => ~Has(Below(t), A))
          BY <2>1, UnderIs DEF Low, SuAt, OsAt, CsAt, ErAt, SdAt
    <3>1. Was(t, "osSpawn") /\ Goes(t, "os") /\ (Lost(stack'[t]) <=> Lost(stack[t]))
          BY <2>1, WentPlaces DEF At
    <3> QED  BY <2>0, <2>1, <3>u, <3>1 DEF Was, Goes, Puts, Errand, main, Low, Low3, Low4, Low5,
                KbAt, TdAt, CsAt, ErAt, OsAt, SuAt, SfAt, SdAt, Errands
  <2>2. ASSUME In(t, "osSpawn"), sshRetries' = sshRetries, NEW f \in Frame, Prompt_OK(f),
               Called(t, f, "osPass")
        PROVE  Errand'
    <3>u. ~Has(Below(t), Low3) /\ (\A A : A \subseteq Low3 => ~Has(Below(t), A))
          BY <2>2, UnderIs DEF Low, SuAt, OsAt, CsAt, ErAt, SdAt
    <3>0. f.at = "expect"
          BY <2>2 DEF Prompt_OK
    <3>1. Was(t, "osSpawn") /\ Puts(t, f.at, "osPass") /\ (Lost(stack'[t]) <=> Lost(stack[t]))
          BY <2>2, CalledPlaces DEF At
    <3> QED  BY <2>0, <2>2, <3>u, <3>0, <3>1 DEF Was, Goes, Puts, Errand, main, Low, Low3, Low4,
                Low5, KbAt, TdAt, CsAt, ErAt, OsAt, SuAt, SfAt, SdAt, Errands
  <2> QED  BY <1>22, <2>1, <2>2, OpenSpawnsMoves
<1>23. CASE OpenLogsIn(t)
  <2>0. isCurrentUserRoot' = isCurrentUserRoot
        BY <1>23 DEF OpenLogsIn, quiet
  <2>1. ASSUME In(t, "osPass"), sshRetries' = sshRetries /\ Called(t, TryOnce("sshPassword"), "osIn")
        PROVE  Errand'
    <3>u. ~Has(Below(t), Low3) /\ (\A A : A \subseteq Low3 => ~Has(Below(t), A))
          BY <2>1, UnderIs DEF Low, SuAt, OsAt, CsAt, ErAt, SdAt
    <3>0. TryOnce("sshPassword") \in Frame /\ TryOnce("sshPassword").at = "send"
          BY <2>1, CommandIs DEF Kind
    <3>1. Was(t, "osPass") /\ Puts(t, TryOnce("sshPassword").at, "osIn") /\ (Lost(stack'[t]) <=> Lost(stack[t]))
          BY <2>1, <3>0, CalledPlaces DEF At
    <3> QED  BY <2>0, <2>1, <3>u, <3>0, <3>1 DEF Was, Goes, Puts, Errand, main, Low, Low3, Low4,
                Low5, KbAt, TdAt, CsAt, ErAt, OsAt, SuAt, SfAt, SdAt, Errands
  <2>2. ASSUME In(t, "osPass"), Went(t, "os")
        PROVE  Errand'
    <3>u. ~Has(Below(t), Low3) /\ (\A A : A \subseteq Low3 => ~Has(Below(t), A))
          BY <2>2, UnderIs DEF Low, SuAt, OsAt, CsAt, ErAt, SdAt
    <3>1. Was(t, "osPass") /\ Goes(t, "os") /\ (Lost(stack'[t]) <=> Lost(stack[t]))
          BY <2>2, WentPlaces DEF At
    <3> QED  BY <2>0, <2>2, <3>u, <3>1 DEF Was, Goes, Puts, Errand, main, Low, Low3, Low4, Low5,
                KbAt, TdAt, CsAt, ErAt, OsAt, SuAt, SfAt, SdAt, Errands
  <2>3. ASSUME In(t, "osPass"), sshRetries' = sshRetries /\ Called(t, TryOnce("sshYes"), "osPass")
        PROVE  Errand'
    <3>u. ~Has(Below(t), Low3) /\ (\A A : A \subseteq Low3 => ~Has(Below(t), A))
          BY <2>3, UnderIs DEF Low, SuAt, OsAt, CsAt, ErAt, SdAt
    <3>0. TryOnce("sshYes") \in Frame /\ TryOnce("sshYes").at = "send"
          BY <2>3, CommandIs DEF Kind
    <3>1. Was(t, "osPass") /\ Puts(t, TryOnce("sshYes").at, "osPass") /\ (Lost(stack'[t]) <=> Lost(stack[t]))
          BY <2>3, <3>0, CalledPlaces DEF At
    <3> QED  BY <2>0, <2>3, <3>u, <3>0, <3>1 DEF Was, Goes, Puts, Errand, main, Low, Low3, Low4,
                Low5, KbAt, TdAt, CsAt, ErAt, OsAt, SuAt, SfAt, SdAt, Errands
  <2> QED  BY <1>23, <2>1, <2>2, <2>3, OpenLogsInMoves
<1>24. CASE OpenEnds(t)
  <2>0. isCurrentUserRoot' = isCurrentUserRoot
        BY <1>24 DEF OpenEnds, quiet
  <2>1. ASSUME In(t, "osIn"), sshRetries' = 0 /\ Returned(t, "ok")
        PROVE  Errand'
    <3>u. ~Has(Below(t), Low3) /\ (\A A : A \subseteq Low3 => ~Has(Below(t), A))
          BY <2>1, UnderIs DEF Low, SuAt, OsAt, CsAt, ErAt, SdAt
    <3>1. /\ Was(t, "osIn") /\ (\A A : Has(stack'[t], A) <=> Has(Below(t), A))
          /\ Lost(stack'[t]) <=> Lost(stack[t])
          BY <2>1, ReturnedPlaces
    <3>2. 0 < LimitSsh
          BY Constants
    <3> QED  BY <2>0, <2>1, <3>u, <3>1, <3>2 DEF Was, Goes, Puts, Errand, main, Low, Low3, Low4,
                Low5, KbAt, TdAt, CsAt, ErAt, OsAt, SuAt, SfAt, SdAt, Errands
  <2>2. ASSUME In(t, "osIn"), Went(t, "os")
        PROVE  Errand'
    <3>u. ~Has(Below(t), Low3) /\ (\A A : A \subseteq Low3 => ~Has(Below(t), A))
          BY <2>2, UnderIs DEF Low, SuAt, OsAt, CsAt, ErAt, SdAt
    <3>1. Was(t, "osIn") /\ Goes(t, "os") /\ (Lost(stack'[t]) <=> Lost(stack[t]))
          BY <2>2, WentPlaces DEF At
    <3> QED  BY <2>0, <2>2, <3>u, <3>1 DEF Was, Goes, Puts, Errand, main, Low, Low3, Low4, Low5,
                KbAt, TdAt, CsAt, ErAt, OsAt, SuAt, SfAt, SdAt, Errands
  <2> QED  BY <1>24, <2>1, <2>2, OpenEndsMoves
<1>25. CASE CloseStarts(t)
  <2>0. isCurrentUserRoot' = isCurrentUserRoot /\ sshRetries' = sshRetries
        BY <1>25 DEF CloseStarts, quiet
  <2>1. ASSUME In(t, "cs"), Went(t, "csKill")
        PROVE  Errand'
    <3>u. ~Has(Below(t), Low) /\ (\A A : A \subseteq Low => ~Has(Below(t), A))
          BY <2>1, UnderIs DEF Low, SuAt, OsAt, CsAt, ErAt, SdAt
    <3>1. Was(t, "cs") /\ Goes(t, "csKill") /\ (Lost(stack'[t]) <=> Lost(stack[t]))
          BY <2>1, WentPlaces DEF At
    <3> QED  BY <2>0, <2>1, <3>u, <3>1 DEF Was, Goes, Puts, Errand, main, Low, Low3, Low4, Low5,
                KbAt, TdAt, CsAt, ErAt, OsAt, SuAt, SfAt, SdAt, Errands
  <2>2. ASSUME In(t, "cs"), Called(t, TryOnce("sshExit"), "csKill")
        PROVE  Errand'
    <3>u. ~Has(Below(t), Low) /\ (\A A : A \subseteq Low => ~Has(Below(t), A))
          BY <2>2, UnderIs DEF Low, SuAt, OsAt, CsAt, ErAt, SdAt
    <3>0. TryOnce("sshExit") \in Frame /\ TryOnce("sshExit").at = "send"
          BY <2>2, CommandIs DEF Kind
    <3>1. Was(t, "cs") /\ Puts(t, TryOnce("sshExit").at, "csKill") /\ (Lost(stack'[t]) <=> Lost(stack[t]))
          BY <2>2, <3>0, CalledPlaces DEF At
    <3> QED  BY <2>0, <2>2, <3>u, <3>0, <3>1 DEF Was, Goes, Puts, Errand, main, Low, Low3, Low4,
                Low5, KbAt, TdAt, CsAt, ErAt, OsAt, SuAt, SfAt, SdAt, Errands
  <2> QED  BY <1>25, <2>1, <2>2, CloseStartsMoves
<1>26. CASE Closes(t)
  <2>0. isCurrentUserRoot' = isCurrentUserRoot /\ sshRetries' = sshRetries
        BY <1>26 DEF Closes, quiet
  <2>1. ASSUME In(t, "csKill"), Returned(t, "ok")
        PROVE  Errand'
    <3>u. ~Has(Below(t), Low) /\ (\A A : A \subseteq Low => ~Has(Below(t), A))
          BY <2>1, UnderIs DEF Low, SuAt, OsAt, CsAt, ErAt, SdAt
    <3>1. /\ Was(t, "csKill") /\ (\A A : Has(stack'[t], A) <=> Has(Below(t), A))
          /\ Lost(stack'[t]) <=> Lost(stack[t])
          BY <2>1, ReturnedPlaces
    <3> QED  BY <2>0, <2>1, <3>u, <3>1 DEF Was, Goes, Puts, Errand, main, Low, Low3, Low4, Low5,
                KbAt, TdAt, CsAt, ErAt, OsAt, SuAt, SfAt, SdAt, Errands
  <2> QED  BY <1>26, <2>1, ClosesMoves
<1>27. CASE EnableRootSteps(t)
  <2>0. isCurrentUserRoot' = isCurrentUserRoot /\ sshRetries' = sshRetries
        BY <1>27 DEF EnableRootSteps, quiet
  <2>1. ASSUME In(t, "er"), Returned(t, "ok")
        PROVE  Errand'
    <3>u. ~Has(Below(t), Low) /\ (\A A : A \subseteq Low => ~Has(Below(t), A))
          BY <2>1, UnderIs DEF Low, SuAt, OsAt, CsAt, ErAt, SdAt
    <3>1. /\ Was(t, "er") /\ (\A A : Has(stack'[t], A) <=> Has(Below(t), A))
          /\ Lost(stack'[t]) <=> Lost(stack[t])
          BY <2>1, ReturnedPlaces
    <3> QED  BY <2>0, <2>1, <3>u, <3>1 DEF Was, Goes, Puts, Errand, main, Low, Low3, Low4, Low5,
                KbAt, TdAt, CsAt, ErAt, OsAt, SuAt, SfAt, SdAt, Errands
  <2>2. ASSUME In(t, "er"), Went(t, "erEcho")
        PROVE  Errand'
    <3>u. ~Has(Below(t), Low) /\ (\A A : A \subseteq Low => ~Has(Below(t), A))
          BY <2>2, UnderIs DEF Low, SuAt, OsAt, CsAt, ErAt, SdAt
    <3>1. Was(t, "er") /\ Goes(t, "erEcho") /\ (Lost(stack'[t]) <=> Lost(stack[t]))
          BY <2>2, WentPlaces DEF At
    <3> QED  BY <2>0, <2>2, <3>u, <3>1 DEF Was, Goes, Puts, Errand, main, Low, Low3, Low4, Low5,
                KbAt, TdAt, CsAt, ErAt, OsAt, SuAt, SfAt, SdAt, Errands
  <2>3. ASSUME In(t, "erEcho"), Called(t, Command("plain"), "erService")
        PROVE  Errand'
    <3>u. ~Has(Below(t), Low) /\ (\A A : A \subseteq Low => ~Has(Below(t), A))
          BY <2>3, UnderIs DEF Low, SuAt, OsAt, CsAt, ErAt, SdAt
    <3>0. Command("plain") \in Frame /\ Command("plain").at = "send"
          BY <2>3, CommandIs DEF Kind
    <3>1. Was(t, "erEcho") /\ Puts(t, Command("plain").at, "erService") /\ (Lost(stack'[t]) <=> Lost(stack[t]))
          BY <2>3, <3>0, CalledPlaces DEF At
    <3> QED  BY <2>0, <2>3, <3>u, <3>0, <3>1 DEF Was, Goes, Puts, Errand, main, Low, Low3, Low4,
                Low5, KbAt, TdAt, CsAt, ErAt, OsAt, SuAt, SfAt, SdAt, Errands
  <2>4. ASSUME In(t, "erService"), Called(t, Command("plain"), "erDone")
        PROVE  Errand'
    <3>u. ~Has(Below(t), Low) /\ (\A A : A \subseteq Low => ~Has(Below(t), A))
          BY <2>4, UnderIs DEF Low, SuAt, OsAt, CsAt, ErAt, SdAt
    <3>0. Command("plain") \in Frame /\ Command("plain").at = "send"
          BY <2>4, CommandIs DEF Kind
    <3>1. Was(t, "erService") /\ Puts(t, Command("plain").at, "erDone") /\ (Lost(stack'[t]) <=> Lost(stack[t]))
          BY <2>4, <3>0, CalledPlaces DEF At
    <3> QED  BY <2>0, <2>4, <3>u, <3>0, <3>1 DEF Was, Goes, Puts, Errand, main, Low, Low3, Low4,
                Low5, KbAt, TdAt, CsAt, ErAt, OsAt, SuAt, SfAt, SdAt, Errands
  <2>5. ASSUME In(t, "erDone"), Returned(t, "ok")
        PROVE  Errand'
    <3>u. ~Has(Below(t), Low) /\ (\A A : A \subseteq Low => ~Has(Below(t), A))
          BY <2>5, UnderIs DEF Low, SuAt, OsAt, CsAt, ErAt, SdAt
    <3>1. /\ Was(t, "erDone") /\ (\A A : Has(stack'[t], A) <=> Has(Below(t), A))
          /\ Lost(stack'[t]) <=> Lost(stack[t])
          BY <2>5, ReturnedPlaces
    <3> QED  BY <2>0, <2>5, <3>u, <3>1 DEF Was, Goes, Puts, Errand, main, Low, Low3, Low4, Low5,
                KbAt, TdAt, CsAt, ErAt, OsAt, SuAt, SfAt, SdAt, Errands
  <2>r. In(t, "er") => isCurrentUserRoot
        BY HereIs DEF Errand, main, ErAt
  <2> QED  BY <1>27, <2>1, <2>2, <2>3, <2>4, <2>5, <2>r, EnableRootMoves
<1>28. CASE SendFileJoins(t)
  <2>1. Stays(t, {"sfJoin", "sfExists", "send", "sfRetry", "kb"})
        BY <1>28, SendFileJoinsStays
  <2>2. isCurrentUserRoot' = isCurrentUserRoot /\ sshRetries' = sshRetries
        BY <1>28 DEF SendFileJoins, rest
  <2> QED  BY <2>1, <2>2, ErrandKeeps DEF Errands, SuAt, OsAt, ErAt, CsAt
<1>29. CASE SendFileExists(t)
  <2>1. Stays(t, {"sfExists", "sfCheck", "sfRetry", "kb"})
        BY <1>29, SendFileExistsStays
  <2>2. isCurrentUserRoot' = isCurrentUserRoot /\ sshRetries' = sshRetries
        BY <1>29 DEF SendFileExists, rest
  <2> QED  BY <2>1, <2>2, ErrandKeeps DEF Errands, SuAt, OsAt, ErAt, CsAt
<1>30. CASE SendFileChecks(t)
  <2>1. Stays(t, {"sfCheck", "sfSum", "send", "sfGiveUp", "kb", "sfRetry"})
        BY <1>30, SendFileChecksStays
  <2>2. isCurrentUserRoot' = isCurrentUserRoot /\ sshRetries' = sshRetries
        BY <1>30 DEF SendFileChecks, rest
  <2> QED  BY <2>1, <2>2, ErrandKeeps DEF Errands, SuAt, OsAt, ErAt, CsAt
<1>31. CASE SendFileRetries(t)
  <2>1. Stays(t, {"sfRetry", "sf"})
        BY <1>31, SendFileRetriesStays
  <2>2. isCurrentUserRoot' = isCurrentUserRoot /\ sshRetries' = sshRetries
        BY <1>31 DEF SendFileRetries, rest
  <2> QED  BY <2>1, <2>2, ErrandKeeps DEF Errands, SuAt, OsAt, ErAt, CsAt
<1>32. CASE SendFileStarts(t)
  <2>1. In(t, "sf") /\ isCurrentUserRoot' = isCurrentUserRoot /\ sshRetries' = sshRetries /\ ~Lost(stack[t])
        BY <1>32, SendFileStartsMoves DEF SendFileStarts, rest
  <2>2. CASE Listening(t)
    <3>1. ~Has(stack'[t], Errands) /\ ~Has(stack'[t], ErAt) /\ ~Has(stack'[t], OsAt) /\ ~Has(stack'[t], {"osSpawn", "osPass", "osIn"})
      <4>1. /\ ~Has(Below(t), Errands) /\ ~Has(Below(t), ErAt) /\ ~Has(Below(t), OsAt) /\ ~Has(Below(t), {"osSpawn", "osPass", "osIn"})
            BY <2>1, UnderIs DEF Low, Low3, Low4, Low5, KbAt, TdAt, CsAt, ErAt, OsAt, SuAt, SfAt,
               SdAt, Errands
      <4>2. Goes(t, "sfJoin")
        <5>1. Top(t) \in Frame /\ Below(t) \in Seq(Frame) /\ "sfJoin" \in At
              BY <2>1, Acts DEF At
        <5> DEFINE m == Moving(t, "sfJoin")
        <5>2. m \in Frame /\ m.at = "sfJoin"
              BY <5>1, Moved DEF Moving
        <5>3. stack'[t] = Push(m, Below(t))
              BY <2>2 DEF Listening, Moving
        <5> HIDE DEF m
        <5>4. \A A : Has(Push(m, Below(t)), A) <=> (m.at \in A \/ Has(Below(t), A))
              BY <5>1, <5>2, HasPush
        <5> QED  BY <5>2, <5>3, <5>4 DEF Goes
      <4> QED  BY <4>1, <4>2 DEF Goes, Low, Low3, Low4, Low5, KbAt, TdAt, CsAt, ErAt, OsAt, SuAt,
                  SfAt, SdAt, Errands
    <3>2. ~Lost(stack'[t])
          BY <2>1, <2>2 DEF Listening
    <3> QED  BY <3>1, <3>2 DEF Errand, main
  <2>3. CASE Went(t, "sfRetry")
    <3>1. Stays(t, {"sf", "sfRetry"})
          BY <2>1, <2>3, GoStays DEF At
    <3> QED  BY <2>1, <3>1, ErrandKeeps DEF Errands, SuAt, OsAt, ErAt, CsAt
  <2>4. CASE Called(t, Interrupt(SelfProcess), "sfCheck")
    <3>1. Interrupt(SelfProcess) \in Frame /\ Interrupt(SelfProcess).at = "kb" /\ "sfCheck" \in At
          BY <2>1, Acts, KbIs DEF At
    <3>2. Stays(t, {"sf", "sfCheck", Interrupt(SelfProcess).at})
          BY <2>1, <2>4, <3>1, CallStays
    <3>3. Stays(t, {"sf", "sfCheck", "kb"})
          BY <3>1, <3>2
    <3> QED  BY <2>1, <3>3, ErrandKeeps DEF Errands, SuAt, OsAt, ErAt, CsAt
  <2> QED  BY <1>32, <2>2, <2>3, <2>4, SendFileStartsMoves
<1>33. CASE ScriptGoes
  <2>1. isCurrentUserRoot' = isCurrentUserRoot /\ sshRetries' = sshRetries
        BY <1>33 DEF ScriptGoes, rest
  <2>2. CASE Ended(Main)
    <3>1. Stays(Main, {})
          BY <2>2, EndStays, Constants
    <3> QED  BY <2>1, <3>1, ErrandKeeps
  <2>3. ASSUME ScriptCalls(Nth + 1), Nth \in 0 .. 8
        PROVE  Errand'
    <3>1. PICK f, g \in Frame : Starts(f, Nth + 1) /\ g.at = "script" /\ TwoOn(stack'[Main], f, g, <<>>)
          BY <2>3 DEF ScriptCalls
    <3>2. f.at \in {"sf", "send", "su", "os", "cs", "sd"}
          BY <2>3, <3>1 DEF Starts
    <3>3. \A A : Has(stack'[Main], A) <=> (f.at \in A \/ "script" \in A)
          BY <3>1, HasNone DEF TwoOn
    <3>4. ~Lost(stack'[Main])
          BY <3>1 DEF TwoOn, Lost, EndAt
    <3> QED  BY <3>2, <3>3, <3>4 DEF Errand, main, OsAt, ErAt
  <2> QED  BY <1>33, <2>2, <2>3, ScriptGoesMoves
<1> QED  BY <1>1, <1>2, <1>3, <1>4, <1>5, <1>6, <1>7, <1>8, <1>9, <1>10, <1>11, <1>12, <1>13,
            <1>14, <1>15, <1>16, <1>17, <1>18, <1>19, <1>20, <1>21, <1>22, <1>23, <1>24, <1>25,
            <1>26, <1>27, <1>28, <1>29, <1>30, <1>31, <1>32, <1>33 DEF Step

------------------------------------------------------------------------------
(***************************************************************************)
(* The bottom of main's stack keeps its place.                             *)
(***************************************************************************)

\* What becomes of the script's place when the main thread moves.
HoldsPlace ==
    \/ Lost(stack'[Main])
    \/ ~Lost(stack[Main]) /\ Scripted /\ Scripted' /\ Nth' = Nth

LEMMA StaysHolds ==
  ASSUME TypeInv, Stacks, NEW P, Stays(Main, P), NEW a, In(Main, a), a # "script"
  PROVE  HoldsPlace
<1>1. CASE Ended(Main)
      BY <1>1 DEF HoldsPlace, Ended
<1>2. CASE Lost(stack[Main]) /\ ~Ended(Main)
      BY <1>2 DEF HoldsPlace, Stays
<1>3. CASE ~Lost(stack[Main]) /\ ~Ended(Main)
  <2>1. Bot(stack[Main]).at = "script"
        BY <1>3, MainCalled
  <2>2. a \notin EndAt
        BY <1>3, MainCalled
  <2>3. Below(Main) # <<>>
        BY <2>2, MainCalled
  <2>4. Bot(stack'[Main]) = Bot(stack[Main])
        BY <1>3, <2>3 DEF Stays
  <2> QED  BY <1>3, <2>1, <2>4 DEF HoldsPlace, Scripted, Nth, main
<1> QED  BY <1>1, <1>2, <1>3

\* Only the script itself changes its place.
LEMMA MainHolds ==
  ASSUME TypeInv, Stacks, Step(Main), ~ScriptGoes, In(Main, "er") => isCurrentUserRoot
  PROVE  HoldsPlace
<1> DEFINE t == Main
<1>0. t \in Thread /\ t \notin Listener
      BY Constants
<1>i. ASSUME NEW a, In(t, a), ~In(t, "script")
      PROVE  a # "script"
      BY <1>i DEF In
<1>1. CASE Sends(t)
  <2>1. Stays(t, {"send", "expect"})
        BY <1>0, <1>1, SendsStays
  <2>2. In(t, "send")
        BY <1>1 DEF Sends
  <2> QED  BY <2>1, <2>2, StaysHolds
<1>2. CASE Answers(t)
  <2>1. Stays(t, {"expect"})
        BY <1>0, <1>2, AnswersStays
  <2>2. In(t, "expect")
        BY <1>2 DEF Answers
  <2> QED  BY <2>1, <2>2, StaysHolds
<1>3. CASE TimesOut(t)
  <2>1. Stays(t, {"expect", "timedOut", "kb"})
        BY <1>0, <1>3, TimesOutStays
  <2>2. In(t, "expect")
        BY <1>3 DEF TimesOut
  <2> QED  BY <2>1, <2>2, StaysHolds
<1>4. CASE Resolved(t)
  <2>1. Stays(t, {"timedOut"})
        BY <1>0, <1>4, ResolvedStays
  <2>2. In(t, "timedOut")
        BY <1>4 DEF Resolved
  <2> QED  BY <2>1, <2>2, StaysHolds
<1>5. CASE Eof(t)
  <2>1. Stays(t, {"expect"})
        BY <1>0, <1>5, EofStays
  <2>2. In(t, "expect")
        BY <1>5 DEF Eof
  <2> QED  BY <2>1, <2>2, StaysHolds
<1>6. CASE InterruptStarts(t)
  <2>1. Stays(t, {"kb", "kbTry"})
        BY <1>0, <1>6, InterruptStartsStays
  <2>2. In(t, "kb")
        BY <1>6 DEF InterruptStarts
  <2> QED  BY <2>1, <2>2, StaysHolds
<1>7. CASE InterruptTries(t)
  <2>1. Stays(t, {"kbTry", "send", "kbSpace"})
        BY <1>0, <1>7, InterruptTriesStays
  <2>2. In(t, "kbTry")
        BY <1>7 DEF InterruptTries
  <2> QED  BY <2>1, <2>2, StaysHolds
<1>8. CASE InterruptEnds(t)
  <2>1. Stays(t, {"kbSpace"})
        BY <1>0, <1>8, InterruptEndsStays
  <2>2. In(t, "kbSpace")
        BY <1>8 DEF InterruptEnds
  <2> QED  BY <2>1, <2>2, StaysHolds
<1>9. CASE TerminateSteps(t)
  <2>1. Stays(t, {"term", "tear", "sd", "exit", "td"})
        BY <1>0, <1>9, TerminateStepsStays
  <2>2. In(t, "exit") \/ In(t, "tear") \/ In(t, "term")
        BY <1>9 DEF TerminateSteps
  <2> QED  BY <2>1, <2>2, StaysHolds
<1>10. CASE ShutdownStarts(t)
  <2>1. Stays(t, {"sd", "sdUser"})
        BY <1>0, <1>10, ShutdownStartsStays
  <2>2. In(t, "sd")
        BY <1>10 DEF ShutdownStarts
  <2> QED  BY <2>1, <2>2, StaysHolds
<1>11. CASE ShutdownSwitchesUser(t)
  <2>1. Stays(t, {"sdUser", "sdTerm", "su"})
        BY <1>0, <1>11, ShutdownSwitchesUserStays
  <2>2. In(t, "sdUser")
        BY <1>11 DEF ShutdownSwitchesUser
  <2> QED  BY <2>1, <2>2, StaysHolds
<1>12. CASE TerminateTargetStarts(t)
  <2>1. Stays(t, {"sdTerm", "sdPower", "cs"})
        BY <1>0, <1>12, TerminateTargetStartsStays
  <2>2. In(t, "sdTerm")
        BY <1>12 DEF TerminateTargetStarts
  <2> QED  BY <2>1, <2>2, StaysHolds
<1>13. CASE PowersOff(t)
  <2>1. Stays(t, {"sdPower", "sdDown", "send", "return", "td"})
        BY <1>0, <1>13, PowersOffStays
  <2>2. In(t, "sdDown") \/ In(t, "sdPower")
        BY <1>13 DEF PowersOff
  <2> QED  BY <2>1, <2>2, StaysHolds
<1>14. CASE Returns(t)
  <2>1. Stays(t, {"return"})
        BY <1>0, <1>14, ReturnsStays
  <2>2. In(t, "return")
        BY <1>14 DEF Returns
  <2> QED  BY <2>1, <2>2, StaysHolds
<1>15. CASE TearDownStarts(t)
  <2>1. Stays(t, {"td", "tdKill", "send"})
        BY <1>0, <1>15, TearDownStartsStays
  <2>2. In(t, "td")
        BY <1>15 DEF TearDownStarts
  <2> QED  BY <2>1, <2>2, StaysHolds
<1>16. CASE TearDownKills(t)
  <2>1. Stays(t, {"tdKill"})
        BY <1>0, <1>16, TearDownKillsStays
  <2>2. In(t, "tdKill")
        BY <1>16 DEF TearDownKills
  <2> QED  BY <2>1, <2>2, StaysHolds
<1>17. CASE SwitchUserStarts(t)
  <2>1. Stays(t, {"su", "suOpen", "cs", "suName", "send"})
        BY <1>0, <1>17, SwitchUserStartsStays
  <2>2. In(t, "su")
        BY <1>17 DEF SwitchUserStarts
  <2> QED  BY <2>1, <2>2, StaysHolds
<1>18. CASE SwitchUserLogsIn(t)
  <2>1. Stays(t, {"suName", "suPass", "send", "return"})
        BY <1>0, <1>18, SwitchUserLogsInStays
  <2>2. In(t, "suName") \/ In(t, "suPass")
        BY <1>18 DEF SwitchUserLogsIn
  <2> QED  BY <2>1, <2>2, StaysHolds
<1>19. CASE SwitchUserOpens(t)
  <2>1. Stays(t, {"suOpen", "suOpened", "os"})
        BY <1>0, <1>19, SwitchUserOpensStays
  <2>2. In(t, "suOpen")
        BY <1>19 DEF SwitchUserOpens
  <2> QED  BY <2>1, <2>2, StaysHolds
<1>20. CASE SwitchUserEnds(t)
  <2>1. Stays(t, {"suOpened"})
        BY <1>0, <1>20, SwitchUserEndsStays
  <2>2. In(t, "suOpened")
        BY <1>20 DEF SwitchUserEnds
  <2> QED  BY <2>1, <2>2, StaysHolds
<1>21. CASE OpenStarts(t)
  <2>1. Stays(t, {"os", "osSpawn", "er"})
        BY <1>0, <1>21, OpenStartsStays
  <2>2. In(t, "os")
        BY <1>21 DEF OpenStarts
  <2> QED  BY <2>1, <2>2, StaysHolds
<1>22. CASE OpenSpawns(t)
  <2>1. Stays(t, {"osSpawn", "os", "osPass", "expect"})
        BY <1>0, <1>22, OpenSpawnsStays
  <2>2. In(t, "osSpawn")
        BY <1>22 DEF OpenSpawns
  <2> QED  BY <2>1, <2>2, StaysHolds
<1>23. CASE OpenLogsIn(t)
  <2>1. Stays(t, {"osPass", "osIn", "send", "os"})
        BY <1>0, <1>23, OpenLogsInStays
  <2>2. In(t, "osPass")
        BY <1>23 DEF OpenLogsIn
  <2> QED  BY <2>1, <2>2, StaysHolds
<1>24. CASE OpenEnds(t)
  <2>1. Stays(t, {"osIn", "os"})
        BY <1>0, <1>24, OpenEndsStays
  <2>2. In(t, "osIn")
        BY <1>24 DEF OpenEnds
  <2> QED  BY <2>1, <2>2, StaysHolds
<1>25. CASE CloseStarts(t)
  <2>1. Stays(t, {"cs", "csKill", "send"})
        BY <1>0, <1>25, CloseStartsStays
  <2>2. In(t, "cs")
        BY <1>25 DEF CloseStarts
  <2> QED  BY <2>1, <2>2, StaysHolds
<1>26. CASE Closes(t)
  <2>1. Stays(t, {"csKill"})
        BY <1>0, <1>26, ClosesStays
  <2>2. In(t, "csKill")
        BY <1>26 DEF Closes
  <2> QED  BY <2>1, <2>2, StaysHolds
<1>27. CASE EnableRootSteps(t)
  <2>1. Stays(t, {"er", "erEcho", "erService", "send", "erDone"})
        BY <1>0, <1>27, EnableRootStepsStays DEF EnableRootSteps
  <2>2. In(t, "er") \/ In(t, "erDone") \/ In(t, "erEcho") \/ In(t, "erService")
        BY <1>27 DEF EnableRootSteps
  <2> QED  BY <2>1, <2>2, StaysHolds
<1>28. CASE SendFileJoins(t)
  <2>1. Stays(t, {"sfJoin", "sfExists", "send", "sfRetry", "kb"})
        BY <1>0, <1>28, SendFileJoinsStays
  <2>2. In(t, "sfJoin")
        BY <1>28 DEF SendFileJoins
  <2> QED  BY <2>1, <2>2, StaysHolds
<1>29. CASE SendFileExists(t)
  <2>1. Stays(t, {"sfExists", "sfCheck", "sfRetry", "kb"})
        BY <1>0, <1>29, SendFileExistsStays
  <2>2. In(t, "sfExists")
        BY <1>29 DEF SendFileExists
  <2> QED  BY <2>1, <2>2, StaysHolds
<1>30. CASE SendFileChecks(t)
  <2>1. Stays(t, {"sfCheck", "sfSum", "send", "sfGiveUp", "kb", "sfRetry"})
        BY <1>0, <1>30, SendFileChecksStays
  <2>2. In(t, "sfCheck") \/ In(t, "sfGiveUp") \/ In(t, "sfSum")
        BY <1>30 DEF SendFileChecks
  <2> QED  BY <2>1, <2>2, StaysHolds
<1>31. CASE SendFileRetries(t)
  <2>1. Stays(t, {"sfRetry", "sf"})
        BY <1>0, <1>31, SendFileRetriesStays
  <2>2. In(t, "sfRetry")
        BY <1>31 DEF SendFileRetries
  <2> QED  BY <2>1, <2>2, StaysHolds
<1>32. CASE SendFileStarts(t)
  <2>1. In(t, "sf") /\ ~Lost(stack[t])
        BY <1>0, <1>32, SendFileStartsMoves
  <2>2. CASE Listening(t)
    <3>1. Bot(stack[Main]).at = "script" /\ Below(Main) # <<>>
          BY <2>1, MainCalled DEF EndAt
    <3>2. Top(t) \in Frame /\ Below(t) \in Seq(Frame) /\ "sfJoin" \in At
          BY <1>0, <2>1, Acts DEF At
    <3> DEFINE m == Moving(t, "sfJoin")
    <3>3. m \in Frame
          BY <3>2, Moved DEF Moving
    <3>4. stack'[t] = Push(m, Below(t))
          BY <2>2 DEF Listening, Moving
    <3> HIDE DEF m
    <3>5. Bot(Push(m, Below(t))) = Bot(Below(t))
          BY <3>1, <3>2, <3>3, BotPush
    <3>6. Bot(stack[Main]) = Bot(Below(t))
          BY <1>0, <2>1, <3>1, HereIs
    <3> QED  BY <2>1, <3>1, <3>4, <3>5, <3>6 DEF HoldsPlace, Scripted, Nth, main
  <2>3. CASE Went(t, "sfRetry")
    <3>1. Stays(t, {"sf", "sfRetry"})
          BY <1>0, <2>1, <2>3, GoStays DEF At
    <3> QED  BY <2>1, <3>1, StaysHolds
  <2>4. CASE Called(t, Interrupt(SelfProcess), "sfCheck")
    <3>1. Interrupt(SelfProcess) \in Frame /\ Interrupt(SelfProcess).at = "kb" /\ "sfCheck" \in At
          BY <1>0, <2>1, Acts, KbIs DEF At
    <3>2. Stays(t, {"sf", "sfCheck", Interrupt(SelfProcess).at})
          BY <1>0, <2>1, <2>4, <3>1, CallStays
    <3> QED  BY <2>1, <3>2, StaysHolds
  <2> QED  BY <1>0, <1>32, <2>2, <2>3, <2>4, SendFileStartsMoves
<1>33. CASE t = Main /\ ScriptGoes
      BY <1>33
<1> QED  BY <1>1, <1>2, <1>3, <1>4, <1>5, <1>6, <1>7, <1>8, <1>9, <1>10, <1>11, <1>12, <1>13,
            <1>14, <1>15, <1>16, <1>17, <1>18, <1>19, <1>20, <1>21, <1>22, <1>23, <1>24, <1>25,
            <1>26, <1>27, <1>28, <1>29, <1>30, <1>31, <1>32, <1>33 DEF Step

------------------------------------------------------------------------------
(***************************************************************************)
(* The course of the script: what has to be shown of a step.               *)
(***************************************************************************)

\* The flags of the object at every point of the script.
Flags ==
    /\ Nth \in {0, 1, 2, 9} => isCurrentUserRoot
    /\ Nth \in {4, 5, 6, 7} => ~isCurrentUserRoot
    /\ Nth = 3 => (isCurrentUserRoot <=> Has(main, {"su"}))
    /\ Nth = 8 => (isCurrentUserRoot <=> ~Has(main, {"su"}))
    /\ Nth \in {0, 1, 2, 3, 8, 9} => ~isSshConn
    /\ Nth = 4 => /\ Has(main, {"os", "osSpawn"}) => ~isSshConn
                  /\ Has(main, {"osPass", "osIn"}) => isSshConn
                  /\ (Idle /\ ret[Main] = "ok") => isSshConn
    /\ Nth \in {5, 6} => isSshConn
    /\ Nth = 7 => (isSshConn <=> Has(main, CsAt))

\* Course, with the flags under one name.
LEMMA CourseIs ==
  Course <=> (Scripted => Nth \in 0 .. 9 /\ Calls(main, Belongs(Nth)) /\ Flags)
  BY DEF Course, Flags

\* What a step that stays in the script has to keep.
LEMMA CourseThen ==
  ASSUME Nth' \in 0 .. 9, Calls(stack'[Main], Belongs(Nth')), Flags'
  PROVE  Course'
  BY DEF Course, Flags, main

\* A termination ends the course.
LEMMA CourseOver ==
  ASSUME Lost(stack'[Main])
  PROVE  Course'
  BY DEF Course, Lost, Scripted, main, EndAt

\* Inside the n-th call of the script.
Within(a) ==
    /\ In(Main, a) /\ a \notin EndAt \cup {"script"} /\ Top(Main).at = a
    /\ ~Lost(main) /\ Scripted /\ Nth \in 0 .. 9 /\ Flags
    /\ Top(Main) \in Frame /\ Below(Main) \in Seq(Frame) /\ Below(Main) # <<>>
    /\ Top(Main) \in Belongs(Nth) /\ Calls(Below(Main), Belongs(Nth))

LEMMA WithinIs ==
  ASSUME TypeInv, Stacks, Course, Scripted, NEW a, In(Main, a), a # "script"
  PROVE  Within(a)
<1>1. ~Lost(stack[Main]) /\ a \notin EndAt
      BY MainCalled DEF Scripted, main
<1>2. Below(Main) # <<>>
      BY <1>1, MainCalled
<1>3. Nth \in 0 .. 9 /\ Calls(main, Belongs(Nth)) /\ Flags
      BY CourseIs
<1>4. /\ Top(Main) \in Frame /\ Below(Main) \in Seq(Frame) /\ Top(Main).at = a
      /\ \A S : Calls(stack[Main], S) <=> (Below(Main) = <<>> \/ (Top(Main) \in S /\ Calls(Below(Main), S)))
      BY HereIs, Constants
<1> QED  BY <1>1, <1>2, <1>3, <1>4 DEF Within, main

LEMMA CourseGoes ==
  ASSUME TypeInv, Stacks, NEW a, Within(a), NEW b \in At, Went(Main, b), HoldsPlace,
         Moving(Main, b) \in Belongs(Nth), Flags'
  PROVE  Course'
<1>0. In(Main, a) /\ Main \in Thread /\ ~Lost(stack[Main])
      BY Constants DEF Within, main
<1>1. OneOn(stack'[Main], Moving(Main, b), Below(Main))
      BY <1>0, WentIs
<1>2. Calls(stack'[Main], Belongs(Nth))
      BY <1>1 DEF OneOn, Within
<1>3. Nth' = Nth
      BY <1>0 DEF HoldsPlace, Went
<1>4. Nth' \in 0 .. 9 /\ Calls(stack'[Main], Belongs(Nth'))
      BY <1>2, <1>3 DEF Within
<1> QED  BY <1>4, CourseThen

LEMMA CourseCalls ==
  ASSUME TypeInv, Stacks, NEW a, Within(a), NEW b \in At, NEW f \in Frame, Called(Main, f, b),
         HoldsPlace,
         f \in Belongs(Nth), Moving(Main, b) \in Belongs(Nth), Flags'
  PROVE  Course'
<1>0. In(Main, a) /\ Main \in Thread /\ ~Lost(stack[Main])
      BY Constants DEF Within, main
<1>1. TwoOn(stack'[Main], f, Moving(Main, b), Below(Main))
      BY <1>0, CalledIs
<1>2. Calls(stack'[Main], Belongs(Nth))
      BY <1>1 DEF TwoOn, Within
<1>3. Nth' = Nth
      BY <1>0 DEF HoldsPlace, Called
<1>4. Nth' \in 0 .. 9 /\ Calls(stack'[Main], Belongs(Nth'))
      BY <1>2, <1>3 DEF Within
<1> QED  BY <1>4, CourseThen

LEMMA CoursePuts ==
  ASSUME TypeInv, Stacks, NEW a, Within(a), NEW f \in Frame, NEW g \in Frame,
         TwoOn(stack'[Main], f, g, Below(Main)), HoldsPlace, ~Lost(stack'[Main]),
         f \in Belongs(Nth), g \in Belongs(Nth), Flags'
  PROVE  Course'
<1>2. Calls(stack'[Main], Belongs(Nth))
      BY DEF TwoOn, Within
<1>3. Nth' = Nth
      BY DEF HoldsPlace
<1>4. Nth' \in 0 .. 9 /\ Calls(stack'[Main], Belongs(Nth'))
      BY <1>2, <1>3 DEF Within
<1> QED  BY <1>4, CourseThen

LEMMA CourseReturns ==
  ASSUME TypeInv, Stacks, NEW a, Within(a), NEW r, Returned(Main, r), HoldsPlace, Flags'
  PROVE  Course'
<1>0. ~Lost(stack[Main])
      BY DEF Within, main
<1>2. Calls(stack'[Main], Belongs(Nth))
      BY DEF Returned, Within
<1>3. Nth' = Nth
      BY <1>0 DEF HoldsPlace, Returned
<1>4. Nth' \in 0 .. 9 /\ Calls(stack'[Main], Belongs(Nth'))
      BY <1>2, <1>3 DEF Within
<1> QED  BY <1>4, CourseThen

\* The places that the flags depend on.
Marks == {"su", "script"} \cup OsAt \cup CsAt

\* A call of the script, when it is the fourth, opens the connection.
LEMMA FourthOpens ==
  ASSUME TypeInv, Stacks, NEW a, Within(a), Nth = 4, Head(Below(Main)).at = "script"
  PROVE  a \in OsAt
<1>0. In(Main, a) /\ Main \in Thread
      BY Constants DEF Within
<1>1. Link(Top(Main), Head(Below(Main)))
      BY <1>0, TopIs_OK DEF Within
<1>2. Head(Below(Main)) \in Frame /\ Tail(Below(Main)) \in Seq(Frame)
      /\ Below(Main) = Push(Head(Below(Main)), Tail(Below(Main)))
      BY UnPush DEF Within
<1>3. Legal(Below(Main))
  <2>1. stack[Main] = Push(Top(Main), Below(Main)) /\ Legal(stack[Main])
        BY <1>0, Acts DEF Stacks, Good
  <2> QED  BY <2>1, LegalPush DEF Within
<1>4. Tail(Below(Main)) = <<>>
      BY <1>2, <1>3, NoSecond
<1>5. Bot(Below(Main)) = Head(Below(Main))
      BY <1>2, <1>4, BotPush
<1>6. Head(Below(Main)).n = 4
      BY <1>0, <1>5, HereIs DEF Within, Nth, main
<1>7. CalledAt(Top(Main), 4)
      BY <1>1, <1>6 DEF Link
<1>8. Role(Top(Main)) = "os"
      BY <1>7 DEF CalledAt
<1>9. a \in At /\ Top(Main).at = a
      BY DEF Within, Frame
<1> QED  BY <1>8, <1>9, RoleIs, Places DEF Low5, Low4, Low3, Low

LEMMA FlagsKeep ==
  ASSUME TypeInv, Stacks, NEW a, Within(a), NEW P, Stays(Main, P), \A p \in P : p \notin Marks, a \in P,
         ~Lost(stack'[Main]), HoldsPlace,
         Idle' => Head(Below(Main)).at = "script",
         isCurrentUserRoot' = isCurrentUserRoot, isSshConn' = isSshConn
  PROVE  Flags'
<1>1. Nth' = Nth /\ ~Ended(Main)
      BY DEF HoldsPlace, Ended
<1>2. \A p \in P : p \notin {"su"} /\ p \notin {"os", "osSpawn"} /\ p \notin {"osPass", "osIn"} /\ p \notin CsAt /\ p \notin OsAt
      BY DEF Marks, OsAt
<1>3. \A A : (\A p \in P : p \notin A) => (Has(stack'[Main], A) <=> Has(stack[Main], A))
      BY <1>1 DEF Stays
<1>4. /\ Has(stack'[Main], {"su"}) <=> Has(stack[Main], {"su"})
      /\ Has(stack'[Main], {"os", "osSpawn"}) <=> Has(stack[Main], {"os", "osSpawn"})
      /\ Has(stack'[Main], {"osPass", "osIn"}) <=> Has(stack[Main], {"osPass", "osIn"})
      /\ Has(stack'[Main], CsAt) <=> Has(stack[Main], CsAt)
      BY <1>2, <1>3
<1>5. Nth = 4 => ~Idle'
      BY <1>2, FourthOpens
<1>6. Flags
      BY DEF Within
<1> QED  BY <1>1, <1>4, <1>5, <1>6 DEF Flags, main

LEMMA NotIdle ==
  ASSUME NEW f, NEW g, NEW T, TwoOn(stack'[Main], f, g, T), f.at # "script"
  PROVE  ~Idle'
  BY DEF TwoOn, Idle, TopIs, main

LEMMA NotIdleYet ==
  ASSUME NEW g, NEW T, OneOn(stack'[Main], g, T), g.at # "script"
  PROVE  ~Idle'
  BY DEF OneOn, Idle, TopIs, main

==============================================================================
