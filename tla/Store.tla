------------------------------- MODULE Store -------------------------------
(***************************************************************************)
(* What the comment of include/stores.h promises of every store: each      *)
(* domain has its objects, a get returns what was last set there, and      *)
(* nothing else changes them.  Each message is answered in one step, from  *)
(* the memory alone.                                                       *)
(***************************************************************************)
EXTENDS StoreMessages

CONSTANTS Messages,     \* those that are sent
          PublicHome    \* the domain whose objects stand for those of Public

VARIABLES memory,       \* whose object: what it holds
          msg,          \* the message being served, or NoMessage
          reply,        \* what the last message was told
          doomed,       \* an object that does not exist has been set
          halted        \* a NULL pointer was used: the program is over
storeVars == <<memory, msg, reply, doomed, halted>>

NoMessage == [op |-> "idle"]

Home(d) == IF d = Public THEN PublicHome ELSE d

Domains == Users \cup {System, PublicHome}

StoreInit ==
    /\ memory = [at \in Domains \X Objects |->
                    IF at[1] \in {System} \cup (Users \ {0}) THEN Plain(Secret)
                    ELSE IF at[1] = 0 THEN Plain(Background) ELSE Cleared]
    /\ msg = NoMessage /\ reply = Silent
    /\ doomed = FALSE /\ halted = FALSE

Ask(m) ==
    /\ ~ halted /\ msg = NoMessage
    /\ IF Rejected(m) THEN halted' = TRUE /\ UNCHANGED msg
                      ELSE msg' = m /\ UNCHANGED halted
    /\ reply' = Silent
    /\ UNCHANGED <<memory, doomed>>

\* What the gets at these places find.
Read(places) == [i \in DOMAIN places |-> memory[<<Home(places[i][1]), places[i][2]>>]]

Exist(places) == \A i \in DOMAIN places : places[i][2] \in Objects

\* A set of less than the object leaves the rest as it was or cleared.
Set(put) ==
    LET at == <<Home(put.at[1]), put.at[2]>>
    IN  IF put.at[2] = Beyond
        THEN doomed' = TRUE /\ UNCHANGED memory
        ELSE /\ \E old \in {memory[at], Cleared} :
                    memory' = [memory EXCEPT ![at] = Over(old, put.data, put.size)]
             /\ UNCHANGED doomed

Serve ==
    /\ ~ halted /\ msg # NoMessage /\ ~ doomed
    /\ Exist(FirstGets(msg))
    /\ LET first == Read(FirstGets(msg))
           got   == first \o Read(LastGets(msg, first))
       IN  /\ Exist(LastGets(msg, first))
           /\ reply' \in Answers(msg, got)
           /\ IF Sets(msg) THEN Set(SetOf(msg, got)) ELSE UNCHANGED <<memory, doomed>>
    /\ msg' = NoMessage
    /\ UNCHANGED halted

\* An object that does not exist was set before, or is read now, or the
\* function does what has no defined outcome.
Stop ==
    /\ ~ halted /\ msg # NoMessage
    /\ \/ doomed
       \/ ~ Exist(FirstGets(msg))
       \/ /\ Exist(FirstGets(msg))
          /\ ~ Exist(LastGets(msg, Read(FirstGets(msg))))
       \/ /\ Exist(FirstGets(msg))
          /\ LET first == Read(FirstGets(msg))
             IN  Undefined(msg, first \o Read(LastGets(msg, first)))
    /\ halted' = TRUE
    /\ UNCHANGED <<memory, msg, reply, doomed>>

StoreNext == (\E m \in Messages : Ask(m)) \/ Serve \/ Stop

StoreSpec == StoreInit /\ [][StoreNext]_storeVars
=============================================================================
