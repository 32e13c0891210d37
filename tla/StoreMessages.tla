--------------------------- MODULE StoreMessages ---------------------------
(***************************************************************************)
(* What the stores of besspin/cwesEvaluation/informationLeakage/sources    *)
(* keep and are asked: the data of an object, the messages, and which      *)
(* objects each function of functions/*.c reads before it answers.  The    *)
(* build is the one with NO_WEAKNESS and offsets are 0.                    *)
(*                                                                         *)
(* An object holds a first and a second piece; "cut" says that a NUL       *)
(* stands between them.  A piece is a text, or the number of an object:    *)
(* the bytes of SADDR(n,0), whose first byte is a NUL, and for n = 0 the   *)
(* bytes of a cleared object.                                              *)
(***************************************************************************)
EXTENDS Integers, Sequences, FiniteSets

CONSTANTS NDomains,     \* NDOMAINS of parameters.h
          StoreSize,    \* STORE_SIZE: objects of a domain
          Texts,        \* the texts the users write
          Asks          \* what sysconfig() makes of an object with this text

ASSUME SizesAssumption == NDomains \in Nat \ {0} /\ StoreSize \in Nat \ {0, 1}
ASSUME TextsAssumption == \A t \in Texts : t \in Nat /\ t > StoreSize
ASSUME AsksAssumption ==
    \A t \in Texts : Asks[t] \in {"SYSTEM_CONFIG", "USER_CONFIG", "undefined"}

Objects == 0 .. StoreSize - 1
Beyond  == StoreSize              \* any address that names no object
Users   == 0 .. NDomains - 1
System  == -1
Public  == -2

Secret     == -1                  \* SECRET_PATTERN
Background == -2                  \* NOT_SECRET
Pieces     == Objects \cup Texts \cup {Secret, Background}

Data == [first : Pieces, second : Pieces, cut : BOOLEAN]

Plain(piece) == [first |-> piece, second |-> 0, cut |-> FALSE]
Cleared      == Plain(0)

\* The C string an object starts with.
Text(data) ==
    IF data.first \in Objects THEN << >>
    ELSE IF data.cut \/ data.second \in Objects THEN <<data.first>>
    ELSE <<data.first, data.second>>

\* The object that holds just this string, cleared behind it.
Holding(text) ==
    [first  |-> IF Len(text) > 0 THEN text[1] ELSE 0,
     second |-> IF Len(text) > 1 THEN text[2] ELSE 0,
     cut    |-> FALSE]

IsSecret(piece) == piece = Secret

\* scrub(): the string without the secret.
Spared(text, i) == IF i \in DOMAIN text /\ ~ IsSecret(text[i]) THEN <<text[i]>> ELSE << >>
Scrubbed(data)  == Holding(Spared(Text(data), 1) \o Spared(Text(data), 2))

\* The buffer of classify(): the string of the argument and then that of the
\* secret, as far as there is room.
Joined(data, key) ==
    LET both == Text(data) \o Text(key)
    IN  Holding(SubSeq(both, 1, IF Len(both) < 2 THEN Len(both) ELSE 2))

\* strstr(in, term) # NULL
Occurs(term, in) ==
    \E i \in 0 .. Len(in) - Len(term) :
        \A j \in 1 .. Len(term) : in[i + j] = term[j]

\* A changed form of the next definition: any text is taken for an address.
PointeeUnchecked(data) == data.first

\* The bytes of an object read as an address.
Pointee(data) == IF data.first \in Objects THEN data.first ELSE Beyond

(***************************************************************************)
(* Messages: a GET, a SET of a whole object, of a text with its NUL or of  *)
(* nothing, or a GO with the name of a function.                           *)
(***************************************************************************)
Addresses == Objects \cup {Beyond}

Functions == {"mark_private", "direct", "declassify", "classify", "login", "set_env",
              "search", "errorf", "sysconfig", "count", "broadcast"}

Message == [op : {"GET", "SET"} \cup Functions, domain : Users \cup {System},
            addr : Addresses, to : Addresses,
            piece : Pieces, size : {"whole", "text", "nothing"}]

\* get_msg(), set_msg() and go_msg().
Msg(op, d, o, to, piece, size) ==
    [op |-> op, domain |-> d, addr |-> o, to |-> to, piece |-> piece, size |-> size]
get_msg(d, o)              == Msg("GET", d, o, 0, 0, "nothing")
set_msg(d, o, piece, size) == Msg("SET", d, o, 0, piece, size)
go_msg(f, d, o, to, piece) == Msg(f, d, o, to, piece, "nothing")

\* interpret_cmd() of the binary interpreter looks at the address of a GET
\* and of a SET; what a GO carries is left to its function.
Rejected(m) == m.op \in {"GET", "SET"} /\ m.addr = Beyond

Own(m, o) == <<m.domain, o>>
Key(o)    == <<System, o>>

\* What the sender is told.
Silent      == [label |-> "none", data |-> Cleared]
Says(label) == [label |-> label, data |-> Cleared]
Gives(data) == [label |-> "data", data |-> data]

Reply == [label : {"none", "data", "OK", "ERR:PASS_OR_USERNAME", "HIT", "SYSTEM_CONFIG",
                   "USER_CONFIG", "ERR_WITH_KEY: "}, data : Data]

\* A store_set(): whose object, what is put there, and how much of it.
Put(at, data, size) == [at |-> at, data |-> data, size |-> size]

(***************************************************************************)
(* Each function: the objects it gets, what it then tells or sets.         *)
(***************************************************************************)
login_gets(m) == <<Own(m, 0), Own(m, 1), Key(0), Key(1)>>
login(got) ==
    IF Text(got[1]) = Text(got[3]) /\ Text(got[2]) = Text(got[4])
    THEN Says("OK") ELSE Says("ERR:PASS_OR_USERNAME")

\* The term is in the first object, the others are looked through.
count_gets(m) == [i \in 1 .. StoreSize |-> Own(m, i - 1)]
count(got) ==
    IF \E i \in 2 .. StoreSize : Occurs(Text(got[1]), Text(got[i]))
    THEN Says("HIT") ELSE Silent

\* search() collects what it finds and returns it with the size 0.
search_gets(m) == [i \in 1 .. StoreSize |-> Own(m, i - 1)]

\* direct() and set_env() end with the object whose address they have got;
\* set_env() then leaves the environment alone.
direct_gets(m)      == <<Own(m, m.addr)>>
direct_last(m, got) == Own(m, Pointee(got[1]))
direct(got)         == Gives(Holding(Text(got[2])))

set_env_gets(m)   == <<Own(m, 0), Own(m, 1)>>
set_env_last(got) == Key(Pointee(got[2]))

declassify_gets(m) == <<Own(m, m.addr)>>
declassify(got)    == Gives(Scrubbed(got[1]))

broadcast_gets(m)     == <<Own(m, m.addr)>>
broadcast_set(m, got) == Put(<<Public, m.addr>>, Scrubbed(got[1]), "whole")

classify_gets(m)     == <<Own(m, m.addr), Key(0)>>
classify_set(m, got) == Put(Own(m, m.to), Joined(got[1], got[2]), "whole")

mark_private_set(m) == Put(Own(m, m.addr), Plain(m.piece), "text")

\* The error carries no key.
errorf_gets == <<Key(0)>>
errorf      == Says("ERR_WITH_KEY: ")

\* sysconfig() makes an id of the text and ":U" and fetch_resource() looks
\* behind its first ':', which a text may bring along.  A text too long for
\* id[10] overruns it (SECRET_PATTERN, NOT_SECRET and joined texts are taken
\* to), and for the system's domain nothing is written there: what comes of
\* that is "undefined", one of the two answers or the end of the program.
sysconfig_gets(m) == <<Own(m, 0)>>
Asked(m, got) ==
    LET text == Text(got[1])
    IN  IF m.domain = System THEN "undefined"
        ELSE IF text = << >> THEN "USER_CONFIG"
        ELSE IF Len(text) = 1 /\ text[1] \in Texts THEN Asks[text[1]]
        ELSE "undefined"
sysconfig(m, got) ==
    {Says(label) : label \in IF Asked(m, got) = "undefined"
                             THEN {"SYSTEM_CONFIG", "USER_CONFIG"} ELSE {Asked(m, got)}}

\* The program may end where it should answer.
Undefined(m, got) == m.op = "sysconfig" /\ Asked(m, got) = "undefined"

(***************************************************************************)
(* run_command(): by the type of the message and the name in a GO.         *)
(***************************************************************************)
FirstGets(m) ==
    CASE m.op = "GET"        -> <<Own(m, m.addr)>>
      [] m.op = "login"      -> login_gets(m)
      [] m.op = "count"      -> count_gets(m)
      [] m.op = "search"     -> search_gets(m)
      [] m.op = "direct"     -> direct_gets(m)
      [] m.op = "set_env"    -> set_env_gets(m)
      [] m.op = "declassify" -> declassify_gets(m)
      [] m.op = "broadcast"  -> broadcast_gets(m)
      [] m.op = "classify"   -> classify_gets(m)
      [] m.op = "errorf"     -> errorf_gets
      [] m.op = "sysconfig"  -> sysconfig_gets(m)
      [] m.op \in {"SET", "mark_private"} -> << >>

LastGets(m, got) ==
    CASE m.op = "direct"  -> <<direct_last(m, got)>>
      [] m.op = "set_env" -> <<set_env_last(got)>>
      [] OTHER            -> << >>

Answer(m, got) ==
    CASE m.op = "GET"        -> Gives(got[1])
      [] m.op = "login"      -> login(got)
      [] m.op = "count"      -> count(got)
      [] m.op = "direct"     -> direct(got)
      [] m.op = "declassify" -> declassify(got)
      [] m.op = "errorf"     -> errorf
      [] OTHER               -> Silent

Answers(m, got) == IF m.op = "sysconfig" THEN sysconfig(m, got) ELSE {Answer(m, got)}

Sets(m) == m.op \in {"SET", "mark_private", "classify", "broadcast"}

SetOf(m, got) ==
    CASE m.op = "SET"          -> Put(Own(m, m.addr), Plain(m.piece), m.size)
      [] m.op = "mark_private" -> mark_private_set(m)
      [] m.op = "classify"     -> classify_set(m, got)
      [] m.op = "broadcast"    -> broadcast_set(m, got)

\* memcpy() of the first bytes of an object: the rest of it stays.
Over(old, new, size) ==
    CASE size = "whole"   -> new
      [] size = "text"    -> [first |-> new.first, second |-> old.second, cut |-> TRUE]
      [] size = "nothing" -> old
=============================================================================
