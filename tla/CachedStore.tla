---------------------------- MODULE CachedStore ----------------------------
(***************************************************************************)
(* stores/cached.c under the functions of functions/*.c: the objects of    *)
(* the users and of the system, and one cached object in front of both,    *)
(* written back when another object is asked for.  A message is served one *)
(* store_get() at a time, each of which may evict the object, and ends     *)
(* with its answer or its store_set().                                     *)
(***************************************************************************)
EXTENDS StoreMessages

CONSTANT Messages       \* those that are sent
ASSUME MessagesAssumption == Messages \subseteq Message

VARIABLES system_store, \* the objects of domain -1
          store,        \* the objects of the users, object by object
          cached,       \* the copy of one object
          cache_ptr,    \* the place it is written back to
          cache_dirty,
          msg,          \* the message being served
          todo,         \* the store_get() calls still to make, <<domain, object>>
          got,          \* what the calls made have returned
          reply,
          halted        \* a NULL pointer was used: the program is over
cacheVars == <<system_store, store, cached, cache_ptr, cache_dirty>>
vars      == <<system_store, store, cached, cache_ptr, cache_dirty,
               msg, todo, got, reply, halted>>

NoMessage == [op |-> "idle"]

Slots == 0 .. NDomains * StoreSize - 1
Entry == [domain : Users \cup {System, Public}, addr : Addresses, data : Data]

NULL   == <<"NULL", 0>>
Places == {"system"} \X Objects \cup {"store"} \X Slots

\* store_init(0): the principal domain is 0.
Init ==
    /\ system_store = [o \in Objects |->
                          [domain |-> System, addr |-> o, data |-> Plain(Secret)]]
    /\ store = [p \in Slots |->
                   [domain |-> p % NDomains, addr |-> p \div NDomains,
                    data |-> Plain(IF p % NDomains = 0 THEN Background ELSE Secret)]]
    /\ cached = [domain |-> System, addr |-> 0, data |-> Cleared]
    /\ cache_ptr = NULL /\ cache_dirty = FALSE
    /\ msg = NoMessage /\ todo = << >> /\ got = << >>
    /\ reply = Silent /\ halted = FALSE

\* A changed form of the next definition: the domain is not compared.
HitAnyDomain(d, o) == cache_ptr # NULL /\ cached.addr = o

Hit(d, o) == cache_ptr # NULL /\ cached.domain = d /\ cached.addr = o

\* write_back_cache(): the stores as it leaves them.
SystemBack == IF cache_dirty /\ cache_ptr[1] = "system"
              THEN [system_store EXCEPT ![cache_ptr[2]] = cached] ELSE system_store
StoreBack  == IF cache_dirty /\ cache_ptr[1] = "store"
              THEN [store EXCEPT ![cache_ptr[2]] = cached] ELSE store

\* The write-back of a cached object that has no place.
Lost == cache_dirty /\ cache_ptr = NULL

\* find(): every negative domain is looked up in the system store.
Find(sys, users, d, o) ==
    LET hits == IF d < 0 THEN {p \in Objects : sys[p].addr = o}
                ELSE {p \in Slots : users[p].domain = d /\ users[p].addr = o}
        first == CHOOSE p \in hits : \A q \in hits : p <= q
    IN  IF hits = {} THEN NULL ELSE <<IF d < 0 THEN "system" ELSE "store", first>>

At(sys, users, place) == IF place[1] = "system" THEN sys[place[2]] ELSE users[place[2]]

\* send_and_run(): interpret_cmd() returns NULL for an address it rejects,
\* which run_command() follows.
Receive(m) ==
    /\ ~ halted /\ msg = NoMessage
    /\ IF Rejected(m) THEN halted' = TRUE /\ UNCHANGED <<msg, todo>>
       ELSE msg' = m /\ todo' = FirstGets(m) /\ UNCHANGED halted
    /\ reply' = Silent
    /\ UNCHANGED <<cacheVars, got>>

GetHit ==
    /\ ~ halted /\ todo # << >>
    /\ Hit(Head(todo)[1], Head(todo)[2])
    /\ got' = Append(got, cached.data) /\ todo' = Tail(todo)
    /\ UNCHANGED <<cacheVars, msg, reply, halted>>

GetMiss ==
    /\ ~ halted /\ todo # << >>
    /\ ~ Hit(Head(todo)[1], Head(todo)[2])
    /\ IF Lost \/ Find(SystemBack, StoreBack, Head(todo)[1], Head(todo)[2]) = NULL
       THEN halted' = TRUE /\ UNCHANGED <<cacheVars, todo, got>>
       ELSE LET target == Find(SystemBack, StoreBack, Head(todo)[1], Head(todo)[2])
            IN  /\ system_store' = SystemBack /\ store' = StoreBack
                /\ cache_dirty' = FALSE
                /\ cache_ptr' = target
                /\ cached' = At(SystemBack, StoreBack, target)
                /\ got' = Append(got, At(SystemBack, StoreBack, target).data)
                /\ todo' = Tail(todo)
                /\ UNCHANGED halted
    /\ UNCHANGED <<msg, reply>>

\* direct() and set_env(): the address of one more get was in an object.
Follow ==
    /\ ~ halted /\ msg # NoMessage /\ todo = << >>
    /\ Len(got) = Len(FirstGets(msg)) /\ LastGets(msg, got) # << >>
    /\ todo' = LastGets(msg, got)
    /\ UNCHANGED <<cacheVars, msg, got, reply, halted>>

\* A changed form of the next definition: the object stays clean.
SetHitClean(put) ==
    /\ Hit(put.at[1], put.at[2])
    /\ cached' = [cached EXCEPT !.data = Over(cached.data, put.data, put.size)]
    /\ UNCHANGED <<system_store, store, cache_ptr, cache_dirty, halted>>

\* store_set(): on a miss the cached object is cleared and takes the name of
\* the new one; what the new one held is not read.
SetHit(put) ==
    /\ Hit(put.at[1], put.at[2])
    /\ cached' = [cached EXCEPT !.data = Over(cached.data, put.data, put.size)]
    /\ cache_dirty' = TRUE
    /\ UNCHANGED <<system_store, store, cache_ptr, halted>>

\* A changed form of the next definition but one: the cached object is not
\* cleared (the build without NO_WEAKNESS).
SetMissUncleared(put) ==
    /\ ~ Hit(put.at[1], put.at[2])
    /\ IF Lost THEN halted' = TRUE /\ UNCHANGED cacheVars
       ELSE /\ system_store' = SystemBack /\ store' = StoreBack
            /\ cache_ptr' = Find(SystemBack, StoreBack, put.at[1], put.at[2])
            /\ cached' = [domain |-> put.at[1], addr |-> put.at[2],
                          data |-> Over(cached.data, put.data, put.size)]
            /\ cache_dirty' = TRUE
            /\ UNCHANGED halted

\* A changed form of the next definition: the cached object keeps its address.
SetMissOldName(put) ==
    /\ ~ Hit(put.at[1], put.at[2])
    /\ IF Lost THEN halted' = TRUE /\ UNCHANGED cacheVars
       ELSE /\ system_store' = SystemBack /\ store' = StoreBack
            /\ cache_ptr' = Find(SystemBack, StoreBack, put.at[1], put.at[2])
            /\ cached' = [cached EXCEPT !.domain = put.at[1],
                                        !.data = Over(Cleared, put.data, put.size)]
            /\ cache_dirty' = TRUE
            /\ UNCHANGED halted

SetMiss(put) ==
    /\ ~ Hit(put.at[1], put.at[2])
    /\ IF Lost THEN halted' = TRUE /\ UNCHANGED cacheVars
       ELSE /\ system_store' = SystemBack /\ store' = StoreBack
            /\ cache_ptr' = Find(SystemBack, StoreBack, put.at[1], put.at[2])
            /\ cached' = [domain |-> put.at[1], addr |-> put.at[2],
                          data |-> Over(Cleared, put.data, put.size)]
            /\ cache_dirty' = TRUE
            /\ UNCHANGED halted

\* The rest of the function, after its last get.
Finish ==
    /\ ~ halted /\ msg # NoMessage /\ todo = << >>
    /\ Len(got) = Len(FirstGets(msg)) => LastGets(msg, got) = << >>
    /\ IF Sets(msg) THEN SetHit(SetOf(msg, got)) \/ SetMiss(SetOf(msg, got))
       ELSE UNCHANGED <<cacheVars, halted>>
    /\ IF halted' THEN UNCHANGED <<msg, reply, got>>
       ELSE msg' = NoMessage /\ reply' \in Answers(msg, got) /\ got' = << >>
    /\ UNCHANGED todo

\* sysconfig() with more than id[10] holds, or with nothing in it.
Overrun ==
    /\ ~ halted /\ msg # NoMessage /\ todo = << >>
    /\ Undefined(msg, got)
    /\ halted' = TRUE
    /\ UNCHANGED <<cacheVars, msg, todo, got, reply>>

Next == (\E m \in Messages : Receive(m)) \/ GetHit \/ GetMiss \/ Follow \/ Finish \/ Overrun

Spec == Init /\ [][Next]_vars
-----------------------------------------------------------------------------
\* One type invariant for the globals of cached.c and the running message.
TypeOK ==
    /\ system_store \in [Objects -> Entry] /\ store \in [Slots -> Entry]
    /\ cached \in Entry
    /\ cache_ptr \in Places \cup {NULL} /\ cache_dirty \in BOOLEAN
    /\ msg \in Message \cup {NoMessage}
    /\ todo \in Seq((Users \cup {System}) \X Addresses) /\ got \in Seq(Data)
    /\ reply \in Reply /\ halted \in BOOLEAN

\* Writing an object back never changes which object a place stands for: the
\* copy carries the domain and the address of its entry, and write_back_cache()
\* (cached.c:78-85) copies them too.  Of a system entry only the address counts
\* (cached.c:99): a broadcast leaves the domain Public there for System.
EntriesKeepNames ==
    /\ \A o \in Objects : system_store[o].addr = o
    /\ \A p \in Slots : store[p].domain = p % NDomains /\ store[p].addr = p \div NDomains

\* The cached object goes back to the place of the object it is named after,
\* and a clean one is what that place holds (cached.c:78-90,127-133,151-160).
CacheIsOfItsPlace ==
    cache_ptr # NULL =>
        /\ Find(system_store, store, cached.domain, cached.addr) = cache_ptr
        /\ ~ cache_dirty => At(system_store, store, cache_ptr).data = cached.data

\* The invariant of the globals of cached.c: well typed, entries that keep their
\* names, and a cached object that belongs to its place.
CacheInv ==
    /\ TypeOK
    /\ EntriesKeepNames
    /\ CacheIsOfItsPlace

\* The objects as the users see them: the dirty copy stands for its place.
View ==
    [at \in (Users \cup {System}) \X Objects |->
        LET place == Find(system_store, store, at[1], at[2])
        IN  IF cache_dirty /\ cache_ptr = place THEN cached.data
            ELSE At(system_store, store, place).data]

\* The cached store with its evictions answers every message as a plain memory
\* would, the objects of the domain Public being those of the system: find()
\* (cached.c:99) does not tell the two apart.
Memory == INSTANCE Store WITH PublicHome <- System, memory <- View, doomed <- Lost
MemorySpec == Memory!StoreSpec

\* A user's text turns up among another user's objects only out of the system
\* object that classify() joins to the argument, where a broadcast may have put
\* it: the bytes an evicted object leaves in the cache never become part of the
\* next one (cached.c:153-155; tests/cache.c:34-47 tries it once).
CONSTANT Author         \* whose text it is
ASSUME AuthorAssumption == \A m \in Messages : m.piece \in Texts => Author[m.piece] = m.domain
TextsOf(data) == {data.first, data.second} \cap Texts
Held(d) == (UNION {TextsOf(store[p].data) : p \in {q \in Slots : store[q].domain = d}})
           \cup (IF cached.domain = d THEN TextsOf(cached.data) ELSE {})
TextsStayHome ==
    [][\A d \in Users : \A t \in Held(d)' \ Held(d) :
           Author[t] = d \/ t \in TextsOf(View[<<System, 0>>])]_cacheVars
=============================================================================
