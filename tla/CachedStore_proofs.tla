------------------------- MODULE CachedStore_proofs -------------------------
(***************************************************************************)
(* The cached store keeps its invariant and implements the plain memory of *)
(* Store, for every number of domains and of objects, all texts and every  *)
(* set of messages.                                                        *)
(***************************************************************************)
EXTENDS CachedStore, SequenceTheorems, TLAPS

Domain == Users \cup {System, Public}

(* Where an object is kept, told from its name alone.                      *)
Place(d, o) ==
    IF o \notin Objects THEN NULL
    ELSE IF d < 0 THEN <<"system", o>> ELSE <<"store", NDomains * o + d>>

(* The entries of a pair of stores carry the names of their places.        *)
Named(sys, users) ==
    /\ sys \in [Objects -> Entry] /\ users \in [Slots -> Entry]
    /\ \A o \in Objects : sys[o].addr = o /\ sys[o].domain < 0
    /\ \A p \in Slots : users[p].domain = p % NDomains /\ users[p].addr = p \div NDomains

-----------------------------------------------------------------------------
(* Numbers.                                                                *)

LEMMA Sizes ==
    /\ NDomains \in Nat \ {0} /\ StoreSize \in Nat \ {0, 1}
    /\ 0 \in Objects /\ 1 \in Objects /\ 0 \in Users
    /\ Objects \subseteq Int /\ Beyond \notin Objects
    /\ Addresses = Objects \cup {Beyond}
    /\ System \notin Users /\ Public \notin Users /\ System < 0 /\ Public < 0
    /\ \A d \in Users : d \in Nat /\ ~(d < 0)
    /\ Domain \subseteq Int
  BY SizesAssumption, SMT
     DEF Objects, Users, Beyond, Addresses, System, Public, Domain

LEMMA DivMod ==
    ASSUME NEW n \in Nat \ {0}, NEW k \in Nat
    PROVE  k = n * (k \div n) + (k % n)
  BY SMT

LEMMA SlotOf ==
    ASSUME NEW d \in Users, NEW o \in Objects
    PROVE  /\ NDomains * o + d \in Slots
           /\ (NDomains * o + d) % NDomains = d
           /\ (NDomains * o + d) \div NDomains = o
  <1>1. /\ NDomains \in Nat \ {0} /\ StoreSize \in Nat
        /\ d \in 0 .. NDomains - 1 /\ o \in 0 .. StoreSize - 1
    BY SizesAssumption DEF Users, Objects
  <1>2. NDomains * o + d \in 0 .. NDomains * StoreSize - 1
    BY <1>1, SMT
  <1>3. (NDomains * o + d) % NDomains = d /\ (NDomains * o + d) \div NDomains = o
    BY <1>1, SMT
  <1> QED BY <1>2, <1>3 DEF Slots

LEMMA NameOfSlot ==
    ASSUME NEW p \in Slots
    PROVE  /\ p % NDomains \in Users /\ p \div NDomains \in Objects
           /\ p = NDomains * (p \div NDomains) + (p % NDomains)
  <1>1. NDomains \in Nat \ {0} /\ StoreSize \in Nat /\ p \in 0 .. NDomains * StoreSize - 1
    BY SizesAssumption DEF Slots
  <1>2. p \div NDomains \in 0 .. StoreSize - 1 /\ p % NDomains \in 0 .. NDomains - 1
    BY <1>1, SMT
  <1>3. p \in Nat
    BY <1>1, SMT
  <1>4. p = NDomains * (p \div NDomains) + (p % NDomains)
    <2>1. NDomains \in Nat \ {0}
      BY <1>1
    <2> QED BY <2>1, <1>3, DivMod
  <1> QED BY <1>2, <1>4 DEF Users, Objects

(* Every place is some object's, and only that object's but for the two    *)
(* names of the system store.                                              *)
LEMMA PlaceIn ==
    ASSUME NEW d \in Domain, NEW o \in Objects
    PROVE  Place(d, o) \in Places /\ Place(d, o) # NULL
  <1>1. CASE d < 0
    BY <1>1 DEF Place, Places, NULL
  <1>2. CASE ~(d < 0)
    <2>1. d \in Users
      BY <1>2, Sizes DEF Domain
    <2>2. NDomains * o + d \in Slots
      BY <2>1, SlotOf
    <2> QED BY <1>2, <2>2 DEF Place, Places, NULL
  <1> QED BY <1>1, <1>2

LEMMA PlaceBeyond ==
    ASSUME NEW d, NEW o \in Addresses
    PROVE  Place(d, o) = NULL <=> o = Beyond
  <1>1. o \in Objects => o # Beyond /\ Place(d, o) # NULL
    BY Sizes DEF Place, NULL
  <1>2. o \notin Objects => o = Beyond /\ Place(d, o) = NULL
    BY Sizes DEF Place
  <1> QED BY <1>1, <1>2

LEMMA PlaceOnce ==
    ASSUME NEW d \in Domain, NEW o \in Objects, NEW e \in Domain, NEW q \in Addresses,
           Place(d, o) = Place(e, q)
    PROVE  o = q /\ (d = e \/ (d < 0 /\ e < 0))
  <1>1. q \in Objects
    BY PlaceIn, Sizes, PlaceBeyond
  <1>2. CASE d < 0 /\ e < 0
    BY <1>1, <1>2 DEF Place
  <1>3. CASE ~(d < 0) /\ ~(e < 0)
    <2>1. d \in Users /\ e \in Users
      BY <1>3, Sizes DEF Domain
    <2>2. NDomains * o + d = NDomains * q + e
      BY <1>1, <1>3 DEF Place
    <2> QED BY <1>1, <2>1, <2>2, SlotOf
  <1>4. CASE ~(d < 0 <=> e < 0)
    BY <1>1, <1>4 DEF Place
  <1> QED BY <1>2, <1>3, <1>4

LEMMA BothNegative ==
    ASSUME NEW o
    PROVE  Place(Public, o) = Place(System, o)
  BY Sizes DEF Place

(* find() comes to that place.                                             *)
LEMMA FindIs ==
    ASSUME NEW sys, NEW users, Named(sys, users), NEW d \in Domain, NEW o \in Addresses
    PROVE  Find(sys, users, d, o) = Place(d, o)
  <1>1. CASE d < 0
    <2> DEFINE hits == {p \in Objects : sys[p].addr = o}
               first == CHOOSE p \in hits : \A q \in hits : p <= q
    <2>1. hits = IF o \in Objects THEN {o} ELSE {}
      BY DEF Named
    <2>2. Find(sys, users, d, o) = IF hits = {} THEN NULL ELSE <<"system", first>>
      BY <1>1 DEF Find
    <2>3. o \in Objects => first = o
      <3> SUFFICES ASSUME o \in Objects PROVE first = o
        OBVIOUS
      <3>1. o <= o
        BY Sizes
      <3> QED BY <2>1, <3>1
    <2> HIDE DEF hits, first
    <2> QED BY <1>1, <2>1, <2>2, <2>3 DEF Place
  <1>2. CASE ~(d < 0)
    <2> DEFINE hits == {p \in Slots : users[p].domain = d /\ users[p].addr = o}
               first == CHOOSE p \in hits : \A q \in hits : p <= q
               slot == NDomains * o + d
    <2>0. d \in Users
      BY <1>2, Sizes DEF Domain
    <2>1. Find(sys, users, d, o) = IF hits = {} THEN NULL ELSE <<"store", first>>
      BY <1>2 DEF Find
    <2>2. CASE o \in Objects
      <3>1. slot \in Slots /\ slot % NDomains = d /\ slot \div NDomains = o
        BY <2>0, <2>2, SlotOf
      <3>2. slot \in Int /\ slot <= slot
        BY <3>1, SizesAssumption, SMT DEF Slots
      <3>3. ASSUME NEW p \in Slots, users[p].domain = d, users[p].addr = o
            PROVE  p = slot
        <4>1. p % NDomains = d /\ p \div NDomains = o
          BY <3>3 DEF Named
        <4>2. p = NDomains * (p \div NDomains) + (p % NDomains)
          BY NameOfSlot
        <4> QED BY <4>1, <4>2, Zenon
      <3>4. users[slot].domain = d /\ users[slot].addr = o
        BY <3>1 DEF Named
      <3> HIDE DEF slot
      <3>5. hits = {slot}
        BY <3>1, <3>3, <3>4
      <3>6. first = slot
        BY <3>2, <3>5
      <3> HIDE DEF hits, first
      <3>7. Find(sys, users, d, o) = <<"store", slot>>
        BY <2>1, <3>5, <3>6
      <3> QED BY <1>2, <2>2, <3>7 DEF Place, slot
    <2>3. CASE o \notin Objects
      <3>1. hits = {}
        BY <2>3, NameOfSlot DEF Named
      <3> QED BY <2>1, <2>3, <3>1 DEF Place
    <2> QED BY <2>2, <2>3
  <1> QED BY <1>1, <1>2

-----------------------------------------------------------------------------
(* The stores and the cache.                                               *)

(* A cached object with a place is the object of that place, and is what   *)
(* the place holds unless it is dirty.                                     *)
CacheOK ==
    /\ Named(system_store, store)
    /\ cached \in Entry
    /\ cache_ptr \in Places \cup {NULL}
    /\ cache_dirty \in BOOLEAN
    /\ cache_ptr # NULL =>
          /\ Place(cached.domain, cached.addr) = cache_ptr
          /\ ~ cache_dirty => At(system_store, store, cache_ptr).data = cached.data

LEMMA EntryFields ==
    ASSUME NEW e \in Entry
    PROVE  e.domain \in Domain /\ e.addr \in Addresses /\ e.data \in Data
  BY DEF Entry, Domain

LEMMA PlacesAre ==
    ASSUME NEW place \in Places
    PROVE  /\ place = <<place[1], place[2]>> /\ place # NULL
           /\ \/ place[1] = "system" /\ place[2] \in Objects
              \/ place[1] = "store" /\ place[2] \in Slots
  BY DEF Places, NULL

(* What write_back_cache() leaves: the same names, the cached data where   *)
(* it belongs, and the rest as it was.                                     *)
LEMMA BackKeeps ==
    ASSUME CacheOK
    PROVE  /\ Named(SystemBack, StoreBack)
           /\ \A place \in Places :
                At(SystemBack, StoreBack, place).data
                  = IF cache_dirty /\ cache_ptr = place THEN cached.data
                    ELSE At(system_store, store, place).data
  <1>0. /\ system_store \in [Objects -> Entry] /\ store \in [Slots -> Entry]
        /\ \A o \in Objects : system_store[o].addr = o /\ system_store[o].domain < 0
        /\ \A p \in Slots : store[p].domain = p % NDomains /\ store[p].addr = p \div NDomains
        /\ cached \in Entry /\ cached.domain \in Domain /\ cached.addr \in Addresses
    BY EntryFields DEF CacheOK, Named
  <1>1. CASE ~ cache_dirty \/ cache_ptr = NULL
    <2>1. SystemBack = system_store /\ StoreBack = store
      BY <1>1 DEF SystemBack, StoreBack, NULL
    <2>2. \A place \in Places : ~(cache_dirty /\ cache_ptr = place)
      BY <1>1, PlacesAre
    <2> QED BY <2>1, <2>2 DEF CacheOK
  <1>2. CASE cache_dirty /\ cache_ptr \in Places
    <2>0. /\ Place(cached.domain, cached.addr) = cache_ptr
          /\ cache_ptr = <<cache_ptr[1], cache_ptr[2]>>
          /\ cached.addr \in Objects
      <3>1. cache_ptr # NULL /\ cache_ptr = <<cache_ptr[1], cache_ptr[2]>>
        BY <1>2, PlacesAre
      <3>2. Place(cached.domain, cached.addr) = cache_ptr
        BY <3>1 DEF CacheOK
      <3> QED BY <3>1, <3>2, <1>0, PlaceBeyond, Sizes
    <2>1. CASE cache_ptr[1] = "system" /\ cache_ptr[2] \in Objects
      <3>1. SystemBack = [system_store EXCEPT ![cache_ptr[2]] = cached] /\ StoreBack = store
        BY <1>2, <2>1 DEF SystemBack, StoreBack
      <3>2. cached.addr = cache_ptr[2] /\ cached.domain < 0
        BY <2>0, <2>1 DEF Place
      <3>3. SystemBack \in [Objects -> Entry]
        BY <1>0, <3>1
      <3>4. \A o \in Objects : SystemBack[o] = IF o = cache_ptr[2] THEN cached ELSE system_store[o]
        BY <1>0, <3>1
      <3>5. Named(SystemBack, StoreBack)
        BY <1>0, <3>1, <3>2, <3>3, <3>4 DEF Named
      <3>6. ASSUME NEW place \in Places
            PROVE  At(SystemBack, StoreBack, place).data
                     = IF cache_dirty /\ cache_ptr = place THEN cached.data
                       ELSE At(system_store, store, place).data
        <4>1. CASE place[1] = "system"
          <5>1. place[2] \in Objects /\ place = <<"system", place[2]>>
            BY <4>1, PlacesAre
          <5>2. cache_ptr = place <=> cache_ptr[2] = place[2]
            BY <2>0, <2>1, <5>1
          <5>3. /\ At(SystemBack, StoreBack, place) = SystemBack[place[2]]
                /\ At(system_store, store, place) = system_store[place[2]]
            BY <4>1 DEF At
          <5> QED BY <1>2, <3>4, <5>1, <5>2, <5>3
        <4>2. CASE place[1] # "system"
          BY <2>1, <3>1, <4>2 DEF At
        <4> QED BY <4>1, <4>2
      <3> QED BY <3>5, <3>6
    <2>2. CASE cache_ptr[1] = "store" /\ cache_ptr[2] \in Slots
      <3>1. SystemBack = system_store /\ StoreBack = [store EXCEPT ![cache_ptr[2]] = cached]
        BY <1>2, <2>2 DEF SystemBack, StoreBack
      <3>2. cached.domain = cache_ptr[2] % NDomains /\ cached.addr = cache_ptr[2] \div NDomains
        <4>1. ~(cached.domain < 0) /\ cache_ptr[2] = NDomains * cached.addr + cached.domain
          BY <2>0, <2>2 DEF Place
        <4>2. cached.domain \in Users
          BY <1>0, <4>1, Sizes DEF Domain
        <4> QED BY <2>0, <4>1, <4>2, SlotOf
      <3>3. StoreBack \in [Slots -> Entry]
        BY <1>0, <3>1
      <3>4. \A p \in Slots : StoreBack[p] = IF p = cache_ptr[2] THEN cached ELSE store[p]
        BY <1>0, <3>1
      <3>5. Named(SystemBack, StoreBack)
        <4>1. \A p \in Slots : StoreBack[p].domain = p % NDomains /\ StoreBack[p].addr = p \div NDomains
          BY <1>0, <3>2, <3>4
        <4> QED BY <1>0, <3>1, <3>3, <4>1 DEF Named
      <3>6. ASSUME NEW place \in Places
            PROVE  At(SystemBack, StoreBack, place).data
                     = IF cache_dirty /\ cache_ptr = place THEN cached.data
                       ELSE At(system_store, store, place).data
        <4>1. CASE place[1] = "store"
          <5>1. place[2] \in Slots /\ place = <<"store", place[2]>>
            BY <4>1, PlacesAre
          <5>2. cache_ptr = place <=> cache_ptr[2] = place[2]
            BY <2>0, <2>2, <5>1
          <5>3. /\ At(SystemBack, StoreBack, place) = StoreBack[place[2]]
                /\ At(system_store, store, place) = store[place[2]]
            BY <4>1 DEF At
          <5> QED BY <1>2, <3>4, <5>1, <5>2, <5>3
        <4>2. CASE place[1] # "store"
          <5>1. place[1] = "system"
            BY <4>2, PlacesAre
          <5> QED BY <2>2, <3>1, <5>1 DEF At
        <4> QED BY <4>1, <4>2
      <3> QED BY <3>5, <3>6
    <2> QED BY <1>2, <2>1, <2>2, PlacesAre
  <1> QED BY <1>1, <1>2 DEF CacheOK

(* The objects as the users see them, before and after a step.             *)
LEMMA ViewAt ==
    ASSUME CacheOK, NEW d \in Users \cup {System}, NEW o \in Objects
    PROVE  View[<<d, o>>] = IF cache_dirty /\ cache_ptr = Place(d, o) THEN cached.data
                            ELSE At(system_store, store, Place(d, o)).data
  <1>1. Find(system_store, store, d, o) = Place(d, o)
    BY FindIs, Sizes DEF CacheOK, Domain
  <1> QED BY <1>1 DEF View

LEMMA ViewAtNext ==
    ASSUME CacheOK', NEW d \in Users \cup {System}, NEW o \in Objects
    PROVE  View'[<<d, o>>] = IF cache_dirty' /\ cache_ptr' = Place(d, o) THEN cached'.data
                             ELSE At(system_store', store', Place(d, o)).data
  <1>1. Find(system_store', store', d, o) = Place(d, o)
    <2>1. Named(system_store', store')
      BY DEF CacheOK, Named
    <2> QED BY <2>1, FindIs, Sizes DEF Domain
  <1> QED BY <1>1 DEF View

LEMMA ViewWrittenBack ==
    ASSUME CacheOK, NEW d \in Users \cup {System}, NEW o \in Objects
    PROVE  View[<<d, o>>] = At(SystemBack, StoreBack, Place(d, o)).data
  <1>1. Place(d, o) \in Places
    BY PlaceIn DEF Domain
  <1> QED BY <1>1, ViewAt, BackKeeps

(* Two views that agree on every object are one.                           *)
LEMMA SameView ==
    ASSUME \A d \in Users \cup {System}, o \in Objects : View'[<<d, o>>] = View[<<d, o>>]
    PROVE  View' = View
  <1> DEFINE D == (Users \cup {System}) \X Objects
  <1>1. View = [at \in D |-> View[at]] /\ View' = [at \in D |-> View'[at]]
    BY DEF View
  <1>2. \A at \in D : View'[at] = View[at]
    OBVIOUS
  <1> HIDE DEF D
  <1> QED BY <1>1, <1>2, Zenon

LEMMA EntryAt ==
    ASSUME NEW sys, NEW users, Named(sys, users), NEW d \in Domain, NEW o \in Objects
    PROVE  /\ At(sys, users, Place(d, o)) \in Entry
           /\ Place(At(sys, users, Place(d, o)).domain, At(sys, users, Place(d, o)).addr) = Place(d, o)
  <1>1. CASE d < 0
    <2>1. At(sys, users, Place(d, o)) = sys[o]
      BY <1>1 DEF At, Place
    <2> QED BY <1>1, <2>1 DEF Named, Place
  <1>2. CASE ~(d < 0)
    <2>1. d \in Users
      BY <1>2, Sizes DEF Domain
    <2>2. At(sys, users, Place(d, o)) = users[NDomains * o + d]
      BY <1>2 DEF At, Place
    <2>3. /\ users[NDomains * o + d] \in Entry
          /\ users[NDomains * o + d].domain = d /\ users[NDomains * o + d].addr = o
      BY <2>1, SlotOf DEF Named
    <2> QED BY <2>2, <2>3
  <1> QED BY <1>1, <1>2

(* store_get() on a miss: what it returns is the object as it was, and the *)
(* users see nothing of the eviction.                                      *)
LEMMA MissKeeps ==
    ASSUME CacheOK, NEW d \in Users \cup {System}, NEW o \in Objects,
           system_store' = SystemBack, store' = StoreBack,
           cache_dirty' = FALSE, cache_ptr' = Place(d, o),
           cached' = At(SystemBack, StoreBack, Place(d, o))
    PROVE  CacheOK' /\ View' = View /\ cached'.data = View[<<d, o>>]
  <1>0. d \in Domain /\ Place(d, o) \in Places /\ Place(d, o) # NULL
    BY PlaceIn DEF Domain
  <1>1. Named(SystemBack, StoreBack)
    BY BackKeeps
  <1>2. CacheOK'
    <2>1. cached' \in Entry /\ Place(cached'.domain, cached'.addr) = cache_ptr'
      BY <1>0, <1>1, EntryAt
    <2>2. Named(system_store', store')
      BY <1>1
    <2>3. At(system_store', store', cache_ptr').data = cached'.data
      OBVIOUS
    <2>4. cache_ptr' \in Places \cup {NULL} /\ cache_dirty' \in BOOLEAN
      BY <1>0
    <2> QED BY <2>1, <2>2, <2>3, <2>4 DEF CacheOK, Named
  <1>3. \A e \in Users \cup {System}, q \in Objects : View'[<<e, q>>] = View[<<e, q>>]
    BY <1>2, ViewAtNext, ViewWrittenBack
  <1>4. cached'.data = View[<<d, o>>]
    BY ViewWrittenBack
  <1> QED BY <1>2, <1>3, <1>4, SameView

(* store_get() on a hit.                                                   *)
LEMMA HitIsView ==
    ASSUME CacheOK, NEW d \in Domain, NEW o \in Addresses, Hit(d, o)
    PROVE  /\ o \in Objects /\ cache_ptr = Place(d, o)
           /\ d \in Users \cup {System} => cached.data = View[<<d, o>>]
  <1>1. cache_ptr # NULL /\ cache_ptr = Place(d, o) /\ cache_ptr \in Places
    BY DEF Hit, CacheOK
  <1>2. o \in Objects
    BY <1>1 DEF Place
  <1>3. ASSUME d \in Users \cup {System} PROVE cached.data = View[<<d, o>>]
    <2>1. ~ cache_dirty => At(system_store, store, cache_ptr).data = cached.data
      BY <1>1 DEF CacheOK
    <2> QED BY <1>1, <1>2, <1>3, <2>1, ViewAt DEF CacheOK
  <1> QED BY <1>1, <1>2, <1>3

HomeOf(d) == IF d = Public THEN System ELSE d

LEMMA HomePlace ==
    ASSUME NEW d \in Domain, NEW o \in Objects
    PROVE  /\ HomeOf(d) \in Users \cup {System} /\ Place(HomeOf(d), o) = Place(d, o)
           /\ \A e \in Users \cup {System}, q \in Objects :
                Place(e, q) = Place(d, o) <=> <<e, q>> = <<HomeOf(d), o>>
  <1>1. HomeOf(d) \in Users \cup {System} /\ Place(HomeOf(d), o) = Place(d, o)
    BY BothNegative DEF HomeOf, Domain
  <1>2. ASSUME NEW e \in Users \cup {System}, NEW q \in Objects, Place(e, q) = Place(d, o)
        PROVE  <<e, q>> = <<HomeOf(d), o>>
    <2>1. e \in Domain /\ o \in Addresses /\ HomeOf(d) \in Domain
      BY <1>1, Sizes DEF Domain
    <2>2. q = o /\ (e = HomeOf(d) \/ (e < 0 /\ HomeOf(d) < 0))
      BY <1>1, <1>2, <2>1, PlaceOnce
    <2>3. e < 0 => e = System
      BY Sizes
    <2>4. HomeOf(d) < 0 => HomeOf(d) = System
      BY <1>1, Sizes
    <2> QED BY <2>2, <2>3, <2>4
  <1> QED BY <1>1, <1>2

LEMMA OverIn ==
    ASSUME NEW old \in Data, NEW new \in Data, NEW size \in {"whole", "text", "nothing"}
    PROVE  Over(old, new, size) \in Data
  <1>1. CASE size = "whole"
    BY <1>1, Zenon DEF Over
  <1>2. CASE size = "nothing"
    BY <1>2, Zenon DEF Over
  <1>3. CASE size = "text"
    <2>1. Over(old, new, size) = [first |-> new.first, second |-> old.second, cut |-> TRUE]
      BY <1>3, Zenon DEF Over
    <2>2. [first |-> new.first, second |-> old.second, cut |-> TRUE] \in Data
      BY SMT DEF Data
    <2> QED BY <2>1, <2>2
  <1> QED BY <1>1, <1>2, <1>3

PutOK(put) ==
    /\ put.at[1] \in Domain /\ put.at[2] \in Addresses
    /\ put.data \in Data /\ put.size \in {"whole", "text", "nothing"}

(* A store_set() changes the object it names as the users see it, and no   *)
(* other.                                                                  *)
LEMMA ViewChanged ==
    ASSUME NEW d \in Domain, NEW o \in Objects, NEW new,
           \A e \in Users \cup {System}, q \in Objects :
              View'[<<e, q>>] = IF Place(e, q) = Place(d, o) THEN new ELSE View[<<e, q>>]
    PROVE  View' = [View EXCEPT ![<<HomeOf(d), o>>] = new]
  <1> DEFINE D == (Users \cup {System}) \X Objects
  <1>1. DOMAIN View = D /\ View' = [at \in D |-> View'[at]]
    BY DEF View
  <1>2. \A e \in Users \cup {System}, q \in Objects :
           View'[<<e, q>>] = IF <<e, q>> = <<HomeOf(d), o>> THEN new ELSE View[<<e, q>>]
    <2> SUFFICES ASSUME NEW e \in Users \cup {System}, NEW q \in Objects
                 PROVE  View'[<<e, q>>] = IF <<e, q>> = <<HomeOf(d), o>> THEN new ELSE View[<<e, q>>]
      OBVIOUS
    <2>1. Place(e, q) = Place(d, o) <=> <<e, q>> = <<HomeOf(d), o>>
      BY HomePlace
    <2>2. View'[<<e, q>>] = IF Place(e, q) = Place(d, o) THEN new ELSE View[<<e, q>>]
      OBVIOUS
    <2>3. CASE Place(e, q) = Place(d, o)
      BY <2>1, <2>2, <2>3, Zenon
    <2>4. CASE Place(e, q) # Place(d, o)
      BY <2>1, <2>2, <2>4, Zenon
    <2> QED BY <2>3, <2>4
  <1>3. \A at \in D : View'[at] = IF at = <<HomeOf(d), o>> THEN new ELSE View[at]
    BY <1>2
  <1> HIDE DEF D
  <1>4. View' = [at \in D |-> IF at = <<HomeOf(d), o>> THEN new ELSE View[at]]
    BY <1>1, <1>3, Zenon
  <1>5. [View EXCEPT ![<<HomeOf(d), o>>] = new]
          = [at \in D |-> IF at = <<HomeOf(d), o>> THEN new ELSE View[at]]
    BY <1>1
  <1> QED BY <1>4, <1>5

LEMMA SetHitKeeps ==
    ASSUME CacheOK, NEW put, PutOK(put), SetHit(put)
    PROVE  /\ CacheOK' /\ put.at[2] \in Objects /\ ~ Lost /\ ~ Lost'
           /\ View' = [View EXCEPT ![<<HomeOf(put.at[1]), put.at[2]>>] =
                         Over(View[<<HomeOf(put.at[1]), put.at[2]>>], put.data, put.size)]
  <1> DEFINE d == put.at[1]
             o == put.at[2]
             new == Over(cached.data, put.data, put.size)
  <1>0. /\ d \in Domain /\ o \in Addresses
        /\ put.data \in Data /\ put.size \in {"whole", "text", "nothing"}
    BY DEF PutOK
  <1>1. /\ Hit(d, o) /\ cached' = [cached EXCEPT !.data = new] /\ cache_dirty' = TRUE
        /\ UNCHANGED <<system_store, store, cache_ptr, halted>>
    BY DEF SetHit
  <1>2. o \in Objects /\ cache_ptr = Place(d, o) /\ cache_ptr # NULL /\ cache_ptr \in Places
    BY <1>0, <1>1, HitIsView DEF Hit, CacheOK
  <1>3. cached \in Entry /\ new \in Data /\ cached.data \in Data
    BY <1>0, OverIn, EntryFields DEF CacheOK
  <1> HIDE DEF d, o, new
  <1>4. /\ cached' \in Entry /\ cached'.data = new
        /\ cached'.domain = cached.domain /\ cached'.addr = cached.addr
    BY <1>1, <1>3 DEF Entry
  <1>5. CacheOK'
    BY <1>1, <1>2, <1>4 DEF CacheOK, Named
  <1>6. ~ Lost /\ ~ Lost'
    BY <1>1, <1>2 DEF Lost
  <1>7. \A e \in Users \cup {System}, q \in Objects :
           View'[<<e, q>>] = IF Place(e, q) = Place(d, o) THEN new ELSE View[<<e, q>>]
    <2> SUFFICES ASSUME NEW e \in Users \cup {System}, NEW q \in Objects
                 PROVE  View'[<<e, q>>] = IF Place(e, q) = Place(d, o) THEN new ELSE View[<<e, q>>]
      OBVIOUS
    <2>1. View'[<<e, q>>] = IF cache_dirty' /\ cache_ptr' = Place(e, q) THEN cached'.data
                            ELSE At(system_store', store', Place(e, q)).data
      BY <1>5, ViewAtNext
    <2>2. View[<<e, q>>] = IF cache_dirty /\ cache_ptr = Place(e, q) THEN cached.data
                           ELSE At(system_store, store, Place(e, q)).data
      BY ViewAt
    <2> QED BY <2>1, <2>2, <1>1, <1>2, <1>4
  <1>8. new = Over(View[<<HomeOf(d), o>>], put.data, put.size)
    <2>1. HomeOf(d) \in Users \cup {System} /\ Place(HomeOf(d), o) = Place(d, o)
      BY <1>0, <1>2, HomePlace
    <2>2. ~ cache_dirty => At(system_store, store, cache_ptr).data = cached.data
      BY <1>2 DEF CacheOK
    <2>3. View[<<HomeOf(d), o>>] = cached.data
      BY <1>2, <2>1, <2>2, ViewAt DEF CacheOK
    <2> QED BY <2>3 DEF new
  <1>9. View' = [View EXCEPT ![<<HomeOf(d), o>>] = new]
    BY <1>0, <1>2, <1>7, ViewChanged
  <1> QED BY <1>2, <1>5, <1>6, <1>8, <1>9 DEF d, o

LEMMA SetMissKeeps ==
    ASSUME CacheOK, NEW put, PutOK(put), SetMiss(put), ~ Lost
    PROVE  /\ CacheOK' /\ UNCHANGED halted
           /\ put.at[2] = Beyond => Lost' /\ View' = View
           /\ put.at[2] # Beyond =>
                /\ ~ Lost' /\ put.at[2] \in Objects
                /\ View' = [View EXCEPT ![<<HomeOf(put.at[1]), put.at[2]>>] =
                              Over(Cleared, put.data, put.size)]
  <1> DEFINE d == put.at[1]
             o == put.at[2]
             new == Over(Cleared, put.data, put.size)
  <1>0. /\ d \in Domain /\ o \in Addresses
        /\ put.data \in Data /\ put.size \in {"whole", "text", "nothing"}
    BY DEF PutOK
  <1>1. Named(SystemBack, StoreBack)
    BY BackKeeps
  <1>2. Find(SystemBack, StoreBack, d, o) = Place(d, o)
    BY <1>0, <1>1, FindIs
  <1>3. /\ system_store' = SystemBack /\ store' = StoreBack
        /\ cache_ptr' = Place(d, o) /\ cache_dirty' = TRUE
        /\ cached' = [domain |-> d, addr |-> o, data |-> new]
        /\ UNCHANGED halted
    BY <1>2 DEF SetMiss
  <1>4. new \in Data
    <2>1. Cleared \in Data
      BY Sizes DEF Cleared, Plain, Data, Pieces
    <2> QED BY <1>0, <2>1, OverIn
  <1> HIDE DEF d, o, new
  <1>5. cached' \in Entry /\ cached'.data = new /\ cached'.domain = d /\ cached'.addr = o
    BY <1>0, <1>3, <1>4 DEF Entry, Domain
  <1>6. Place(d, o) \in Places \cup {NULL}
    BY <1>0, PlaceIn, PlaceBeyond, Sizes
  <1>7. CacheOK'
    <2>1. Named(system_store', store')
      BY <1>1, <1>3
    <2> QED BY <1>3, <1>5, <1>6, <2>1 DEF CacheOK, Named
  <1>8. \A e \in Users \cup {System}, q \in Objects :
           View'[<<e, q>>] = IF Place(e, q) = Place(d, o) THEN new ELSE View[<<e, q>>]
    <2> SUFFICES ASSUME NEW e \in Users \cup {System}, NEW q \in Objects
                 PROVE  View'[<<e, q>>] = IF Place(e, q) = Place(d, o) THEN new ELSE View[<<e, q>>]
      OBVIOUS
    <2>1. View'[<<e, q>>] = IF cache_dirty' /\ cache_ptr' = Place(e, q) THEN cached'.data
                            ELSE At(system_store', store', Place(e, q)).data
      BY <1>7, ViewAtNext
    <2>2. View[<<e, q>>] = At(SystemBack, StoreBack, Place(e, q)).data
      BY ViewWrittenBack
    <2> QED BY <2>1, <2>2, <1>3, <1>5
  <1>9. CASE o = Beyond
    <2>1. Place(d, o) = NULL
      BY <1>9, Sizes DEF Place
    <2>2. Lost'
      BY <1>3, <2>1 DEF Lost
    <2>3. \A e \in Users \cup {System}, q \in Objects : Place(e, q) # NULL
      BY PlaceIn DEF Domain
    <2>4. View' = View
      BY <1>8, <2>1, <2>3, SameView
    <2> QED BY <1>3, <1>7, <1>9, <2>2, <2>4 DEF o
  <1>10. CASE o # Beyond
    <2>1. o \in Objects
      BY <1>0, <1>10, Sizes
    <2>2. Place(d, o) # NULL
      BY <1>0, <2>1, PlaceIn
    <2>3. ~ Lost'
      BY <1>3, <2>2 DEF Lost
    <2>4. View' = [View EXCEPT ![<<HomeOf(d), o>>] = new]
      BY <1>0, <1>8, <2>1, ViewChanged
    <2> QED BY <1>3, <1>7, <1>10, <2>1, <2>3, <2>4 DEF d, o, new
  <1> QED BY <1>9, <1>10

-----------------------------------------------------------------------------
(* What a message asks for.                                                *)

Wanted == (Users \cup {System}) \X Addresses

LEMMA MessageFields ==
    ASSUME NEW m \in Message
    PROVE  /\ m.op \in {"GET", "SET", "mark_private", "direct", "declassify", "classify", "login",
                        "set_env", "search", "errorf", "sysconfig", "count", "broadcast"}
           /\ m.domain \in Users \cup {System} /\ m.addr \in Addresses /\ m.to \in Addresses
           /\ m.piece \in Pieces /\ m.size \in {"whole", "text", "nothing"}
           /\ m # NoMessage /\ m.domain \in Domain
  <1>1. /\ m.op \in {"GET", "SET"} \cup Functions
        /\ m.domain \in Users \cup {System} /\ m.addr \in Addresses /\ m.to \in Addresses
        /\ m.piece \in Pieces /\ m.size \in {"whole", "text", "nothing"}
    BY DEF Message
  <1>2. NoMessage.op = "idle"
    BY DEF NoMessage
  <1>3. m.op # "idle"
    BY <1>1 DEF Functions
  <1> QED BY <1>1, <1>2, <1>3 DEF Functions, Domain

(* The table of run_command(), one name at a time.                         *)
LEMMA FirstGetsIs ==
    ASSUME NEW m
    PROVE
          /\ m.op = "GET" => FirstGets(m) = <<Own(m, m.addr)>>
          /\ m.op = "login" => FirstGets(m) = login_gets(m)
          /\ m.op = "count" => FirstGets(m) = count_gets(m)
          /\ m.op = "search" => FirstGets(m) = search_gets(m)
          /\ m.op = "direct" => FirstGets(m) = direct_gets(m)
          /\ m.op = "set_env" => FirstGets(m) = set_env_gets(m)
          /\ m.op = "declassify" => FirstGets(m) = declassify_gets(m)
          /\ m.op = "broadcast" => FirstGets(m) = broadcast_gets(m)
          /\ m.op = "classify" => FirstGets(m) = classify_gets(m)
          /\ m.op = "errorf" => FirstGets(m) = errorf_gets
          /\ m.op = "sysconfig" => FirstGets(m) = sysconfig_gets(m)
          /\ m.op \in {"SET", "mark_private"} => FirstGets(m) = << >>
  <1>1. m.op = "GET" => FirstGets(m) = <<Own(m, m.addr)>>
    BY Zenon DEF FirstGets
  <1>2. m.op = "login" => FirstGets(m) = login_gets(m)
    BY Zenon DEF FirstGets
  <1>3. m.op = "count" => FirstGets(m) = count_gets(m)
    BY Zenon DEF FirstGets
  <1>4. m.op = "search" => FirstGets(m) = search_gets(m)
    BY Zenon DEF FirstGets
  <1>5. m.op = "direct" => FirstGets(m) = direct_gets(m)
    BY Zenon DEF FirstGets
  <1>6. m.op = "set_env" => FirstGets(m) = set_env_gets(m)
    BY Zenon DEF FirstGets
  <1>7. m.op = "declassify" => FirstGets(m) = declassify_gets(m)
    BY Zenon DEF FirstGets
  <1>8. m.op = "broadcast" => FirstGets(m) = broadcast_gets(m)
    BY Zenon DEF FirstGets
  <1>9. m.op = "classify" => FirstGets(m) = classify_gets(m)
    BY Zenon DEF FirstGets
  <1>10. m.op = "errorf" => FirstGets(m) = errorf_gets
    BY Zenon DEF FirstGets
  <1>11. m.op = "sysconfig" => FirstGets(m) = sysconfig_gets(m)
    BY Zenon DEF FirstGets
  <1>12. m.op \in {"SET", "mark_private"} => FirstGets(m) = << >>
    BY Zenon DEF FirstGets
  <1> QED BY <1>1, <1>2, <1>3, <1>4, <1>5, <1>6, <1>7, <1>8, <1>9, <1>10, <1>11, <1>12, Zenon

LEMMA LastGetsIs ==
    ASSUME NEW m, NEW g
    PROVE  /\ m.op = "direct" => LastGets(m, g) = <<direct_last(m, g)>>
           /\ m.op = "set_env" => LastGets(m, g) = <<set_env_last(g)>>
           /\ m.op \notin {"direct", "set_env"} => LastGets(m, g) = << >>
  BY Zenon DEF LastGets

LEMMA WantedPairs ==
    ASSUME NEW m \in Message, NEW o \in Addresses
    PROVE  Own(m, o) \in Wanted /\ Key(o) \in Wanted
  BY MessageFields DEF Own, Key, Wanted

LEMMA ShortTuples ==
    ASSUME NEW S, NEW a \in S, NEW b \in S, NEW c \in S, NEW d \in S
    PROVE  /\ << >> \in Seq(S) /\ Len(<< >>) = 0
           /\ <<a>> \in Seq(S) /\ <<a>> # << >> /\ Len(<<a>>) = 1
           /\ <<a, b>> \in Seq(S) /\ <<a, b>> # << >>
           /\ <<a, b, c, d>> \in Seq(S) /\ <<a, b, c, d>> # << >>
  <1>1. << >> \in Seq(S) /\ Len(<< >>) = 0
    BY EmptySeq
  <1>2. <<a>> \in Seq(S) /\ Len(<<a>>) = 1
    BY SMT
  <1>3. <<a, b>> \in Seq(S) /\ Len(<<a, b>>) = 2
    BY SMT
  <1>4. <<a, b, c, d>> \in Seq(S) /\ Len(<<a, b, c, d>>) = 4
    BY SMT
  <1>5. <<a>> # << >> /\ <<a, b>> # << >> /\ <<a, b, c, d>> # << >>
    BY <1>1, <1>2, <1>3, <1>4
  <1> QED BY <1>1, <1>2, <1>3, <1>4, <1>5

LEMMA FirstGetsTyped ==
    ASSUME NEW m \in Message
    PROVE  /\ FirstGets(m) \in Seq(Wanted)
           /\ FirstGets(m) = << >> <=> m.op \in {"SET", "mark_private"}
  <1>0. /\ 0 \in Addresses /\ 1 \in Addresses /\ StoreSize \in Nat /\ StoreSize > 1
        /\ m.addr \in Addresses
    BY Sizes, MessageFields
  <1>1. CASE m.op \in {"GET", "direct", "declassify", "broadcast"}
    <2>1. FirstGets(m) = <<Own(m, m.addr)>>
      BY <1>1, FirstGetsIs DEF direct_gets, declassify_gets, broadcast_gets
    <2>2. Own(m, m.addr) \in Wanted
      BY <1>0, WantedPairs
    <2>3. FirstGets(m) \in Seq(Wanted) /\ FirstGets(m) # << >>
      BY <2>1, <2>2, ShortTuples
    <2> QED BY <1>1, <2>3
  <1>2. CASE m.op \in {"login", "set_env", "classify", "errorf", "sysconfig"}
    <2>1. /\ Own(m, 0) \in Wanted /\ Own(m, 1) \in Wanted /\ Own(m, m.addr) \in Wanted
          /\ Key(0) \in Wanted /\ Key(1) \in Wanted
      BY <1>0, WantedPairs
    <2>2. \/ FirstGets(m) = <<Own(m, 0), Own(m, 1), Key(0), Key(1)>>
          \/ FirstGets(m) = <<Own(m, 0), Own(m, 1)>>
          \/ FirstGets(m) = <<Own(m, m.addr), Key(0)>>
          \/ FirstGets(m) = <<Key(0)>>
          \/ FirstGets(m) = <<Own(m, 0)>>
      BY <1>2, FirstGetsIs DEF login_gets, set_env_gets, classify_gets, errorf_gets, sysconfig_gets
    <2>3. FirstGets(m) \in Seq(Wanted) /\ FirstGets(m) # << >>
      BY <2>1, <2>2, ShortTuples
    <2> QED BY <1>2, <2>3
  <1>3. CASE m.op \in {"count", "search"}
    <2>1. FirstGets(m) = [i \in 1 .. StoreSize |-> Own(m, i - 1)]
      BY <1>3, FirstGetsIs DEF count_gets, search_gets
    <2>2. \A i \in 1 .. StoreSize : Own(m, i - 1) \in Wanted
      <3>1. \A i \in 1 .. StoreSize : i - 1 \in Addresses
        BY <1>0, SMT DEF Addresses, Objects
      <3> QED BY <3>1, WantedPairs
    <2>3. FirstGets(m) \in [1 .. StoreSize -> Wanted]
      BY <2>1, <2>2
    <2>4. FirstGets(m) \in Seq(Wanted)
      BY <1>0, <2>3, SeqDef
    <2>5. DOMAIN FirstGets(m) = 1 .. StoreSize
      BY <2>3
    <2>6. 1 \in DOMAIN FirstGets(m)
      BY <1>0, <2>5
    <2>7. 1 \notin DOMAIN << >>
      BY SMT
    <2> QED BY <1>3, <2>4, <2>6, <2>7
  <1>4. CASE m.op \in {"SET", "mark_private"}
    BY <1>4, FirstGetsIs, EmptySeq
  <1> QED BY <1>1, <1>2, <1>3, <1>4, MessageFields

LEMMA LastGetsTyped ==
    ASSUME NEW m \in Message, NEW g
    PROVE  /\ LastGets(m, g) \in Seq(Wanted) /\ Len(LastGets(m, g)) \in {0, 1}
           /\ Len(LastGets(m, g)) = 0 <=> LastGets(m, g) = << >>
           /\ m.op \notin {"direct", "set_env"} => LastGets(m, g) = << >>
  <1>1. \A data : Pointee(data) \in Addresses
    BY Sizes DEF Pointee
  <1>2. direct_last(m, g) \in Wanted /\ set_env_last(g) \in Wanted
    BY <1>1, WantedPairs DEF direct_last, set_env_last
  <1>3. /\ << >> \in Seq(Wanted) /\ Len(<< >>) = 0
        /\ \A w \in Wanted : <<w>> \in Seq(Wanted) /\ <<w>> # << >> /\ Len(<<w>>) = 1
    BY <1>2, ShortTuples
  <1>4. CASE m.op = "direct"
    <2>1. LastGets(m, g) = <<direct_last(m, g)>>
      BY <1>4, LastGetsIs
    <2> QED BY <1>2, <1>3, <1>4, <2>1
  <1>5. CASE m.op = "set_env"
    <2>1. LastGets(m, g) = <<set_env_last(g)>>
      BY <1>5, LastGetsIs
    <2> QED BY <1>2, <1>3, <1>5, <2>1
  <1>6. CASE m.op \notin {"direct", "set_env"}
    <2>1. LastGets(m, g) = << >>
      BY <1>6, LastGetsIs
    <2> QED BY <1>3, <2>1
  <1> QED BY <1>4, <1>5, <1>6

LEMMA TextTyped ==
    ASSUME NEW data \in Data
    PROVE  Text(data) \in Seq(Pieces)
  <1>1. data.first \in Pieces /\ data.second \in Pieces
    BY DEF Data
  <1> HIDE DEF Pieces
  <1> QED BY <1>1 DEF Text

LEMMA HoldingTyped ==
    ASSUME NEW text \in Seq(Pieces)
    PROVE  Holding(text) \in Data
  <1>0. 0 \in Pieces
    BY Sizes DEF Pieces
  <1>1. /\ Len(text) \in Nat
        /\ Len(text) > 0 => text[1] \in Pieces
        /\ Len(text) > 1 => text[2] \in Pieces
    BY SMT
  <1> HIDE DEF Pieces
  <1>2. /\ (IF Len(text) > 0 THEN text[1] ELSE 0) \in Pieces
        /\ (IF Len(text) > 1 THEN text[2] ELSE 0) \in Pieces
    BY <1>0, <1>1
  <1> QED BY <1>2 DEF Holding, Data

LEMMA DataTyped ==
    /\ Cleared \in Data
    /\ \A piece \in Pieces : Plain(piece) \in Data
    /\ \A data \in Data : Scrubbed(data) \in Data
    /\ \A data, key \in Data : Joined(data, key) \in Data
  <1>1. 0 \in Pieces
    BY Sizes DEF Pieces
  <1>2. \A piece \in Pieces : Plain(piece) \in Data
    BY <1>1 DEF Plain, Data
  <1>3. ASSUME NEW data \in Data PROVE Scrubbed(data) \in Data
    <2>1. Text(data) \in Seq(Pieces)
      BY TextTyped
    <2> HIDE DEF Pieces
    <2>2. ASSUME NEW i PROVE Spared(Text(data), i) \in Seq(Pieces)
      <3>1. i \in DOMAIN Text(data) => Text(data)[i] \in Pieces
        BY <2>1
      <3> QED BY <3>1 DEF Spared
    <2>3. Spared(Text(data), 1) \o Spared(Text(data), 2) \in Seq(Pieces)
      BY <2>2, ConcatProperties
    <2> QED BY <2>3, HoldingTyped DEF Scrubbed
  <1>4. ASSUME NEW data \in Data, NEW key \in Data PROVE Joined(data, key) \in Data
    <2> DEFINE both == Text(data) \o Text(key)
               n == IF Len(both) < 2 THEN Len(both) ELSE 2
    <2>1. both \in Seq(Pieces)
      BY TextTyped, ConcatProperties
    <2>2. Joined(data, key) = Holding(SubSeq(both, 1, n))
      BY DEF Joined
    <2> HIDE DEF both
    <2>3. Len(both) \in Nat /\ n \in Nat /\ n <= Len(both)
      BY <2>1, LenProperties
    <2> HIDE DEF n
    <2>4. SubSeq(both, 1, n) \in Seq(Pieces)
      <3> HIDE DEF Pieces
      <3> QED BY <2>1, <2>3, SMT
    <2> QED BY <2>2, <2>4, HoldingTyped
  <1> QED BY <1>1, <1>2, <1>3, <1>4 DEF Cleared

(* How much of what was got the answer and the set look at.                *)
Enough(m, g) ==
    /\ m.op \in {"GET", "direct", "declassify", "broadcast", "classify"} => g[1] \in Data
    /\ m.op \in {"direct", "classify"} => g[2] \in Data

LEMMA AnswerTyped ==
    ASSUME NEW m \in Message, NEW g, Enough(m, g), m.op # "sysconfig"
    PROVE  Answer(m, g) \in Reply
  <1>0. ASSUME NEW data \in Data PROVE Gives(data) \in Reply
    BY DEF Gives, Reply
  <1>1. ASSUME NEW label \in {"none", "OK", "ERR:PASS_OR_USERNAME", "HIT", "ERR_WITH_KEY: "}
        PROVE  Says(label) \in Reply
    BY DataTyped DEF Says, Reply
  <1>2. Silent \in Reply
    BY DataTyped DEF Silent, Reply
  <1>3. CASE m.op = "GET"
    <2>1. Answer(m, g) = Gives(g[1])
      BY <1>3, Zenon DEF Answer
    <2> QED BY <1>0, <1>3, <2>1 DEF Enough
  <1>4. CASE m.op = "login"
    <2>1. Answer(m, g) = login(g)
      BY <1>4, Zenon DEF Answer
    <2> QED BY <1>1, <2>1 DEF login
  <1>5. CASE m.op = "count"
    <2>1. Answer(m, g) = count(g)
      BY <1>5, Zenon DEF Answer
    <2> QED BY <1>1, <1>2, <2>1 DEF count
  <1>6. CASE m.op = "direct"
    <2>1. Answer(m, g) = Gives(Holding(Text(g[2])))
      BY <1>6, Zenon DEF Answer, direct
    <2>2. Holding(Text(g[2])) \in Data
      BY <1>6, TextTyped, HoldingTyped DEF Enough
    <2> QED BY <1>0, <2>1, <2>2
  <1>7. CASE m.op = "declassify"
    <2>1. Answer(m, g) = Gives(Scrubbed(g[1]))
      BY <1>7, Zenon DEF Answer, declassify
    <2>2. Scrubbed(g[1]) \in Data
      BY <1>7, DataTyped DEF Enough
    <2> QED BY <1>0, <2>1, <2>2
  <1>8. CASE m.op = "errorf"
    <2>1. Answer(m, g) = Says("ERR_WITH_KEY: ")
      BY <1>8, Zenon DEF Answer, errorf
    <2> QED BY <1>1, <2>1
  <1>9. CASE m.op \notin {"GET", "login", "count", "direct", "declassify", "errorf"}
    <2>1. Answer(m, g) = Silent
      BY <1>9, Zenon DEF Answer
    <2> QED BY <1>2, <2>1
  <1> QED BY <1>3, <1>4, <1>5, <1>6, <1>7, <1>8, <1>9

LEMMA AnswersTyped ==
    ASSUME NEW m \in Message, NEW g, Enough(m, g)
    PROVE  Answers(m, g) \subseteq Reply
  <1>1. CASE m.op = "sysconfig"
    <2>1. Answers(m, g) = sysconfig(m, g)
      BY <1>1, Zenon DEF Answers
    <2>2. Asked(m, g) \in {"SYSTEM_CONFIG", "USER_CONFIG", "undefined"}
      <3> DEFINE text == Text(g[1])
      <3> HIDE DEF text
      <3>1. Asked(m, g) = IF m.domain = System THEN "undefined"
                          ELSE IF text = << >> THEN "USER_CONFIG"
                          ELSE IF Len(text) = 1 /\ text[1] \in Texts THEN Asks[text[1]]
                          ELSE "undefined"
        BY Zenon DEF Asked, text
      <3> QED BY <3>1, AsksAssumption
    <2>3. ASSUME NEW label \in {"SYSTEM_CONFIG", "USER_CONFIG"} PROVE Says(label) \in Reply
      BY DataTyped DEF Says, Reply
    <2>4. ASSUME NEW answer \in sysconfig(m, g) PROVE answer \in Reply
      <3>1. PICK label \in {"SYSTEM_CONFIG", "USER_CONFIG"} : answer = Says(label)
        BY <2>2, <2>4 DEF sysconfig
      <3> QED BY <2>3, <3>1
    <2> QED BY <2>1, <2>4
  <1>2. CASE m.op # "sysconfig"
    <2>1. Answers(m, g) = {Answer(m, g)}
      BY <1>2, Zenon DEF Answers
    <2> QED BY <1>2, <2>1, AnswerTyped
  <1> QED BY <1>1, <1>2

LEMMA SetTyped ==
    ASSUME NEW m \in Message, NEW g, Enough(m, g), Sets(m)
    PROVE  PutOK(SetOf(m, g))
  <1>0. /\ m.domain \in Domain /\ m.addr \in Addresses /\ m.to \in Addresses
        /\ m.piece \in Pieces /\ m.size \in {"whole", "text", "nothing"}
        /\ Public \in Domain
    BY MessageFields DEF Domain
  <1>1. ASSUME NEW d \in Domain, NEW o \in Addresses, NEW data \in Data,
               NEW size \in {"whole", "text", "nothing"}
        PROVE  PutOK(Put(<<d, o>>, data, size))
    BY DEF PutOK, Put
  <1>2. CASE m.op = "SET"
    <2>1. SetOf(m, g) = Put(<<m.domain, m.addr>>, Plain(m.piece), m.size)
      BY <1>2, Zenon DEF SetOf, Own
    <2> QED BY <1>0, <1>1, <2>1, DataTyped
  <1>3. CASE m.op = "mark_private"
    <2>1. SetOf(m, g) = Put(<<m.domain, m.addr>>, Plain(m.piece), "text")
      BY <1>3, Zenon DEF SetOf, mark_private_set, Own
    <2> QED BY <1>0, <1>1, <2>1, DataTyped
  <1>4. CASE m.op = "classify"
    <2>1. SetOf(m, g) = Put(<<m.domain, m.to>>, Joined(g[1], g[2]), "whole")
      BY <1>4, Zenon DEF SetOf, classify_set, Own
    <2>2. Joined(g[1], g[2]) \in Data
      BY <1>4, DataTyped DEF Enough
    <2> QED BY <1>0, <1>1, <2>1, <2>2
  <1>5. CASE m.op = "broadcast"
    <2>1. SetOf(m, g) = Put(<<Public, m.addr>>, Scrubbed(g[1]), "whole")
      BY <1>5, Zenon DEF SetOf, broadcast_set
    <2>2. Scrubbed(g[1]) \in Data
      BY <1>5, DataTyped DEF Enough
    <2> QED BY <1>0, <1>1, <2>1, <2>2
  <1> QED BY <1>2, <1>3, <1>4, <1>5 DEF Sets

(* The messages mean the same to the abstract store.                       *)
LEMMA SamePlaces ==
    ASSUME NEW m, NEW o
    PROVE  Memory!Own(m, o) = Own(m, o) /\ Memory!Key(o) = Key(o)
  BY DEF Own, Memory!Own, Key, Memory!Key, System, Memory!System

LEMMA SameFirstGets ==
    ASSUME NEW m \in Message
    PROVE  Memory!FirstGets(m) = FirstGets(m)
  <1>1. CASE m.op = "GET"
    BY <1>1, SamePlaces, Zenon DEF FirstGets, Memory!FirstGets
  <1>2. CASE m.op = "login"
    BY <1>2, SamePlaces, Zenon DEF FirstGets, Memory!FirstGets, login_gets, Memory!login_gets
  <1>3. CASE m.op = "count"
    BY <1>3, SamePlaces, Zenon DEF FirstGets, Memory!FirstGets, count_gets, Memory!count_gets
  <1>4. CASE m.op = "search"
    BY <1>4, SamePlaces, Zenon DEF FirstGets, Memory!FirstGets, search_gets, Memory!search_gets
  <1>5. CASE m.op = "direct"
    BY <1>5, SamePlaces, Zenon DEF FirstGets, Memory!FirstGets, direct_gets, Memory!direct_gets
  <1>6. CASE m.op = "set_env"
    BY <1>6, SamePlaces, Zenon DEF FirstGets, Memory!FirstGets, set_env_gets, Memory!set_env_gets
  <1>7. CASE m.op = "declassify"
    BY <1>7, SamePlaces, Zenon DEF FirstGets, Memory!FirstGets, declassify_gets, Memory!declassify_gets
  <1>8. CASE m.op = "broadcast"
    BY <1>8, SamePlaces, Zenon DEF FirstGets, Memory!FirstGets, broadcast_gets, Memory!broadcast_gets
  <1>9. CASE m.op = "classify"
    BY <1>9, SamePlaces, Zenon DEF FirstGets, Memory!FirstGets, classify_gets, Memory!classify_gets
  <1>10. CASE m.op = "errorf"
    BY <1>10, SamePlaces, Zenon DEF FirstGets, Memory!FirstGets, errorf_gets, Memory!errorf_gets
  <1>11. CASE m.op = "sysconfig"
    BY <1>11, SamePlaces, Zenon DEF FirstGets, Memory!FirstGets, sysconfig_gets, Memory!sysconfig_gets
  <1>12. CASE m.op \in {"SET", "mark_private"}
    BY <1>12, Zenon DEF FirstGets, Memory!FirstGets
  <1> QED BY MessageFields, <1>1, <1>2, <1>3, <1>4, <1>5, <1>6, <1>7, <1>8, <1>9, <1>10, <1>11, <1>12

LEMMA SameLastGets ==
    ASSUME NEW m, NEW g
    PROVE  Memory!LastGets(m, g) = LastGets(m, g)
  <1>0. ASSUME NEW data PROVE Memory!Pointee(data) = Pointee(data)
    BY DEF Pointee, Memory!Pointee, Objects, Memory!Objects, Beyond, Memory!Beyond
  <1>1. Memory!direct_last(m, g) = direct_last(m, g) /\ Memory!set_env_last(g) = set_env_last(g)
    BY <1>0, SamePlaces, Zenon DEF direct_last, Memory!direct_last, set_env_last, Memory!set_env_last
  <1>2. CASE m.op = "direct"
    BY <1>1, <1>2, Zenon DEF LastGets, Memory!LastGets
  <1>3. CASE m.op = "set_env"
    BY <1>1, <1>3, Zenon DEF LastGets, Memory!LastGets
  <1>4. CASE m.op \notin {"direct", "set_env"}
    BY <1>4, Zenon DEF LastGets, Memory!LastGets
  <1> QED BY <1>2, <1>3, <1>4

LEMMA SameData ==
    /\ Memory!Cleared = Cleared /\ Memory!Silent = Silent
    /\ \A piece : Memory!Plain(piece) = Plain(piece)
    /\ \A data : Memory!Text(data) = Text(data) /\ Memory!Gives(data) = Gives(data)
    /\ \A label : Memory!Says(label) = Says(label)
    /\ \A text : Memory!Holding(text) = Holding(text)
    /\ \A data : Memory!Scrubbed(data) = Scrubbed(data)
    /\ \A data, key : Memory!Joined(data, key) = Joined(data, key)
    /\ \A term, in : Memory!Occurs(term, in) <=> Occurs(term, in)
    /\ \A at, data, size : Memory!Put(at, data, size) = Put(at, data, size)
  <1>1. \A piece : Memory!Plain(piece) = Plain(piece)
    BY DEF Plain, Memory!Plain
  <1>2. Memory!Cleared = Cleared
    BY <1>1 DEF Cleared, Memory!Cleared
  <1>3. Memory!Silent = Silent
    BY <1>2 DEF Silent, Memory!Silent
  <1>4. \A data : Memory!Text(data) = Text(data)
    BY DEF Text, Memory!Text, Objects, Memory!Objects
  <1>5. \A data : Memory!Gives(data) = Gives(data)
    BY DEF Gives, Memory!Gives
  <1>6. \A label : Memory!Says(label) = Says(label)
    BY <1>2 DEF Says, Memory!Says
  <1>7. \A text : Memory!Holding(text) = Holding(text)
    BY DEF Holding, Memory!Holding
  <1>8. \A text, i : Memory!Spared(text, i) = Spared(text, i)
    BY DEF Spared, Memory!Spared, IsSecret, Memory!IsSecret, Secret, Memory!Secret
  <1>9. \A data : Memory!Scrubbed(data) = Scrubbed(data)
    BY <1>4, <1>7, <1>8, Zenon DEF Scrubbed, Memory!Scrubbed
  <1>10. \A data, key : Memory!Joined(data, key) = Joined(data, key)
    BY <1>4, <1>7, Zenon DEF Joined, Memory!Joined
  <1>11. \A term, in : Memory!Occurs(term, in) <=> Occurs(term, in)
    BY Zenon DEF Occurs, Memory!Occurs
  <1>12. \A at, data, size : Memory!Put(at, data, size) = Put(at, data, size)
    BY DEF Put, Memory!Put
  <1> QED BY <1>1, <1>2, <1>3, <1>4, <1>5, <1>6, <1>7, <1>9, <1>10, <1>11, <1>12

LEMMA SameAnswer ==
    ASSUME NEW m, NEW g
    PROVE  Memory!Answer(m, g) = Answer(m, g)
  <1>1. CASE m.op = "GET"
    BY <1>1, SameData, Zenon DEF Answer, Memory!Answer
  <1>2. CASE m.op = "login"
    BY <1>2, SameData, Zenon DEF Answer, Memory!Answer, login, Memory!login
  <1>3. CASE m.op = "count"
    BY <1>3, SameData, Zenon DEF Answer, Memory!Answer, count, Memory!count
  <1>4. CASE m.op = "direct"
    BY <1>4, SameData, Zenon DEF Answer, Memory!Answer, direct, Memory!direct
  <1>5. CASE m.op = "declassify"
    BY <1>5, SameData, Zenon DEF Answer, Memory!Answer, declassify, Memory!declassify
  <1>6. CASE m.op = "errorf"
    BY <1>6, SameData, Zenon DEF Answer, Memory!Answer, errorf, Memory!errorf
  <1>7. CASE m.op \notin {"GET", "login", "count", "direct", "declassify", "errorf"}
    BY <1>7, SameData, Zenon DEF Answer, Memory!Answer
  <1> QED BY <1>1, <1>2, <1>3, <1>4, <1>5, <1>6, <1>7

LEMMA SameAnswers ==
    ASSUME NEW m, NEW g
    PROVE  /\ Memory!Answers(m, g) = Answers(m, g)
           /\ Memory!Undefined(m, g) <=> Undefined(m, g)
  <1>1. Memory!Asked(m, g) = Asked(m, g)
    BY SameData, Zenon DEF Asked, Memory!Asked, System, Memory!System
  <1>2. Memory!sysconfig(m, g) = sysconfig(m, g)
    BY <1>1, SameData, Zenon DEF sysconfig, Memory!sysconfig
  <1>3. Memory!Answers(m, g) = Answers(m, g)
    BY <1>2, SameAnswer, Zenon DEF Answers, Memory!Answers
  <1>4. Memory!Undefined(m, g) <=> Undefined(m, g)
    BY <1>1, Zenon DEF Undefined, Memory!Undefined
  <1> QED BY <1>3, <1>4

LEMMA SameSets ==
    ASSUME NEW m, NEW g
    PROVE  /\ Memory!Sets(m) <=> Sets(m)
           /\ Sets(m) => Memory!SetOf(m, g) = SetOf(m, g)
           /\ \A old, new, size : size \in {"whole", "text", "nothing"} =>
                 Memory!Over(old, new, size) = Over(old, new, size)
  <1>0. Memory!Public = Public
    BY DEF Public, Memory!Public
  <1>1. Memory!Sets(m) <=> Sets(m)
    BY DEF Sets, Memory!Sets
  <1>6. ASSUME Sets(m) PROVE Memory!SetOf(m, g) = SetOf(m, g)
    <2>1. CASE m.op = "SET"
      BY <2>1, SameData, SamePlaces, Zenon DEF SetOf, Memory!SetOf
    <2>2. CASE m.op = "mark_private"
      BY <2>2, SameData, SamePlaces, Zenon DEF SetOf, Memory!SetOf, mark_private_set, Memory!mark_private_set
    <2>3. CASE m.op = "classify"
      BY <2>3, SameData, SamePlaces, Zenon DEF SetOf, Memory!SetOf, classify_set, Memory!classify_set
    <2>4. CASE m.op = "broadcast"
      BY <1>0, <2>4, SameData, Zenon DEF SetOf, Memory!SetOf, broadcast_set, Memory!broadcast_set
    <2> QED BY <1>6, <2>1, <2>2, <2>3, <2>4 DEF Sets
  <1>7. ASSUME NEW old, NEW new, NEW size \in {"whole", "text", "nothing"}
        PROVE  Memory!Over(old, new, size) = Over(old, new, size)
    <2>1. CASE size = "whole"
      BY <2>1, Zenon DEF Over, Memory!Over
    <2>2. CASE size = "text"
      BY <2>2, Zenon DEF Over, Memory!Over
    <2>3. CASE size = "nothing"
      BY <2>3, Zenon DEF Over, Memory!Over
    <2> QED BY <2>1, <2>2, <2>3
  <1> QED BY <1>1, <1>6, <1>7

-----------------------------------------------------------------------------
(* A message under way.                                                    *)

(* What has been got so far is what the first of these places show.        *)
Got(view, places, g) ==
    /\ Len(g) <= Len(places)
    /\ \A i \in 1 .. Len(g) :
          /\ places[i][2] \in Objects
          /\ g[i] = view[<<places[i][1], places[i][2]>>]

(* The function is at its first gets, before its last one, or past it.     *)
Early ==
    /\ Got(View, FirstGets(msg), got)
    /\ Len(got) + Len(todo) = Len(FirstGets(msg))
    /\ \A i \in 1 .. Len(todo) : todo[i] = FirstGets(msg)[Len(got) + i]

Following ==
    /\ Got(View, FirstGets(msg), got) /\ Len(got) = Len(FirstGets(msg))
    /\ todo = LastGets(msg, got) /\ todo # << >>

Followed ==
    \E first \in Seq(Data), last \in Data :
        /\ got = Append(first, last) /\ todo = << >>
        /\ Got(View, FirstGets(msg), first) /\ Len(first) = Len(FirstGets(msg))
        /\ LastGets(msg, first) # << >>
        /\ Got(View, LastGets(msg, first), <<last>>)

Serving ==
    /\ msg \in Messages \cup {NoMessage}
    /\ todo \in Seq(Wanted) /\ got \in Seq(Data)
    /\ reply \in Reply /\ halted \in BOOLEAN
    /\ msg = NoMessage => todo = << >> /\ got = << >>
    /\ msg # NoMessage => Early \/ Following \/ Followed
    /\ Lost => got = << >>

Inductive == CacheOK /\ Serving

LEMMA MessageServed ==
    ASSUME Serving, msg # NoMessage
    PROVE  msg \in Messages /\ msg \in Message
  BY MessagesAssumption DEF Serving

LEMMA ViewTyped ==
    ASSUME CacheOK, NEW d \in Users \cup {System}, NEW o \in Objects
    PROVE  View[<<d, o>>] \in Data
  <1>1. d \in Domain
    BY DEF Domain
  <1>2. Named(system_store, store) /\ cached \in Entry
    BY DEF CacheOK
  <1>3. At(system_store, store, Place(d, o)) \in Entry
    BY <1>1, <1>2, EntryAt
  <1> QED BY <1>2, <1>3, ViewAt, EntryFields

LEMMA ViewStays ==
    ASSUME CacheOK, UNCHANGED cacheVars
    PROVE  CacheOK' /\ View' = View /\ Lost' = Lost
  <1>0. UNCHANGED <<system_store, store, cached, cache_ptr, cache_dirty>>
    BY DEF cacheVars
  <1>1. CacheOK'
    BY <1>0 DEF CacheOK, Named
  <1>2. \A d \in Users \cup {System}, o \in Objects : View'[<<d, o>>] = View[<<d, o>>]
    BY <1>0, <1>1, ViewAt, ViewAtNext
  <1>3. Lost' = Lost
    BY <1>0 DEF Lost
  <1> QED BY <1>1, <1>2, <1>3, SameView

(* One get, from the cache or not, takes the message on.                   *)
LEMMA GetKeeps ==
    ASSUME Inductive, todo # << >>, Head(todo)[2] \in Objects, View' = View,
           got' = Append(got, View[<<Head(todo)[1], Head(todo)[2]>>]),
           todo' = Tail(todo), UNCHANGED <<msg, reply, halted>>, ~ Lost'
    PROVE  Serving'
  <1> DEFINE F == FirstGets(msg)
             w == Head(todo)
             x == View[<<w[1], w[2]>>]
  <1>0. /\ todo \in Seq(Wanted) /\ got \in Seq(Data) /\ msg # NoMessage
        /\ Len(todo) \in Nat \ {0} /\ Len(got) \in Nat
        /\ Head(todo) \in Wanted /\ Head(todo) = todo[1]
    BY EmptySeq, LenProperties, HeadTailProperties DEF Inductive, Serving
  <1>1. x \in Data
    <2>1. w[1] \in Users \cup {System}
      BY <1>0 DEF Wanted
    <2> QED BY <2>1, ViewTyped DEF Inductive
  <1>2. /\ todo' \in Seq(Wanted) /\ Len(todo') = Len(todo) - 1
        /\ \A i \in 1 .. Len(todo') : todo'[i] = todo[i + 1]
    BY <1>0, HeadTailProperties
  <1>3. /\ got' \in Seq(Data) /\ Len(got') = Len(got) + 1
        /\ \A i \in 1 .. Len(got) : got'[i] = got[i]
        /\ got'[Len(got) + 1] = x
    BY <1>0, <1>1, AppendProperties
  <1>4. Early \/ Following \/ Followed
    BY <1>0 DEF Inductive, Serving
  <1>5. msg \in Message /\ F \in Seq(Wanted) /\ Len(F) \in Nat
    BY <1>0, MessageServed, FirstGetsTyped, LenProperties DEF Inductive
  <1>6. CASE Early
    <2>0. /\ Len(got) + Len(todo) = Len(F)
          /\ \A i \in 1 .. Len(todo) : todo[i] = F[Len(got) + i]
          /\ \A i \in 1 .. Len(got) :
                F[i][2] \in Objects /\ got[i] = View[<<F[i][1], F[i][2]>>]
      BY <1>6 DEF Early, Got
    <2> HIDE DEF F, x
    <2>1. w = F[Len(got) + 1]
      BY <1>0, <2>0
    <2>2. ASSUME NEW i \in 1 .. Len(got')
          PROVE  F[i][2] \in Objects /\ got'[i] = View[<<F[i][1], F[i][2]>>]
      <3>1. CASE i \in 1 .. Len(got)
        BY <1>3, <2>0, <3>1
      <3>2. CASE i = Len(got) + 1
        BY <1>3, <2>1, <3>2 DEF x
      <3> QED BY <1>0, <1>3, <3>1, <3>2
    <2>3. Len(got') + Len(todo') = Len(F) /\ Len(got') <= Len(F)
      BY <1>0, <1>2, <1>3, <1>5, <2>0
    <2>4. \A i \in 1 .. Len(todo') : todo'[i] = F[Len(got') + i]
      BY <1>0, <1>2, <1>3, <2>0
    <2>5. Early'
      BY <2>2, <2>3, <2>4 DEF Early, Got, F
    <2> QED BY <1>0, <1>2, <1>3, <2>5 DEF Inductive, Serving
  <1>7. CASE Following
    <2>0. /\ Got(View, F, got) /\ Len(got) = Len(F) /\ todo = LastGets(msg, got)
          /\ LastGets(msg, got) # << >>
      BY <1>7 DEF Following
    <2>1. Len(todo) = 1
      BY <1>0, <1>5, <2>0, LastGetsTyped
    <2>2. todo' = << >>
      BY <1>2, <2>1, EmptySeq
    <2>3. Got(View, LastGets(msg, got), <<x>>)
      <3>1. Len(LastGets(msg, got)) = 1 /\ LastGets(msg, got)[1] = w
        BY <1>0, <2>0, <2>1
      <3>2. w[2] \in Objects /\ x = View[<<w[1], w[2]>>]
        OBVIOUS
      <3> HIDE DEF x, w
      <3>3. Len(<<x>>) = 1 /\ <<x>>[1] = x
        BY SMT
      <3>4. ASSUME NEW i \in 1 .. 1
            PROVE  /\ LastGets(msg, got)[i][2] \in Objects
                   /\ <<x>>[i] = View[<<LastGets(msg, got)[i][1], LastGets(msg, got)[i][2]>>]
        <4>1. i = 1
          OBVIOUS
        <4> QED BY <3>1, <3>2, <3>3, <4>1
      <3>5. Len(<<x>>) <= Len(LastGets(msg, got)) /\ Len(<<x>>) = 1
        BY <3>1, <3>3
      <3> QED BY <3>4, <3>5, Zenon DEF Got
    <2>4. got' = Append(got, x)
      OBVIOUS
    <2> HIDE DEF x
    <2>5. /\ got' = Append(got, x) /\ todo' = << >> /\ msg' = msg /\ View' = View
          /\ Got(View, FirstGets(msg), got) /\ Len(got) = Len(FirstGets(msg))
          /\ LastGets(msg, got) # << >> /\ Got(View, LastGets(msg, got), <<x>>)
          /\ got \in Seq(Data) /\ x \in Data
      BY <1>0, <1>1, <2>0, <2>2, <2>3, <2>4
    <2>6. Followed'
      BY <2>5, Zenon DEF Followed
    <2> QED BY <1>0, <1>2, <1>3, <2>6 DEF Inductive, Serving
  <1>8. CASE Followed
    BY <1>0, <1>8 DEF Followed
  <1> QED BY <1>4, <1>6, <1>7, <1>8

-----------------------------------------------------------------------------
(* The steps, and what the users see of them.                              *)

seen == <<View, msg, reply, Lost, halted>>

LEMMA ReceiveKeeps ==
    ASSUME Inductive, NEW m \in Messages, Receive(m)
    PROVE  Inductive' /\ Memory!Ask(m)
  <1>0. /\ ~ halted /\ msg = NoMessage /\ reply' = Silent
        /\ UNCHANGED <<system_store, store, cached, cache_ptr, cache_dirty, got>>
        /\ IF Rejected(m) THEN halted' = TRUE /\ UNCHANGED <<msg, todo>>
           ELSE msg' = m /\ todo' = FirstGets(m) /\ UNCHANGED halted
    BY DEF Receive, cacheVars
  <1>1. CacheOK' /\ View' = View /\ Lost' = Lost
    BY <1>0, ViewStays DEF cacheVars, Inductive
  <1>2. /\ got = << >> /\ todo = << >> /\ got \in Seq(Data) /\ halted \in BOOLEAN
        /\ m \in Message
    BY <1>0, MessagesAssumption DEF Inductive, Serving
  <1>3. Silent \in Reply
    BY DataTyped DEF Silent, Reply
  <1>4. CASE Rejected(m)
    <2>1. Serving'
      BY <1>0, <1>1, <1>2, <1>3, <1>4, EmptySeq DEF Inductive, Serving
    <2> QED BY <1>1, <2>1, <1>0, <1>4, SameData
            DEF Inductive, Memory!Ask, Memory!Rejected, Rejected, Memory!NoMessage, NoMessage, Memory!Beyond, Beyond
  <1>5. CASE ~ Rejected(m)
    <2>0. msg' = m /\ todo' = FirstGets(m) /\ UNCHANGED halted /\ got' = << >>
      BY <1>0, <1>2, <1>5
    <2>1. FirstGets(m) \in Seq(Wanted) /\ m # NoMessage
      BY <1>2, FirstGetsTyped, MessageFields
    <2>2. Len(<< >>) = 0 /\ Len(FirstGets(m)) \in Nat /\ << >> \in Seq(Data)
      BY <2>1, EmptySeq, LenProperties
    <2>3. Early'
      <3> DEFINE F == FirstGets(m)
      <3>1. msg' = m /\ todo' = F /\ got' = << >> /\ Len(F) \in Nat /\ Len(<< >>) = 0
        BY <2>0, <2>2
      <3> HIDE DEF F
      <3>2. Got(View', F, << >>)
        BY <3>1 DEF Got
      <3>3. Len(<< >>) + Len(F) = Len(F) /\ \A i \in 1 .. Len(F) : F[i] = F[Len(<< >>) + i]
        BY <3>1
      <3> QED BY <3>1, <3>2, <3>3 DEF Early, F
    <2>4. Serving'
      BY <1>0, <1>2, <1>3, <2>0, <2>1, <2>2, <2>3 DEF Serving
    <2>5. Memory!Ask(m)
      BY <1>0, <1>1, <1>5, <2>0, SameData
         DEF Memory!Ask, Memory!Rejected, Rejected, Memory!NoMessage, NoMessage, Memory!Beyond, Beyond
    <2> QED BY <1>1, <2>4, <2>5 DEF Inductive
  <1> QED BY <1>4, <1>5

LEMMA NextGet ==
    ASSUME Inductive, todo # << >>
    PROVE  /\ msg # NoMessage /\ Head(todo)[1] \in Users \cup {System} /\ Head(todo)[2] \in Addresses
           /\ Head(todo)[1] \in Domain
  <1>1. Head(todo) \in Wanted
    BY HeadTailProperties DEF Inductive, Serving
  <1> QED BY <1>1 DEF Wanted, Domain, Inductive, Serving

LEMMA GetHitKeeps ==
    ASSUME Inductive, GetHit
    PROVE  Inductive' /\ UNCHANGED seen
  <1> DEFINE d == Head(todo)[1]
             o == Head(todo)[2]
  <1>0. /\ todo # << >> /\ Hit(d, o)
        /\ got' = Append(got, cached.data) /\ todo' = Tail(todo)
        /\ UNCHANGED <<system_store, store, cached, cache_ptr, cache_dirty, msg, reply, halted>>
    BY DEF GetHit, cacheVars
  <1>1. CacheOK' /\ View' = View /\ Lost' = Lost
    BY <1>0, ViewStays DEF cacheVars, Inductive
  <1>2. d \in Users \cup {System} /\ o \in Addresses /\ d \in Domain
    BY <1>0, NextGet
  <1>3. o \in Objects /\ cached.data = View[<<d, o>>]
    BY <1>0, <1>2, HitIsView DEF Inductive
  <1>4. ~ Lost
    BY <1>0 DEF Lost, Hit
  <1>5. Serving'
    BY <1>0, <1>1, <1>3, <1>4, GetKeeps
  <1> QED BY <1>0, <1>1, <1>5 DEF Inductive, seen

(* What was got at these places is what the memory shows there.            *)
LEMMA ReadsAre ==
    ASSUME NEW places \in Seq(Wanted), NEW g \in Seq(Data),
           Got(View, places, g), Len(g) = Len(places)
    PROVE  Memory!Exist(places) /\ Memory!Read(places) = g
  <1>0. /\ DOMAIN places = 1 .. Len(places) /\ Len(places) \in Nat
        /\ DOMAIN g = 1 .. Len(places) /\ g = [i \in 1 .. Len(places) |-> g[i]]
    BY LenProperties
  <1>1. ASSUME NEW i \in 1 .. Len(places)
        PROVE  /\ places[i][2] \in Objects /\ g[i] = View[<<places[i][1], places[i][2]>>]
               /\ Memory!Home(places[i][1]) = places[i][1]
    <2>1. places[i] \in Wanted
      BY ElementOfSeq
    <2>2. places[i][1] # Public
      BY <2>1, Sizes DEF Wanted, System, Public
    <2> QED BY <2>2 DEF Got, Memory!Home, Memory!Public, Public
  <1>2. Memory!Exist(places)
    BY <1>0, <1>1 DEF Memory!Exist, Memory!Objects, Objects
  <1>3. Memory!Read(places) = [i \in 1 .. Len(places) |-> View[<<Memory!Home(places[i][1]), places[i][2]>>]]
    BY <1>0 DEF Memory!Read
  <1>4. \A i \in 1 .. Len(places) : View[<<Memory!Home(places[i][1]), places[i][2]>>] = g[i]
    BY <1>1
  <1>5. Memory!Read(places) = [i \in 1 .. Len(places) |-> g[i]]
    BY <1>3, <1>4, Zenon
  <1> QED BY <1>0, <1>2, <1>5

(* A get of an object that does not exist is one the message asks for.     *)
LEMMA NoSuchPlace ==
    ASSUME Inductive, todo # << >>, Head(todo)[2] \notin Objects
    PROVE  \/ ~ Memory!Exist(Memory!FirstGets(msg))
           \/ /\ Memory!Exist(Memory!FirstGets(msg))
              /\ ~ Memory!Exist(Memory!LastGets(msg, Memory!Read(Memory!FirstGets(msg))))
  <1>0. /\ msg # NoMessage /\ todo \in Seq(Wanted) /\ got \in Seq(Data)
        /\ Len(todo) \in Nat \ {0} /\ Len(got) \in Nat /\ Head(todo) = todo[1]
        /\ DOMAIN todo = 1 .. Len(todo)
        /\ Early \/ Following \/ Followed
    BY EmptySeq, LenProperties DEF Inductive, Serving
  <1>1. msg \in Message
    BY <1>0, MessageServed DEF Inductive
  <1>2. /\ Memory!FirstGets(msg) = FirstGets(msg) /\ FirstGets(msg) \in Seq(Wanted)
        /\ DOMAIN FirstGets(msg) = 1 .. Len(FirstGets(msg)) /\ Len(FirstGets(msg)) \in Nat
    BY <1>1, SameFirstGets, FirstGetsTyped, LenProperties
  <1>3. ASSUME NEW places, NEW i \in DOMAIN places, places[i][2] \notin Objects
        PROVE  ~ Memory!Exist(places)
    BY <1>3 DEF Memory!Exist, Memory!Objects, Objects
  <1>4. CASE Early
    <2>1. Len(got) + 1 \in 1 .. Len(FirstGets(msg)) /\ FirstGets(msg)[Len(got) + 1] = todo[1]
      <3>1. /\ Len(got) + Len(todo) = Len(FirstGets(msg))
            /\ \A i \in 1 .. Len(todo) : todo[i] = FirstGets(msg)[Len(got) + i]
        BY <1>4 DEF Early
      <3>2. 1 \in 1 .. Len(todo)
        BY <1>0
      <3>3. todo[1] = FirstGets(msg)[Len(got) + 1]
        BY <3>1, <3>2
      <3>4. Len(got) + 1 \in 1 .. Len(FirstGets(msg))
        BY <1>0, <1>2, <3>1
      <3> QED BY <3>3, <3>4
    <2>2. ~ Memory!Exist(FirstGets(msg))
      BY <1>0, <1>2, <1>3, <2>1
    <2> QED BY <1>2, <2>2
  <1>5. CASE Following
    <2>1. /\ Got(View, FirstGets(msg), got) /\ Len(got) = Len(FirstGets(msg))
          /\ todo = LastGets(msg, got)
      BY <1>5 DEF Following
    <2>2. Memory!Exist(FirstGets(msg)) /\ Memory!Read(FirstGets(msg)) = got
      BY <1>0, <1>2, <2>1, ReadsAre
    <2>3. 1 \in DOMAIN todo
      BY <1>0
    <2>4. ~ Memory!Exist(todo)
      BY <1>0, <1>3, <2>3
    <2>5. Memory!LastGets(msg, got) = todo
      BY <2>1, SameLastGets
    <2> QED BY <1>2, <2>2, <2>4, <2>5
  <1>6. CASE Followed
    BY <1>6 DEF Followed
  <1> QED BY <1>0, <1>4, <1>5, <1>6

LEMMA GetMissKeeps ==
    ASSUME Inductive, GetMiss
    PROVE  Inductive' /\ (Memory!Stop \/ UNCHANGED seen)
  <1> DEFINE d == Head(todo)[1]
             o == Head(todo)[2]
             target == Find(SystemBack, StoreBack, d, o)
  <1>0. ~ halted /\ todo # << >> /\ ~ Hit(d, o) /\ UNCHANGED <<msg, reply>>
    BY DEF GetMiss
  <1>1. d \in Users \cup {System} /\ o \in Addresses /\ d \in Domain /\ msg # NoMessage
    BY <1>0, NextGet
  <1>2. target = Place(d, o)
    BY <1>1, BackKeeps, FindIs DEF Inductive
  <1>3. CASE Lost \/ target = NULL
    <2>0. halted' = TRUE /\ UNCHANGED <<system_store, store, cached, cache_ptr, cache_dirty, todo, got>>
      BY <1>3 DEF GetMiss, cacheVars
    <2>1. CacheOK' /\ View' = View /\ Lost' = Lost
      BY <2>0, ViewStays DEF cacheVars, Inductive
    <2>2. Serving'
      <3>1. (Early \/ Following \/ Followed)'
        BY <1>0, <1>1, <2>0, <2>1 DEF Inductive, Serving, Early, Following, Followed
      <3> QED BY <1>0, <2>0, <2>1, <3>1 DEF Inductive, Serving
    <2>3. Lost \/ o \notin Objects
      BY <1>1, <1>2, <1>3, PlaceBeyond, Sizes
    <2>4. Memory!Stop
      <3>1. msg # Memory!NoMessage
        BY <1>1 DEF NoMessage, Memory!NoMessage
      <3> QED BY <1>0, <2>0, <2>1, <2>3, <3>1, NoSuchPlace DEF Memory!Stop
    <2> QED BY <2>1, <2>2, <2>4 DEF Inductive
  <1>4. CASE ~(Lost \/ target = NULL)
    <2> DEFINE entry == At(SystemBack, StoreBack, Place(d, o))
    <2>0. /\ system_store' = SystemBack /\ store' = StoreBack
          /\ cache_dirty' = FALSE /\ cache_ptr' = Place(d, o) /\ cached' = entry
          /\ got' = Append(got, entry.data) /\ todo' = Tail(todo) /\ UNCHANGED halted
      BY <1>2, <1>4 DEF GetMiss
    <2>1. o \in Objects
      BY <1>1, <1>2, <1>4, PlaceBeyond, Sizes
    <2>2. CacheOK' /\ View' = View /\ cached'.data = View[<<d, o>>]
      BY <1>1, <2>0, <2>1, MissKeeps DEF Inductive
    <2>3. ~ Lost' /\ ~ Lost
      BY <1>4, <2>0 DEF Lost
    <2>4. Serving'
      BY <1>0, <2>0, <2>1, <2>2, <2>3, GetKeeps
    <2>5. Lost' = Lost
      BY <2>3 DEF Lost
    <2> QED BY <1>0, <2>0, <2>2, <2>4, <2>5 DEF Inductive, seen
  <1> QED BY <1>3, <1>4

LEMMA FollowKeeps ==
    ASSUME Inductive, Follow
    PROVE  Inductive' /\ UNCHANGED seen
  <1>0. /\ ~ halted /\ msg # NoMessage /\ todo = << >>
        /\ Len(got) = Len(FirstGets(msg)) /\ LastGets(msg, got) # << >>
        /\ todo' = LastGets(msg, got)
        /\ UNCHANGED <<system_store, store, cached, cache_ptr, cache_dirty, msg, got, reply, halted>>
    BY DEF Follow, cacheVars
  <1>1. CacheOK' /\ View' = View /\ Lost' = Lost
    BY <1>0, ViewStays DEF cacheVars, Inductive
  <1>2. msg \in Message
    BY <1>0, MessageServed DEF Inductive
  <1>3. LastGets(msg, got) \in Seq(Wanted)
    BY <1>2, LastGetsTyped
  <1>4. Got(View, FirstGets(msg), got)
    <2>1. ~ Following
      BY <1>0 DEF Following
    <2>2. ASSUME Followed PROVE FALSE
      <3>1. PICK first \in Seq(Data), last \in Data :
               got = Append(first, last) /\ Len(first) = Len(FirstGets(msg))
        BY <2>2 DEF Followed
      <3>2. Len(got) = Len(first) + 1 /\ Len(first) \in Nat
        BY <3>1, AppendProperties, LenProperties
      <3> QED BY <1>0, <3>1, <3>2
    <2> QED BY <1>0, <2>1, <2>2 DEF Inductive, Serving, Early
  <1>5. Following'
    BY <1>0, <1>1, <1>4 DEF Following
  <1>6. Serving'
    BY <1>0, <1>1, <1>3, <1>5 DEF Inductive, Serving
  <1> QED BY <1>0, <1>1, <1>6 DEF Inductive, seen

(* A message with nothing left to get has got what the memory shows.       *)
LEMMA AllGot ==
    ASSUME Inductive, msg # NoMessage, todo = << >>,
           Len(got) = Len(FirstGets(msg)) => LastGets(msg, got) = << >>
    PROVE  /\ msg \in Message /\ Enough(msg, got)
           /\ Memory!Exist(FirstGets(msg))
           /\ Memory!Exist(LastGets(msg, Memory!Read(FirstGets(msg))))
           /\ Memory!Read(FirstGets(msg)) \o Memory!Read(LastGets(msg, Memory!Read(FirstGets(msg)))) = got
           /\ Lost => Sets(msg)
  <1>0. /\ msg \in Message /\ got \in Seq(Data) /\ Len(got) \in Nat
        /\ Early \/ Followed
    BY MessageServed, LenProperties DEF Inductive, Serving, Following
  <1>1. /\ FirstGets(msg) \in Seq(Wanted) /\ Len(FirstGets(msg)) \in Nat
        /\ FirstGets(msg) = << >> <=> msg.op \in {"SET", "mark_private"}
    BY <1>0, FirstGetsTyped, LenProperties
  <1>2. PICK first \in Seq(Data), rest \in Seq(Data) :
           /\ got = first \o rest
           /\ Got(View, FirstGets(msg), first) /\ Len(first) = Len(FirstGets(msg))
           /\ Got(View, LastGets(msg, first), rest) /\ Len(rest) = Len(LastGets(msg, first))
    <2>0. Len(<< >>) = 0 /\ << >> \in Seq(Data)
      BY EmptySeq
    <2>1. CASE Early
      <3>1. Got(View, FirstGets(msg), got) /\ Len(got) = Len(FirstGets(msg))
        BY <1>0, <1>1, <2>0, <2>1 DEF Early
      <3>2. LastGets(msg, got) = << >>
        BY <3>1
      <3>3. Got(View, << >>, << >>)
        BY <2>0 DEF Got
      <3>4. got = got \o << >>
        BY <1>0, ConcatEmptySeq
      <3> QED BY <1>0, <2>0, <3>1, <3>2, <3>3, <3>4
    <2>2. CASE Followed
      <3>1. PICK first \in Seq(Data), last \in Data :
               /\ got = Append(first, last)
               /\ Got(View, FirstGets(msg), first) /\ Len(first) = Len(FirstGets(msg))
               /\ LastGets(msg, first) # << >>
               /\ Got(View, LastGets(msg, first), <<last>>)
        BY <2>2 DEF Followed
      <3>2. /\ <<last>> \in Seq(Data) /\ Len(<<last>>) = 1
            /\ Append(first, last) = first \o <<last>>
        BY AppendIsConcat, ShortTuples
      <3>3. Len(LastGets(msg, first)) = 1
        BY <1>0, <3>1, LastGetsTyped
      <3> QED BY <3>1, <3>2, <3>3
    <2> QED BY <1>0, <2>1, <2>2
  <1>3. Memory!Exist(FirstGets(msg)) /\ Memory!Read(FirstGets(msg)) = first
    BY <1>1, <1>2, ReadsAre
  <1>4. LastGets(msg, first) \in Seq(Wanted)
    BY <1>0, LastGetsTyped
  <1>5. Memory!Exist(LastGets(msg, first)) /\ Memory!Read(LastGets(msg, first)) = rest
    BY <1>2, <1>4, ReadsAre
  <1>6. /\ Len(got) = Len(first) + Len(rest) /\ Len(first) \in Nat /\ Len(rest) \in Nat
        /\ \A i \in 1 .. Len(got) : got[i] \in Data
    BY <1>0, <1>2, ConcatProperties, LenProperties, ElementOfSeq
  <1>7. Enough(msg, got)
    <2>1. ASSUME msg.op \in {"GET", "direct", "declassify", "broadcast", "classify"}
          PROVE  Len(got) >= 1
      <3>1. FirstGets(msg) # << >>
        BY <1>1, <2>1
      <3>2. Len(FirstGets(msg)) # 0
        BY <1>1, <3>1, EmptySeq
      <3> QED BY <1>1, <1>2, <1>6, <3>2
    <2>2. ASSUME msg.op = "classify" PROVE Len(got) >= 2
      <3>1. FirstGets(msg) = <<Own(msg, msg.addr), Key(0)>>
        BY <2>2, FirstGetsIs DEF classify_gets
      <3>2. Len(FirstGets(msg)) = 2
        BY <3>1
      <3> QED BY <1>2, <1>6, <3>2
    <2>3. ASSUME msg.op = "direct" PROVE Len(got) >= 2
      <3>1. LastGets(msg, first) = <<direct_last(msg, first)>>
        BY <2>3, LastGetsIs
      <3>2. Len(LastGets(msg, first)) = 1
        BY <3>1
      <3>3. Len(got) >= 1
        BY <2>1, <2>3
      <3>4. FirstGets(msg) # << >>
        BY <1>1, <2>3
      <3>5. Len(FirstGets(msg)) # 0
        BY <1>1, <3>4, EmptySeq
      <3> QED BY <1>1, <1>2, <1>6, <3>2, <3>5
    <2> QED BY <1>6, <2>1, <2>2, <2>3 DEF Enough
  <1>8. Lost => Sets(msg)
    <2> SUFFICES ASSUME Lost PROVE Sets(msg)
      OBVIOUS
    <2>1. Len(got) = 0
      BY EmptySeq DEF Inductive, Serving
    <2>2. Len(FirstGets(msg)) = 0
      BY <1>1, <1>2, <1>6, <2>1
    <2>3. FirstGets(msg) = << >>
      BY <1>1, <2>2, EmptySeq
    <2> QED BY <1>1, <2>3 DEF Sets
  <1> QED BY <1>0, <1>2, <1>3, <1>5, <1>7, <1>8

LEMMA FinishKeeps ==
    ASSUME Inductive, Finish
    PROVE  Inductive' /\ (Memory!Serve \/ Memory!Stop)
  <1> DEFINE put == SetOf(msg, got)
             first == Memory!Read(FirstGets(msg))
  <1>0. /\ ~ halted /\ msg # NoMessage /\ todo = << >>
        /\ Len(got) = Len(FirstGets(msg)) => LastGets(msg, got) = << >>
        /\ IF Sets(msg) THEN SetHit(put) \/ SetMiss(put) ELSE UNCHANGED <<cacheVars, halted>>
        /\ IF halted' THEN UNCHANGED <<msg, reply, got>>
           ELSE msg' = NoMessage /\ reply' \in Answers(msg, got) /\ got' = << >>
        /\ UNCHANGED todo
    BY DEF Finish
  <1>1. /\ msg \in Message /\ Enough(msg, got)
        /\ Memory!Exist(FirstGets(msg)) /\ Memory!Exist(LastGets(msg, first))
        /\ first \o Memory!Read(LastGets(msg, first)) = got
        /\ Lost => Sets(msg)
    BY <1>0, AllGot
  <1>2. Answers(msg, got) \subseteq Reply
    BY <1>1, AnswersTyped
  <1>3. /\ Memory!FirstGets(msg) = FirstGets(msg)
        /\ Memory!LastGets(msg, first) = LastGets(msg, first)
        /\ Memory!Answers(msg, got) = Answers(msg, got)
        /\ Memory!Sets(msg) <=> Sets(msg)
        /\ Sets(msg) => Memory!SetOf(msg, got) = put
        /\ Memory!NoMessage = NoMessage
    BY <1>1, SameFirstGets, SameLastGets, SameAnswers, SameSets DEF Memory!NoMessage, NoMessage
  <1>4. ASSUME ~ halted', CacheOK', ~ Lost
        PROVE  Serving'
    <2>1. msg' = NoMessage /\ reply' \in Reply /\ got' = << >> /\ todo' = << >>
      BY <1>0, <1>2, <1>4
    <2>2. halted' \in BOOLEAN
      <3>1. halted' = halted
        BY <1>0, <1>4 DEF SetHit, SetMiss
      <3> QED BY <3>1 DEF Inductive, Serving
    <2> QED BY <2>1, <2>2, EmptySeq DEF Serving
  <1>5. ASSUME ~ halted', ~ Lost,
               IF Sets(msg) THEN Memory!Set(put) ELSE View' = View /\ Lost' = Lost
        PROVE  Memory!Serve
    <2>1. UNCHANGED halted
      BY <1>0, <1>5 DEF SetHit, SetMiss
    <2>2. msg' = NoMessage /\ reply' \in Answers(msg, got)
      BY <1>0, <1>5
    <2> HIDE DEF first, put
    <2>3. IF Memory!Sets(msg) THEN Memory!Set(Memory!SetOf(msg, got)) ELSE View' = View /\ Lost' = Lost
      BY <1>3, <1>5
    <2> QED BY <1>0, <1>1, <1>3, <1>5, <2>1, <2>2, <2>3 DEF Memory!Serve, first
  <1>6. CASE ~ Sets(msg)
    <2>0. UNCHANGED cacheVars /\ UNCHANGED halted
      BY <1>0, <1>6
    <2>1. CacheOK' /\ View' = View /\ Lost' = Lost
      BY <2>0, ViewStays DEF Inductive
    <2>2. ~ Lost /\ ~ halted'
      BY <1>0, <1>1, <1>6, <2>0
    <2> QED BY <1>4, <1>5, <1>6, <2>1, <2>2 DEF Inductive
  <1>7. CASE Sets(msg) /\ SetHit(put)
    <2>0. PutOK(put)
      BY <1>1, <1>7, SetTyped
    <2> HIDE DEF put
    <2>1. /\ CacheOK' /\ put.at[2] \in Objects /\ ~ Lost /\ ~ Lost'
          /\ View' = [View EXCEPT ![<<HomeOf(put.at[1]), put.at[2]>>] =
                        Over(View[<<HomeOf(put.at[1]), put.at[2]>>], put.data, put.size)]
      BY <1>7, <2>0, SetHitKeeps DEF Inductive
    <2>2. ~ halted'
      BY <1>0, <1>7 DEF SetHit
    <2>3. Memory!Set(put)
      <3>1. Memory!Over(View[<<HomeOf(put.at[1]), put.at[2]>>], put.data, put.size)
              = Over(View[<<HomeOf(put.at[1]), put.at[2]>>], put.data, put.size)
        BY <2>0, SameSets DEF PutOK
      <3>2. Memory!Home(put.at[1]) = HomeOf(put.at[1])
        BY DEF Memory!Home, HomeOf, Memory!Public, Public
      <3>3. put.at[2] # Memory!Beyond
        BY <2>1, Sizes DEF Memory!Beyond, Beyond
      <3>4. Lost' = Lost
        BY <2>1 DEF Lost
      <3> QED BY <2>1, <3>1, <3>2, <3>3, <3>4, Zenon DEF Memory!Set
    <2> QED BY <1>4, <1>5, <1>7, <2>1, <2>2, <2>3 DEF Inductive
  <1>8. CASE Sets(msg) /\ SetMiss(put) /\ ~ Lost
    <2>0. PutOK(put)
      BY <1>1, <1>8, SetTyped
    <2> HIDE DEF put
    <2>1. /\ CacheOK' /\ UNCHANGED halted
          /\ put.at[2] = Beyond => Lost' /\ View' = View
          /\ put.at[2] # Beyond =>
                /\ ~ Lost' /\ put.at[2] \in Objects
                /\ View' = [View EXCEPT ![<<HomeOf(put.at[1]), put.at[2]>>] =
                              Over(Cleared, put.data, put.size)]
      BY <1>8, <2>0, SetMissKeeps DEF Inductive
    <2>2. ~ halted'
      BY <1>0, <2>1
    <2>3. Memory!Set(put)
      <3>0. Memory!Beyond = Beyond
        BY DEF Memory!Beyond, Beyond
      <3>1. CASE put.at[2] = Beyond
        <4>1. Lost' = TRUE
          BY <2>1, <3>1 DEF Lost
        <4> QED BY <2>1, <3>0, <3>1, <4>1, Zenon DEF Memory!Set
      <3>2. CASE put.at[2] # Beyond
        <4>1. Memory!Over(Memory!Cleared, put.data, put.size) = Over(Cleared, put.data, put.size)
          BY <2>0, SameSets, SameData DEF PutOK
        <4>2. Memory!Home(put.at[1]) = HomeOf(put.at[1])
          BY DEF Memory!Home, HomeOf, Memory!Public, Public
        <4>3. Lost' = Lost
          BY <1>8, <2>1, <3>2 DEF Lost
        <4> QED BY <2>1, <3>0, <3>2, <4>1, <4>2, <4>3, Zenon DEF Memory!Set
      <3> QED BY <3>1, <3>2
    <2> QED BY <1>4, <1>5, <1>8, <2>1, <2>2, <2>3 DEF Inductive
  <1>9. CASE Sets(msg) /\ SetMiss(put) /\ Lost
    <2>0. halted' = TRUE /\ UNCHANGED cacheVars
      BY <1>9 DEF SetMiss
    <2>1. CacheOK' /\ View' = View /\ Lost' = Lost
      BY <2>0, ViewStays DEF Inductive
    <2>2. UNCHANGED <<msg, reply, got, todo>>
      BY <1>0, <2>0
    <2>3. Serving'
      <3>1. (Early \/ Following \/ Followed)'
        BY <1>0, <2>1, <2>2 DEF Inductive, Serving, Early, Following, Followed
      <3> QED BY <1>0, <2>0, <2>1, <2>2, <3>1 DEF Inductive, Serving
    <2>4. Memory!Stop
      BY <1>0, <1>3, <1>9, <2>0, <2>1, <2>2 DEF Memory!Stop
    <2> QED BY <2>1, <2>3, <2>4 DEF Inductive
  <1> QED BY <1>0, <1>6, <1>7, <1>8, <1>9

(* The program may end in sysconfig(): the memory's may, too.              *)
LEMMA OverrunKeeps ==
    ASSUME Inductive, Overrun
    PROVE  Inductive' /\ Memory!Stop
  <1> DEFINE first == Memory!Read(FirstGets(msg))
  <1>0. /\ ~ halted /\ msg # NoMessage /\ todo = << >> /\ Undefined(msg, got)
        /\ halted' = TRUE
        /\ UNCHANGED cacheVars /\ UNCHANGED <<msg, todo, got, reply>>
    BY DEF Overrun
  <1>1. msg \in Message /\ msg.op = "sysconfig"
    BY <1>0, MessageServed DEF Undefined, Inductive
  <1>2. LastGets(msg, got) = << >>
    BY <1>1, LastGetsIs
  <1>3. /\ Memory!Exist(FirstGets(msg))
        /\ first \o Memory!Read(LastGets(msg, first)) = got
    BY <1>0, <1>2, AllGot
  <1>4. CacheOK' /\ View' = View /\ Lost' = Lost
    BY <1>0, ViewStays DEF Inductive
  <1>5. Serving'
    <2>1. (Early \/ Following \/ Followed)'
      BY <1>0, <1>4 DEF Inductive, Serving, Early, Following, Followed
    <2> QED BY <1>0, <1>4, <2>1 DEF Inductive, Serving
  <1>6. /\ Memory!FirstGets(msg) = FirstGets(msg)
        /\ Memory!LastGets(msg, first) = LastGets(msg, first)
        /\ Memory!Undefined(msg, got)
        /\ msg # Memory!NoMessage
    BY <1>0, <1>1, SameFirstGets, SameLastGets, SameAnswers DEF Memory!NoMessage, NoMessage
  <1>7. Memory!Stop
    <2> HIDE DEF first
    <2>1. Memory!Undefined(msg, first \o Memory!Read(Memory!LastGets(msg, first)))
      BY <1>3, <1>6
    <2> QED BY <1>0, <1>3, <1>4, <1>6, <2>1 DEF Memory!Stop, first
  <1> QED BY <1>4, <1>5, <1>7 DEF Inductive

LEMMA StepKeeps ==
    ASSUME Inductive, [Next]_vars
    PROVE  Inductive' /\ [Memory!StoreNext]_seen
  <1>1. CASE UNCHANGED vars
    <2>0. UNCHANGED <<system_store, store, cached, cache_ptr, cache_dirty, msg, todo, got, reply, halted>>
      BY <1>1 DEF vars
    <2>1. CacheOK' /\ View' = View /\ Lost' = Lost
      BY <2>0, ViewStays DEF Inductive, cacheVars
    <2>2. (msg # NoMessage => Early \/ Following \/ Followed)'
      BY <2>0, <2>1 DEF Inductive, Serving, Early, Following, Followed
    <2>3. Serving'
      BY <2>0, <2>1, <2>2 DEF Inductive, Serving
    <2> QED BY <2>0, <2>1, <2>3 DEF Inductive, seen
  <1>2. ASSUME NEW m \in Messages, Receive(m) PROVE Inductive' /\ [Memory!StoreNext]_seen
    BY <1>2, ReceiveKeeps DEF Memory!StoreNext
  <1>3. CASE GetHit
    BY <1>3, GetHitKeeps
  <1>4. CASE GetMiss
    BY <1>4, GetMissKeeps DEF Memory!StoreNext
  <1>5. CASE Follow
    BY <1>5, FollowKeeps
  <1>6. CASE Finish
    BY <1>6, FinishKeeps DEF Memory!StoreNext
  <1>7. CASE Overrun
    BY <1>7, OverrunKeeps DEF Memory!StoreNext
  <1> QED BY <1>1, <1>2, <1>3, <1>4, <1>5, <1>6, <1>7 DEF Next

(* The stores as store_init() leaves them.                                 *)
LEMMA InitKeeps ==
    ASSUME Init
    PROVE  Inductive /\ Memory!StoreInit
  <1> DEFINE begin(p) == Plain(IF p % NDomains = 0 THEN Background ELSE Secret)
  <1>0. /\ cached = [domain |-> System, addr |-> 0, data |-> Cleared]
        /\ cache_ptr = NULL /\ cache_dirty = FALSE
        /\ msg = NoMessage /\ todo = << >> /\ got = << >>
        /\ reply = Silent /\ halted = FALSE
        /\ system_store = [o \in Objects |-> [domain |-> System, addr |-> o, data |-> Plain(Secret)]]
        /\ store = [p \in Slots |-> [domain |-> p % NDomains, addr |-> p \div NDomains,
                                     data |-> begin(p)]]
    BY DEF Init
  <1>1. /\ Plain(Secret) \in Data /\ Plain(Background) \in Data /\ Cleared \in Data
        /\ \A p : begin(p) \in Data
    BY DataTyped DEF Pieces
  <1> HIDE DEF begin
  <1>2. \A o \in Objects : system_store[o] = [domain |-> System, addr |-> o, data |-> Plain(Secret)]
    BY <1>0
  <1>3. \A p \in Slots : store[p] = [domain |-> p % NDomains, addr |-> p \div NDomains, data |-> begin(p)]
    BY <1>0
  <1>4. Named(system_store, store)
    <2>1. ASSUME NEW o \in Objects
          PROVE  [domain |-> System, addr |-> o, data |-> Plain(Secret)] \in Entry
      BY <1>1, Sizes DEF Entry
    <2>2. system_store \in [Objects -> Entry]
      <3> DEFINE rec(o) == [domain |-> System, addr |-> o, data |-> Plain(Secret)]
      <3>1. system_store = [o \in Objects |-> rec(o)]
        BY <1>0
      <3>2. \A o \in Objects : rec(o) \in Entry
        BY <2>1
      <3> HIDE DEF rec
      <3> QED BY <3>1, <3>2, Zenon
    <2>3. ASSUME NEW o \in Objects
          PROVE  system_store[o].addr = o /\ system_store[o].domain < 0
      <3>1. system_store[o] = [domain |-> System, addr |-> o, data |-> Plain(Secret)]
        BY <1>2
      <3>2. system_store[o].addr = o /\ system_store[o].domain = System
        BY <3>1
      <3> QED BY <3>2, Sizes
    <2>4. ASSUME NEW p \in Slots
          PROVE  [domain |-> p % NDomains, addr |-> p \div NDomains, data |-> begin(p)] \in Entry
      <3>1. p % NDomains \in Users /\ p \div NDomains \in Addresses
        BY NameOfSlot, Sizes
      <3> QED BY <1>1, <3>1 DEF Entry
    <2>5. store \in [Slots -> Entry]
      <3> DEFINE rec(p) == [domain |-> p % NDomains, addr |-> p \div NDomains, data |-> begin(p)]
      <3>1. store = [p \in Slots |-> rec(p)]
        BY <1>0
      <3>2. \A p \in Slots : rec(p) \in Entry
        BY <2>4
      <3> HIDE DEF rec
      <3> QED BY <3>1, <3>2, Zenon
    <2>6. ASSUME NEW p \in Slots
          PROVE  store[p].domain = p % NDomains /\ store[p].addr = p \div NDomains
      <3>1. store[p] = [domain |-> p % NDomains, addr |-> p \div NDomains, data |-> begin(p)]
        BY <1>3
      <3> QED BY <3>1
    <2> QED BY <2>2, <2>3, <2>5, <2>6 DEF Named
  <1>5. CacheOK
    <2>1. cached \in Entry
      BY <1>0, <1>1, Sizes DEF Entry
    <2> QED BY <1>0, <1>4, <2>1 DEF CacheOK
  <1>6. ~ Lost
    BY <1>0 DEF Lost
  <1>7. Serving
    <2>1. reply \in Reply
      BY <1>0, <1>1 DEF Silent, Reply
    <2> QED BY <1>0, <1>6, <2>1, EmptySeq DEF Serving
  <1>8. View = [at \in (Users \cup {System}) \X Objects |->
                   IF at[1] \in {System} \cup (Users \ {0}) THEN Plain(Secret) ELSE Plain(Background)]
    <2>1. ASSUME NEW d \in Users \cup {System}, NEW o \in Objects
          PROVE  View[<<d, o>>] = IF d \in {System} \cup (Users \ {0}) THEN Plain(Secret) ELSE Plain(Background)
      <3>1. View[<<d, o>>] = At(system_store, store, Place(d, o)).data
        BY <1>0, <1>5, ViewAt
      <3>2. CASE d = System
        <4>1. Place(d, o) = <<"system", o>>
          BY <3>2, Sizes DEF Place
        <4>2. At(system_store, store, Place(d, o)) = system_store[o]
          BY <4>1 DEF At
        <4>3. system_store[o].data = Plain(Secret)
          <5>1. system_store[o] = [domain |-> System, addr |-> o, data |-> Plain(Secret)]
            BY <1>2
          <5> QED BY <5>1
        <4> QED BY <3>1, <3>2, <4>2, <4>3
      <3>3. CASE d \in Users
        <4>1. ~(d < 0) /\ d # System
          BY <3>3, Sizes
        <4>2. /\ NDomains * o + d \in Slots /\ (NDomains * o + d) % NDomains = d
          BY <3>3, SlotOf
        <4>3. At(system_store, store, Place(d, o)) = store[NDomains * o + d]
          BY <4>1 DEF Place, At
        <4>4. store[NDomains * o + d].data = begin(NDomains * o + d)
          <5> DEFINE p == NDomains * o + d
          <5>1. p \in Slots
            BY <4>2
          <5>2. store[p] = [domain |-> p % NDomains, addr |-> p \div NDomains, data |-> begin(p)]
            BY <1>3, <5>1
          <5> HIDE DEF p
          <5>3. store[p].data = begin(p)
            BY <5>2
          <5> QED BY <5>3 DEF p
        <4>5. begin(NDomains * o + d) = Plain(IF d = 0 THEN Background ELSE Secret)
          BY <4>2, Zenon DEF begin
        <4>6. View[<<d, o>>] = Plain(IF d = 0 THEN Background ELSE Secret)
          BY <3>1, <4>3, <4>4, <4>5
        <4> QED BY <3>3, <4>1, <4>6
      <3> QED BY <3>2, <3>3
    <2> DEFINE D == (Users \cup {System}) \X Objects
               Val(at) == IF at[1] \in {System} \cup (Users \ {0}) THEN Plain(Secret) ELSE Plain(Background)
    <2>2. View = [at \in D |-> View[at]]
      BY DEF View
    <2>3. \A at \in D : View[at] = Val(at)
      BY <2>1
    <2> HIDE DEF D, Val
    <2>4. View = [at \in D |-> Val(at)]
      BY <2>2, <2>3, Zenon
    <2> QED BY <2>4 DEF D, Val
  <1>9. Memory!StoreInit
    <2>1. Memory!Domains = Users \cup {System}
      BY DEF Memory!Domains, Memory!Users, Users, Memory!System, System
    <2>2. View = [at \in Memory!Domains \X Memory!Objects |->
                    IF at[1] \in {Memory!System} \cup (Memory!Users \ {0}) THEN Memory!Plain(Memory!Secret)
                    ELSE IF at[1] = 0 THEN Memory!Plain(Memory!Background) ELSE Memory!Cleared]
      <3> DEFINE D == (Users \cup {System}) \X Objects
                 Val(at) == IF at[1] \in {System} \cup (Users \ {0}) THEN Plain(Secret) ELSE Plain(Background)
                 Val2(at) == IF at[1] \in {System} \cup (Users \ {0}) THEN Plain(Secret)
                             ELSE IF at[1] = 0 THEN Plain(Background) ELSE Cleared
      <3>1. \A at \in D : Val(at) = Val2(at)
        OBVIOUS
      <3>2. View = [at \in D |-> Val(at)]
        BY <1>8
      <3> HIDE DEF Val, Val2
      <3>3. View = [at \in D |-> Val2(at)]
        BY <3>1, <3>2, Zenon
      <3> USE DEF Val2
      <3>4. /\ Memory!Plain(Memory!Secret) = Plain(Secret)
            /\ Memory!Plain(Memory!Background) = Plain(Background)
            /\ Memory!Cleared = Cleared
            /\ Memory!Objects = Objects /\ Memory!Users = Users /\ Memory!System = System
        BY SameData DEF Memory!Secret, Secret, Memory!Background, Background, Memory!Objects, Objects,
                        Memory!Users, Users, Memory!System, System
      <3> QED BY <2>1, <3>3, <3>4, Zenon
    <2>3. msg = Memory!NoMessage /\ reply = Memory!Silent /\ Lost = FALSE /\ halted = FALSE
      BY <1>0, SameData DEF Lost, NoMessage, Memory!NoMessage
    <2> QED BY <2>2, <2>3 DEF Memory!StoreInit
  <1> QED BY <1>5, <1>7, <1>9 DEF Inductive

LEMMA InductiveKept == Spec => []Inductive
  <1>1. Init => Inductive
    BY InitKeeps
  <1>2. Inductive /\ [Next]_vars => Inductive'
    BY StepKeeps
  <1> QED BY <1>1, <1>2, PTL DEF Spec

(* Whatever is stored and however often the cache is evicted: entries keep *)
(* the names of their places, and the cached object belongs to its place   *)
(* and, unless it is dirty, is what is there (cached.c:78-171).            *)
THEOREM CacheCorrect == Spec => []CacheInv
  <1>1. Inductive => CacheInv
    <2> SUFFICES ASSUME Inductive PROVE CacheInv
      OBVIOUS
    <2>1. TypeOK
      BY MessagesAssumption, Zenon DEF Inductive, CacheOK, Named, Serving, Wanted, TypeOK
    <2>2. EntriesKeepNames
      BY DEF Inductive, CacheOK, Named, EntriesKeepNames
    <2>3. CacheIsOfItsPlace
      <3>1. cached.domain \in Domain /\ cached.addr \in Addresses
        BY EntryFields DEF Inductive, CacheOK
      <3>2. Find(system_store, store, cached.domain, cached.addr) = Place(cached.domain, cached.addr)
        BY <3>1, FindIs DEF Inductive, CacheOK
      <3> QED BY <3>2, Zenon DEF Inductive, CacheOK, CacheIsOfItsPlace
    <2> QED BY <2>1, <2>2, <2>3 DEF CacheInv
  <1> QED BY <1>1, InductiveKept, PTL

(* The cached store is a memory: every message is answered as if each      *)
(* domain's objects were read and written in one place in one step, the    *)
(* evictions between the gets of one function notwithstanding              *)
(* (store_get and store_set of cached.c against include/stores.h).         *)
THEOREM CacheIsMemory == Spec => MemorySpec
  <1>1. Init => Memory!StoreInit
    BY InitKeeps
  <1>2. Inductive /\ [Next]_vars => [Memory!StoreNext]_<<View, msg, reply, Lost, halted>>
    BY StepKeeps DEF seen
  <1> QED BY <1>1, <1>2, InductiveKept, PTL DEF Spec, MemorySpec, Memory!StoreSpec, Memory!storeVars

-----------------------------------------------------------------------------
(* Whose texts an object may come to hold.                                 *)

LEMMA NoTextIsZero == 0 \notin Texts
  BY TextsAssumption, SizesAssumption, SMT

LEMMA TextIsOfItsPieces ==
    ASSUME NEW data
    PROVE  Text(data) \in Seq({data.first, data.second})
  <1> DEFINE S == {data.first, data.second}
  <1>1. /\ << >> \in Seq(S) /\ <<data.first>> \in Seq(S)
        /\ <<data.first, data.second>> \in Seq(S)
    BY ShortTuples
  <1> QED BY <1>1, Zenon DEF Text

LEMMA HoldingHolds ==
    ASSUME NEW S, NEW text \in Seq(S)
    PROVE  Holding(text).first \in S \cup {0} /\ Holding(text).second \in S \cup {0}
  <1>1. /\ Len(text) \in Nat
        /\ Len(text) > 0 => text[1] \in S
        /\ Len(text) > 1 => text[2] \in S
    BY LenProperties, ElementOfSeq
  <1> QED BY <1>1 DEF Holding

(* What is copied out of other objects holds their texts and no other.     *)
LEMMA JoinedTexts ==
    ASSUME NEW data, NEW key
    PROVE  TextsOf(Joined(data, key)) \subseteq TextsOf(data) \cup TextsOf(key)
  <1> DEFINE S == {data.first, data.second, key.first, key.second}
             both == Text(data) \o Text(key)
             cutOff == SubSeq(both, 1, IF Len(both) < 2 THEN Len(both) ELSE 2)
  <1>1. Text(data) \in Seq(S) /\ Text(key) \in Seq(S)
    <2>1. {data.first, data.second} \subseteq S /\ {key.first, key.second} \subseteq S
      OBVIOUS
    <2>2. Seq({data.first, data.second}) \subseteq Seq(S) /\ Seq({key.first, key.second}) \subseteq Seq(S)
      BY <2>1, SeqMonotonic
    <2> QED BY <2>2, TextIsOfItsPieces
  <1>2. both \in Seq(S)
    BY <1>1, ConcatProperties
  <1>3. cutOff \in Seq(S)
    <2>1. Len(both) \in Nat
      BY <1>2, LenProperties
    <2>2. CASE Len(both) = 0
      BY <1>2, <2>2, SubSeqProperties, EmptySeq
    <2>3. CASE Len(both) # 0
      BY <1>2, <2>1, <2>3, SubSeqProperties
    <2> QED BY <2>2, <2>3
  <1> HIDE DEF S, cutOff
  <1>4. Holding(cutOff).first \in S \cup {0} /\ Holding(cutOff).second \in S \cup {0}
    BY <1>3, HoldingHolds
  <1>5. Joined(data, key) = Holding(cutOff)
    BY DEF Joined, cutOff
  <1> QED BY <1>4, <1>5, NoTextIsZero DEF TextsOf, S

LEMMA PlainTexts ==
    ASSUME NEW piece
    PROVE  TextsOf(Plain(piece)) \subseteq {piece}
  BY NoTextIsZero DEF TextsOf, Plain

LEMMA OverTexts ==
    ASSUME NEW old, NEW new, NEW size \in {"whole", "text", "nothing"}
    PROVE  TextsOf(Over(old, new, size)) \subseteq TextsOf(old) \cup TextsOf(new)
  <1>1. CASE size = "whole"
    BY <1>1, Zenon DEF Over
  <1>2. CASE size = "nothing"
    BY <1>2, Zenon DEF Over
  <1>3. CASE size = "text"
    <2>1. Over(old, new, size) = [first |-> new.first, second |-> old.second, cut |-> TRUE]
      BY <1>3, Zenon DEF Over
    <2> QED BY <2>1 DEF TextsOf
  <1> QED BY <1>1, <1>2, <1>3

(* A text that is held is held in an object or in the cache.               *)
HeldThere(objects, d) == UNION {TextsOf(objects[p].data) : p \in {q \in Slots : objects[q].domain = d}}
HeldIn(objects, copy, d) ==
    HeldThere(objects, d) \cup (IF copy.domain = d THEN TextsOf(copy.data) ELSE {})

LEMMA HeldInIs ==
    ASSUME NEW objects, NEW copy, NEW d, NEW t
    PROVE  t \in HeldIn(objects, copy, d)
           <=> \/ \E p \in Slots : objects[p].domain = d /\ t \in TextsOf(objects[p].data)
               \/ copy.domain = d /\ t \in TextsOf(copy.data)
  <1>1. t \in HeldThere(objects, d) <=>
          \E p \in Slots : objects[p].domain = d /\ t \in TextsOf(objects[p].data)
    <2>1. ASSUME NEW p \in Slots, objects[p].domain = d, t \in TextsOf(objects[p].data)
          PROVE  t \in HeldThere(objects, d)
      BY <2>1, Zenon DEF HeldThere
    <2>2. ASSUME t \in HeldThere(objects, d)
          PROVE  \E p \in Slots : objects[p].domain = d /\ t \in TextsOf(objects[p].data)
      <3>1. PICK p \in {q \in Slots : objects[q].domain = d} : t \in TextsOf(objects[p].data)
        BY <2>2, Zenon DEF HeldThere
      <3> QED BY <3>1, Zenon
    <2> QED BY <2>1, <2>2
  <1>2. CASE copy.domain = d
    BY <1>1, <1>2, Zenon DEF HeldIn
  <1>3. CASE copy.domain # d
    BY <1>1, <1>3, Zenon DEF HeldIn
  <1> QED BY <1>2, <1>3

LEMMA HeldIs ==
    ASSUME NEW d, NEW t
    PROVE  t \in Held(d) <=> \/ \E p \in Slots : store[p].domain = d /\ t \in TextsOf(store[p].data)
                             \/ cached.domain = d /\ t \in TextsOf(cached.data)
  <1>1. Held(d) = HeldIn(store, cached, d)
    BY Zenon DEF Held, HeldIn, HeldThere
  <1> QED BY <1>1, HeldInIs

LEMMA HeldNextIs ==
    ASSUME NEW d, NEW t
    PROVE  t \in Held(d)' <=> \/ \E p \in Slots : store'[p].domain = d /\ t \in TextsOf(store'[p].data)
                              \/ cached'.domain = d /\ t \in TextsOf(cached'.data)
  <1>1. Held(d)' = HeldIn(store', cached', d)
    BY Zenon DEF Held, HeldIn, HeldThere
  <1> QED BY <1>1, HeldInIs

LEMMA ViewIsHeld ==
    ASSUME CacheOK, NEW d \in Users, NEW o \in Objects, NEW t \in TextsOf(View[<<d, o>>])
    PROVE  t \in Held(d)
  <1>1. d \in Domain /\ ~(d < 0)
    BY Sizes DEF Domain
  <1>2. CASE cache_dirty /\ cache_ptr = Place(d, o)
    <2>1. cached.domain \in Domain /\ cached.addr \in Addresses
      BY EntryFields DEF CacheOK
    <2>2. Place(d, o) = Place(cached.domain, cached.addr)
      BY <1>1, <1>2, PlaceIn DEF CacheOK
    <2>3. cached.domain = d
      BY <1>1, <2>1, <2>2, PlaceOnce
    <2>4. View[<<d, o>>] = cached.data
      BY <1>2, ViewAt
    <2> QED BY <2>3, <2>4, HeldIs
  <1>3. CASE ~(cache_dirty /\ cache_ptr = Place(d, o))
    <2> DEFINE p == NDomains * o + d
    <2>1. p \in Slots /\ p % NDomains = d
      BY SlotOf
    <2>2. At(system_store, store, Place(d, o)) = store[p]
      BY <1>1 DEF Place, At
    <2> HIDE DEF p
    <2>3. store[p].domain = d
      BY <2>1 DEF CacheOK, Named
    <2>4. View[<<d, o>>] = store[p].data
      BY <1>3, <2>2, ViewAt
    <2> QED BY <2>1, <2>3, <2>4, HeldIs
  <1> QED BY <1>2, <1>3

(* A write-back brings no text to a domain that it did not have.           *)
LEMMA BackIsHeld ==
    ASSUME CacheOK, NEW d \in Users, NEW p \in Slots, StoreBack[p].domain = d,
           NEW t \in TextsOf(StoreBack[p].data)
    PROVE  t \in Held(d)
  <1> DEFINE o == p \div NDomains
  <1>1. o \in Objects /\ p = NDomains * o + (p % NDomains)
    BY NameOfSlot
  <1>2. p % NDomains = d
    BY BackKeeps DEF Named
  <1> HIDE DEF o
  <1>3. ~(d < 0)
    BY Sizes
  <1>4. Place(d, o) = <<"store", p>>
    BY <1>1, <1>2, <1>3 DEF Place
  <1>5. View[<<d, o>>] = StoreBack[p].data
    <2>1. View[<<d, o>>] = At(SystemBack, StoreBack, Place(d, o)).data
      BY <1>1, ViewWrittenBack
    <2> QED BY <1>4, <2>1 DEF At
  <1> QED BY <1>1, <1>5, ViewIsHeld

(* What is set in a user's object: his own text, a copy of what he has, or *)
(* the system's first object joined to it.                                 *)
LEMMA SetsOwnTexts ==
    ASSUME Inductive, Finish, Sets(msg), NEW put, put = SetOf(msg, got),
           put.at[1] \in Users, NEW t \in TextsOf(put.data)
    PROVE  \/ Author[t] = put.at[1] \/ t \in Held(put.at[1])
           \/ t \in TextsOf(View[<<System, 0>>])
  <1>0. msg # NoMessage /\ todo = << >>
        /\ (Len(got) = Len(FirstGets(msg)) => LastGets(msg, got) = << >>)
    BY DEF Finish
  <1>1. msg \in Messages /\ msg \in Message
    BY <1>0, MessageServed DEF Inductive
  <1>2. msg.op \in {"SET", "mark_private", "classify", "broadcast"}
    BY DEF Sets
  <1>3. CASE msg.op \in {"SET", "mark_private"}
    <2>1. put.at = <<msg.domain, msg.addr>> /\ put.data = Plain(msg.piece)
      <3>1. CASE msg.op = "SET"
        <4>1. put = Put(<<msg.domain, msg.addr>>, Plain(msg.piece), msg.size)
          BY <3>1, Zenon DEF SetOf, Own
        <4> QED BY <4>1 DEF Put
      <3>2. CASE msg.op = "mark_private"
        <4>1. put = Put(<<msg.domain, msg.addr>>, Plain(msg.piece), "text")
          BY <3>2, Zenon DEF SetOf, mark_private_set, Own
        <4> QED BY <4>1 DEF Put
      <3> QED BY <1>3, <3>1, <3>2
    <2>2. t = msg.piece /\ t \in Texts
      BY <2>1, PlainTexts DEF TextsOf
    <2>3. Author[t] = msg.domain
      BY <1>1, <2>2, AuthorAssumption
    <2> QED BY <2>1, <2>3
  <1>4. CASE msg.op = "classify"
    <2>1. put.at = <<msg.domain, msg.to>> /\ put.data = Joined(got[1], got[2])
      <3>1. put = Put(<<msg.domain, msg.to>>, Joined(got[1], got[2]), "whole")
        BY <1>4, Zenon DEF SetOf, classify_set, Own
      <3> QED BY <3>1 DEF Put
    <2>2. FirstGets(msg) = <<<<msg.domain, msg.addr>>, <<System, 0>>>>
      BY <1>4, FirstGetsIs DEF classify_gets, Own, Key
    <2>3. \A g : LastGets(msg, g) = << >>
      BY <1>4, LastGetsIs
    <2>4. Early
      BY <1>0, <2>3 DEF Inductive, Serving, Following, Followed
    <2>5. Len(got) \in Nat /\ Len(todo) = 0 /\ Len(FirstGets(msg)) = 2
      BY <1>0, <2>2, LenProperties, EmptySeq DEF Inductive, Serving
    <2>6. Len(got) = 2
      BY <2>4, <2>5 DEF Early
    <2>7. /\ got[1] = View[<<msg.domain, msg.addr>>] /\ msg.addr \in Objects
          /\ got[2] = View[<<System, 0>>]
      <3>1. \A i \in 1 .. 2 : /\ FirstGets(msg)[i][2] \in Objects
                              /\ got[i] = View[<<FirstGets(msg)[i][1], FirstGets(msg)[i][2]>>]
        BY <2>4, <2>6 DEF Early, Got
      <3>2. FirstGets(msg)[1] = <<msg.domain, msg.addr>> /\ FirstGets(msg)[2] = <<System, 0>>
        BY <2>2
      <3> QED BY <3>1, <3>2
    <2>8. t \in TextsOf(got[1]) \/ t \in TextsOf(got[2])
      BY <2>1, JoinedTexts
    <2> QED BY <2>1, <2>7, <2>8, ViewIsHeld DEF Inductive
  <1>5. CASE msg.op = "broadcast"
    <2>1. put = Put(<<Public, msg.addr>>, Scrubbed(got[1]), "whole")
      BY <1>5, Zenon DEF SetOf, broadcast_set
    <2>2. put.at[1] = Public
      BY <2>1 DEF Put
    <2> QED BY <2>2, Sizes
  <1> QED BY <1>2, <1>3, <1>4, <1>5

LEMMA TextsStay ==
    ASSUME Inductive, [Next]_vars, NEW d \in Users, NEW t \in Held(d)', t \notin Held(d)
    PROVE  Author[t] = d \/ t \in TextsOf(View[<<System, 0>>])
  <1> USE DEF Inductive
  <1>1. CASE UNCHANGED cacheVars
    <2>1. UNCHANGED <<store, cached>>
      BY <1>1 DEF cacheVars
    <2> QED BY <2>1, HeldIs, HeldNextIs
  <1>2. CASE GetMiss /\ ~ UNCHANGED cacheVars
    <2> DEFINE e == Head(todo)[1]
               o == Head(todo)[2]
    <2>1. /\ ~ Lost /\ Find(SystemBack, StoreBack, e, o) # NULL
          /\ system_store' = SystemBack /\ store' = StoreBack /\ cache_dirty' = FALSE
          /\ cache_ptr' = Find(SystemBack, StoreBack, e, o)
          /\ cached' = At(SystemBack, StoreBack, Find(SystemBack, StoreBack, e, o))
      BY <1>2 DEF GetMiss
    <2>2. e \in Users \cup {System} /\ o \in Addresses /\ e \in Domain
      BY <1>2, NextGet DEF GetMiss
    <2> HIDE DEF e, o
    <2>3. Find(SystemBack, StoreBack, e, o) = Place(e, o)
      BY <2>2, BackKeeps, FindIs
    <2>4. o \in Objects
      BY <2>1, <2>2, <2>3, PlaceBeyond, Sizes
    <2>5. CacheOK' /\ cached'.data = View[<<e, o>>]
      BY <2>1, <2>2, <2>3, <2>4, MissKeeps
    <2>6. CASE cached'.domain = d /\ t \in TextsOf(cached'.data)
      <3>1. cached' \in Entry /\ cache_ptr' # NULL
            /\ (cache_ptr' # NULL => Place(cached'.domain, cached'.addr) = cache_ptr')
        BY <2>1, <2>5 DEF CacheOK
      <3>2. cached'.domain \in Domain /\ cached'.addr \in Addresses
        BY <3>1, EntryFields
      <3>3. Place(e, o) = Place(cached'.domain, cached'.addr)
        BY <2>1, <2>3, <3>1
      <3>4. e = d
        <4>1. e = cached'.domain \/ (e < 0 /\ cached'.domain < 0)
          BY <2>2, <2>4, <3>2, <3>3, PlaceOnce
        <4> QED BY <2>6, <4>1, Sizes
      <3> QED BY <2>4, <2>5, <2>6, <3>4, ViewIsHeld
    <2>7. ASSUME NEW p \in Slots, store'[p].domain = d, t \in TextsOf(store'[p].data)
          PROVE  FALSE
      BY <2>1, <2>7, BackIsHeld
    <2> QED BY <2>6, <2>7, HeldNextIs
  <1>3. CASE Finish /\ ~ UNCHANGED cacheVars
    <2> DEFINE put == SetOf(msg, got)
    <2>1. Sets(msg) /\ (SetHit(put) \/ SetMiss(put))
      BY <1>3 DEF Finish
    <2>2. PutOK(put)
      <3>1. msg \in Message /\ Enough(msg, got)
        BY <1>3, AllGot DEF Finish
      <3> QED BY <2>1, <3>1, SetTyped
    <2>3. put.at[1] \in Users /\ t \in TextsOf(put.data) =>
            \/ Author[t] = put.at[1] \/ t \in Held(put.at[1]) \/ t \in TextsOf(View[<<System, 0>>])
      BY <1>3, <2>1, SetsOwnTexts
    <2>4. put.size \in {"whole", "text", "nothing"}
      BY <2>2 DEF PutOK
    <2> HIDE DEF put
    <2>5. CASE SetHit(put)
      <3>1. /\ store' = store /\ cached.domain = put.at[1]
            /\ cached' = [cached EXCEPT !.data = Over(cached.data, put.data, put.size)]
        BY <2>5 DEF SetHit, Hit
      <3>2. cached'.domain = put.at[1] /\ cached'.data = Over(cached.data, put.data, put.size)
        BY <3>1 DEF CacheOK, Entry
      <3>3. cached'.domain = d /\ t \in TextsOf(cached'.data)
        BY <3>1, HeldIs, HeldNextIs
      <3>4. t \in TextsOf(cached.data) \/ t \in TextsOf(put.data)
        BY <2>4, <3>2, <3>3, OverTexts
      <3>5. t \notin TextsOf(cached.data)
        BY <3>1, <3>2, <3>3, HeldIs
      <3> QED BY <2>3, <3>2, <3>3, <3>4, <3>5
    <2>6. CASE SetMiss(put)
      <3>1. /\ store' = StoreBack
            /\ cached' = [domain |-> put.at[1], addr |-> put.at[2],
                          data |-> Over(Cleared, put.data, put.size)]
        BY <1>3, <2>6 DEF SetMiss
      <3>2. cached'.domain = put.at[1] /\ cached'.data = Over(Cleared, put.data, put.size)
        BY <3>1
      <3>3. \A p \in Slots : store'[p].domain = d => t \notin TextsOf(store'[p].data)
        BY <3>1, BackIsHeld
      <3>4. cached'.domain = d /\ t \in TextsOf(cached'.data)
        BY <3>3, HeldNextIs
      <3>5. t \in TextsOf(Cleared) \/ t \in TextsOf(put.data)
        BY <2>4, <3>2, <3>4, OverTexts
      <3>6. TextsOf(Cleared) = {}
        BY NoTextIsZero DEF TextsOf, Cleared, Plain
      <3> QED BY <2>3, <3>2, <3>4, <3>5, <3>6
    <2> QED BY <2>1, <2>5, <2>6
  <1>4. GetHit \/ Follow \/ Overrun => UNCHANGED cacheVars
    BY DEF GetHit, Follow, Overrun
  <1>5. (\E m \in Messages : Receive(m)) => UNCHANGED cacheVars
    BY DEF Receive
  <1>6. UNCHANGED vars => UNCHANGED cacheVars
    BY DEF vars, cacheVars
  <1> QED BY <1>1, <1>2, <1>3, <1>4, <1>5, <1>6 DEF Next

(* A user's text turns up among another's objects only out of the system   *)
(* object that classify() joins: no eviction and no set of a part of an    *)
(* object leaves a byte of one domain in an object of another, for every   *)
(* number of domains and objects and all messages (cached.c:78-171).       *)
THEOREM TextsCorrect == Spec => TextsStayHome
  <1>1. Inductive /\ [Next]_vars
          => [\A d \in Users : \A t \in Held(d)' \ Held(d) :
                 Author[t] = d \/ t \in TextsOf(View[<<System, 0>>])]_cacheVars
    <2> SUFFICES ASSUME Inductive, [Next]_vars
                 PROVE  \A d \in Users : \A t \in Held(d)' \ Held(d) :
                           Author[t] = d \/ t \in TextsOf(View[<<System, 0>>])
      OBVIOUS
    <2> QED BY TextsStay
  <1> QED BY <1>1, InductiveKept, PTL DEF Spec, TextsStayHome
====
