---------------------------- MODULE MapperProofs -----------------------------
(***************************************************************************)
(* Theorems about Mapper, for every number of threads, slots and static    *)
(* URIDs and for every hash function.                                      *)
(***************************************************************************)
EXTENDS Mapper, FiniteSetTheorems, TLAPS

USE MapperAssumption

(* every probe is a slot of the table *)
LEMMA SlotType == ASSUME NEW u \in Uris, NEW k \in Nat
                  PROVE  Slot(u, k) \in Slots
<1>1. Hash[u] + k * k \in Nat
  OBVIOUS
<1>2. QED
  BY <1>1 DEF Slot, Slots

(* slots that belong to somebody keep their owner *)
Grows == \A s \in Slots : items[s] # NoUri => items'[s] = items[s]

(* a passed prefix stays passed *)
LEMMA PassedStable ==
  ASSUME Grows, NEW u \in Uris, NEW k \in Nat, Passed(u, k)
  PROVE  Passed(u, k)'
<1> SUFFICES ASSUME NEW m \in 0 .. k - 1
             PROVE  items'[Slot(u, m)] \notin {NoUri, u}
  BY DEF Passed
<1>1. Slot(u, m) \in Slots
  BY SlotType
<1>2. items[Slot(u, m)] \notin {NoUri, u}
  BY DEF Passed
<1> QED
  BY <1>1, <1>2 DEF Grows

(* one more slot that belongs to another URI *)
LEMMA PassedExtend ==
  ASSUME NEW u \in Uris, NEW k \in Nat, Passed(u, k),
         items[Slot(u, k)] \notin {NoUri, u}
  PROVE  Passed(u, k + 1)
BY DEF Passed

(* Storing u in an empty slot at the end of a passed prefix keeps every    *)
(* slot where the probe sequence of its URI first allows it.               *)
LEMMA PlacedStore ==
  ASSUME TypeOK, Placed,
         NEW u \in Uris, NEW k \in Slots,
         Passed(u, k), items[Slot(u, k)] = NoUri,
         items' = [items EXCEPT ![Slot(u, k)] = u]
  PROVE  Grows /\ Placed'
<1>0. Slot(u, k) \in Slots /\ k \in Nat
  BY SlotType DEF Slots
<1>1. Grows
  BY <1>0 DEF Grows, TypeOK
<1>2. ASSUME NEW s \in Slots, NEW w \in Uris, items'[s] = w
      PROVE  \E j \in Slots : s = Slot(w, j) /\ Passed(w, j)'
  <2>1. CASE s = Slot(u, k)
    <3>1. w = u
      BY <1>0, <1>2, <2>1 DEF TypeOK
    <3>2. Passed(u, k)'
      BY <1>0, <1>1, PassedStable
    <3> QED
      BY <2>1, <3>1, <3>2
  <2>2. CASE s # Slot(u, k)
    <3>1. items[s] = w
      BY <1>2, <2>2 DEF TypeOK
    <3>2. PICK j \in Slots : s = Slot(w, j) /\ Passed(w, j)
      BY <3>1 DEF Placed
    <3>3. Passed(w, j)'
      BY <1>1, <3>2, PassedStable DEF Slots
    <3> QED
      BY <3>2, <3>3
  <2> QED
    BY <2>1, <2>2
<1> QED
  BY <1>1, <1>2 DEF Placed
-----------------------------------------------------------------------------
(* the empty table *)
LEMMA InitIInv == Init => IInv
<1> SUFFICES ASSUME Init PROVE IInv
  OBVIOUS
<1>0. 0 \in Slots
  BY DEF Slots
<1>1. TypeOK
  BY <1>0 DEF Init, TypeOK
<1>2. Placed /\ Searching /\ Inserted /\ Labelled /\ Answered /\ Books
  BY DEF Init, Placed, Searching, Inserted, Labelled, Answered, Books
<1> QED
  BY <1>1, <1>2 DEF IInv

(* the slot a thread is looking at *)
LEMMA HereType ==
  ASSUME TypeOK, NEW t \in Threads, pc[t] # "idle"
  PROVE  /\ uri[t] \in Uris /\ probe[t] \in Nat /\ probe[t] \in Slots
         /\ Here(t) \in Slots /\ Here(t) = Slot(uri[t], probe[t])
BY SlotType DEF TypeOK, Here, Slots

(***************************************************************************)
(* The kinds of step, each preserving the type invariant                   *)
(***************************************************************************)
LEMMA PopulateType == TypeOK /\ Populate => TypeOK'
<1> SUFFICES ASSUME TypeOK, Populate PROVE TypeOK'
  OBVIOUS
<1>1. Stats[npop] \in Uris /\ npop \in 1 .. NStats - 1
  BY DEF Populate, TypeOK
<1>2. PICK k \in Slots :
        /\ items' = [items EXCEPT ![Slot(Stats[npop], k)] = Stats[npop]]
        /\ stat' = [stat EXCEPT ![Slot(Stats[npop], k)] = npop]
  BY DEF Populate
<1>3. Slot(Stats[npop], k) \in Slots
  <2>1. k \in Nat
    BY DEF Slots
  <2> QED
    BY <1>1, <2>1, SlotType
<1>4. /\ items' \in [Slots -> Uris \cup {NoUri}]
      /\ stat' \in [Slots -> 0 .. NStats - 1]
  BY <1>1, <1>2, <1>3 DEF TypeOK
<1> QED
  BY <1>1, <1>4 DEF Populate, TypeOK

(* the fields of a thread that returns *)
LEMMA ReturnType ==
  ASSUME TypeOK, NEW t \in Threads, pc[t] # "idle", NEW urid \in Nat,
         Return(t, urid), phase' = phase, dead' = dead, UNCHANGED <<npop, stat>>,
         items' \in [Slots -> Uris \cup {NoUri}],
         usage' \in Int, live' \in Int, clone' \in [Threads -> BOOLEAN]
  PROVE  TypeOK'
<1>1. pc' \in [Threads -> {"idle", "load", "alloc", "cas", "count"}]
  BY DEF TypeOK, Return
<1>2. uri' \in [Threads -> Uris \cup {NoUri}]
  BY DEF TypeOK, Return
<1>3. \A q \in Threads : pc'[q] # "idle" <=> uri'[q] \in Uris
  BY DEF TypeOK, Return
<1>4. probe' \in [Threads -> Slots]
  BY DEF TypeOK, Return, Slots
<1>5. answers' \subseteq Uris \X Nat
  BY DEF TypeOK, Return
<1> QED
  BY <1>1, <1>2, <1>3, <1>4, <1>5 DEF TypeOK

(* a copy given back *)
LEMMA FreeCloneType ==
  ASSUME TypeOK, NEW t \in Threads, FreeClone(t)
  PROVE  live' \in Int /\ clone' \in [Threads -> BOOLEAN]
BY DEF TypeOK, FreeClone

(* a URID is a number *)
LEMMA UridType == ASSUME TypeOK, NEW s \in Slots PROVE Urid(s) \in Nat
BY DEF TypeOK, Urid, Slots

(* the next iteration or the end of the loop *)
LEMMA NextProbeType ==
  ASSUME TypeOK, NEW t \in Threads, pc[t] # "idle", NextProbe(t),
         UNCHANGED <<items, stat, usage, phase, npop, dead>>
  PROVE  TypeOK'
<1>1. CASE probe[t] + 1 < NItems
  <2>1. probe[t] + 1 \in Slots
    BY <1>1 DEF TypeOK, Slots
  <2>2. /\ probe' = [probe EXCEPT ![t] = @ + 1]
        /\ pc' = [pc EXCEPT ![t] = "load"]
        /\ UNCHANGED <<live, clone, uri, answers>>
    BY <1>1 DEF NextProbe
  <2>3. probe' \in [Threads -> Slots]
    BY <2>1, <2>2 DEF TypeOK
  <2> QED
    BY <2>2, <2>3 DEF TypeOK
<1>2. CASE ~(probe[t] + 1 < NItems)
  <2>1. Return(t, 0) /\ FreeClone(t)
    BY <1>2 DEF NextProbe
  <2> QED
    BY <2>1, ReturnType, FreeCloneType DEF TypeOK
<1> QED
  BY <1>1, <1>2

(* any step of a map call *)
LEMMA MapType == ASSUME TypeOK, NEW t \in Threads, Map(t) PROVE TypeOK'
<1>1. CASE Load(t)
  <2>0. pc[t] # "idle" /\ Here(t) \in Slots
    BY <1>1, HereType DEF Load
  <2>1. CASE pc' = [pc EXCEPT ![t] = IF clone[t] THEN "cas" ELSE "alloc"]
             /\ UNCHANGED <<live, clone, uri, probe, answers>>
    BY <1>1, <2>0, <2>1 DEF Load, Map, TypeOK
  <2>2. CASE Return(t, Urid(Here(t))) /\ FreeClone(t)
    BY <1>1, <2>0, <2>2, ReturnType, FreeCloneType, UridType DEF Load, Map, TypeOK
  <2>3. CASE NextProbe(t)
    BY <1>1, <2>0, <2>3, NextProbeType DEF Load, Map
  <2> QED
    BY <1>1, <2>1, <2>2, <2>3 DEF Load
<1>2. CASE Alloc(t)
  BY <1>2 DEF Alloc, Map, TypeOK
<1>3. CASE OutOfMemory(t)
  BY <1>3, ReturnType DEF OutOfMemory, Map, TypeOK, table
<1>4. CASE Cas(t)
  <2>0. pc[t] # "idle" /\ Here(t) \in Slots /\ uri[t] \in Uris
    BY <1>4, HereType DEF Cas
  <2>1. CASE /\ items' = [items EXCEPT ![Here(t)] = uri[t]]
             /\ clone' = [clone EXCEPT ![t] = FALSE]
             /\ pc' = [pc EXCEPT ![t] = "count"]
             /\ UNCHANGED <<live, uri, probe, answers>>
    BY <1>4, <2>0, <2>1 DEF Cas, Map, TypeOK
  <2>2. CASE Return(t, Urid(Here(t))) /\ FreeClone(t) /\ UNCHANGED items
    BY <1>4, <2>0, <2>2, ReturnType, FreeCloneType, UridType DEF Cas, Map, TypeOK
  <2>3. CASE NextProbe(t) /\ UNCHANGED items
    BY <1>4, <2>0, <2>3, NextProbeType DEF Cas, Map
  <2> QED
    BY <1>4, <2>1, <2>2, <2>3 DEF Cas
<1>5. CASE Count(t)
  <2>0. pc[t] # "idle" /\ Here(t) \in Slots
    BY <1>5, HereType DEF Count
  <2>1. Urid(Here(t)) \in Nat /\ Return(t, Urid(Here(t)))
    BY <1>5, <2>0, UridType DEF Count
  <2>2. usage' \in Int /\ UNCHANGED <<items, stat, live, phase, npop, clone, dead>>
    BY <1>5 DEF Count, Map, TypeOK
  <2> QED
    BY <2>0, <2>1, <2>2, ReturnType DEF TypeOK
<1> QED
  BY <1>1, <1>2, <1>3, <1>4, <1>5 DEF Map

(* the slots can be counted *)
LEMMA TakenFinite == Cardinality(Taken) \in Nat
<1>1. IsFiniteSet(Slots)
  BY FS_Interval DEF Slots
<1>2. Taken \subseteq Slots
  BY DEF Taken
<1> QED
  BY <1>1, <1>2, FS_Subset, FS_CardinalityType

(* the type invariant as a whole *)
LEMMA NextType == TypeOK /\ [Next]_vars => TypeOK'
<1> SUFFICES ASSUME TypeOK, [Next]_vars PROVE TypeOK'
  OBVIOUS
<1>1. CASE Populate
  BY <1>1, PopulateType
<1>2. CASE PopulateWild
  BY <1>2 DEF PopulateWild, TypeOK
<1>3. CASE Share
  BY <1>3 DEF Share, TypeOK
<1>4. ASSUME NEW t \in Threads, Map(t) PROVE TypeOK'
  BY <1>4, MapType
<1>5. ASSUME NEW t \in Threads, Killed(t) PROVE TypeOK'
  BY <1>5 DEF Killed, TypeOK, table
<1>6. ASSUME NEW t \in Threads, NEW u \in Uris, Call(t, u) PROVE TypeOK'
  BY <1>6 DEF Call, TypeOK, table, Slots
<1>7. CASE Free
  <2>1. Cardinality(Taken) \in Int
    BY TakenFinite
  <2> QED
    BY <1>7, <2>1 DEF Free, TypeOK
<1>8. CASE UNCHANGED vars
  BY <1>8 DEF vars, table, TypeOK
<1> QED
  BY <1>1, <1>2, <1>3, <1>4, <1>5, <1>6, <1>7, <1>8 DEF Next
-----------------------------------------------------------------------------
(***************************************************************************)
(* The table: only Populate and a successful compare-and-swap store        *)
(***************************************************************************)
LEMMA NextPlaced ==
  TypeOK /\ Placed /\ Searching /\ [Next]_vars => Grows /\ Placed'
<1> SUFFICES ASSUME TypeOK, Placed, Searching, [Next]_vars
             PROVE  Grows /\ Placed'
  OBVIOUS
<1>1. CASE items' = items
  BY <1>1 DEF Grows, Placed, Passed
<1>2. CASE Populate
  <2> DEFINE u == Stats[npop]
  <2>1. u \in Uris
    BY <1>2 DEF Populate, TypeOK
  <2>2. PICK k \in Slots : /\ FirstFit(u, k)
                           /\ items[Slot(u, k)] = NoUri
                           /\ items' = [items EXCEPT ![Slot(u, k)] = u]
    BY <1>2 DEF Populate
  <2>3. Passed(u, k)
    BY <2>2 DEF FirstFit, Settles, Passed
  <2> HIDE DEF u
  <2> QED
    BY <2>1, <2>2, <2>3, PlacedStore
<1>3. ASSUME NEW t \in Threads, Cas(t), items' # items
      PROVE  Grows /\ Placed'
  <2>1. /\ uri[t] \in Uris /\ probe[t] \in Slots
        /\ Here(t) = Slot(uri[t], probe[t])
    BY <1>3, HereType DEF Cas
  <2>2. items[Here(t)] = NoUri /\ items' = [items EXCEPT ![Here(t)] = uri[t]]
    BY <1>3 DEF Cas
  <2>3. Passed(uri[t], probe[t])
    BY <1>3 DEF Cas, Searching
  <2> QED
    BY <2>1, <2>2, <2>3, PlacedStore
<1>4. ASSUME NEW t \in Threads, Map(t), items' # items PROVE Cas(t)
  BY <1>4 DEF Map, Load, Alloc, OutOfMemory, Count, table
<1>5. [Populate \/ \E t \in Threads : Map(t)]_items
  BY DEF Next, PopulateWild, Share, Killed, Call, Free, vars, table
<1> QED
  BY <1>1, <1>2, <1>3, <1>4, <1>5

(***************************************************************************)
(* Threads: what is behind a probe stays behind it                         *)
(***************************************************************************)
LEMMA PassedAfter ==
  ASSUME Grows, NEW u \in Uris, NEW k \in Nat, Passed(u, k)
  PROVE  \A m \in 0 .. k - 1 : items'[Slot(u, m)] \notin {NoUri, u}
BY PassedStable DEF Passed

(* a step of another thread, or of none, leaves a thread where it is *)
LEMMA OthersUntouched ==
  ASSUME TypeOK, [Next]_vars, NEW q \in Threads,
         ~Map(q), \A u \in Uris : ~Call(q, u)
  PROVE  pc'[q] = pc[q] /\ uri'[q] = uri[q] /\ probe'[q] = probe[q]
<1>1. CASE Populate \/ PopulateWild \/ Share \/ Free \/ UNCHANGED vars
  BY <1>1 DEF Populate, PopulateWild, Share, Free, vars
<1>2. ASSUME NEW t \in Threads, Killed(t)
      PROVE  UNCHANGED <<pc, uri, probe>>
  BY <1>2 DEF Killed
<1>3. ASSUME NEW t \in Threads, t # q, NEW u \in Uris, Call(t, u)
      PROVE  pc'[q] = pc[q] /\ uri'[q] = uri[q] /\ probe'[q] = probe[q]
  BY <1>3 DEF Call, TypeOK
<1>4. ASSUME NEW t \in Threads, t # q, Map(t)
      PROVE  pc'[q] = pc[q] /\ uri'[q] = uri[q] /\ probe'[q] = probe[q]
  BY <1>4 DEF Map, Load, Alloc, OutOfMemory, Cas, Count, NextProbe, Return, TypeOK
<1> QED
  BY <1>1, <1>2, <1>3, <1>4 DEF Next

(* what a search has passed stays passed, whatever the others do *)
LEMMA NextSearching ==
  TypeOK /\ Grows /\ Searching /\ [Next]_vars => Searching'
<1> SUFFICES ASSUME TypeOK, Grows, Searching, [Next]_vars, NEW q \in Threads,
                    pc'[q] \in {"load", "alloc", "cas"}
             PROVE  \A m \in 0 .. probe'[q] - 1 :
                      items'[Slot(uri'[q], m)] \notin {NoUri, uri'[q]}
  BY DEF Searching, Passed
<1>1. CASE pc[q] \in {"load", "alloc", "cas"}
           /\ uri'[q] = uri[q] /\ probe'[q] = probe[q]
  <2>1. Passed(uri[q], probe[q]) /\ uri[q] \in Uris /\ probe[q] \in Nat
    BY <1>1, HereType DEF Searching
  <2> QED
    BY <1>1, <2>1, PassedAfter
<1>2. ASSUME NEW u \in Uris, Call(q, u)
      PROVE  probe'[q] = 0
  BY <1>2 DEF Call, TypeOK
<1>3. CASE Map(q)
  <2>1. CASE NextProbe(q) /\ pc[q] \in {"load", "cas"}
             /\ items[Here(q)] \notin {NoUri, uri[q]}
    <3>0. /\ uri[q] \in Uris /\ probe[q] \in Nat
          /\ Here(q) = Slot(uri[q], probe[q])
          /\ Passed(uri[q], probe[q])
      BY <2>1, HereType DEF Searching
    <3>1. probe'[q] = probe[q] + 1 /\ uri'[q] = uri[q]
      BY <2>1 DEF NextProbe, Return, TypeOK
    <3>2. Passed(uri[q], probe[q] + 1)
      BY <2>1, <3>0, PassedExtend
    <3> QED
      BY <3>0, <3>1, <3>2, PassedAfter
  <2>2. CASE ~(NextProbe(q) /\ pc[q] \in {"load", "cas"}
               /\ items[Here(q)] \notin {NoUri, uri[q]})
    <3>1. /\ pc[q] \in {"load", "alloc", "cas"}
          /\ uri'[q] = uri[q] /\ probe'[q] = probe[q]
      BY <1>3, <2>2 DEF Map, Load, Alloc, OutOfMemory, Cas, Count, Return, TypeOK
    <3> QED
      BY <3>1, <1>1
  <2> QED
    BY <2>1, <2>2
<1>4. CASE ~Map(q) /\ \A u \in Uris : ~Call(q, u)
  BY <1>1, <1>4, OthersUntouched
<1> QED
  BY <1>2, <1>3, <1>4

(* a slot taken stays with its thread until it is counted *)
LEMMA NextInserted ==
  TypeOK /\ Grows /\ Inserted /\ [Next]_vars => Inserted'
<1> SUFFICES ASSUME TypeOK, Grows, Inserted, [Next]_vars, NEW q \in Threads,
                    pc'[q] = "count"
             PROVE  items'[Slot(uri'[q], probe'[q])] = uri'[q]
  BY DEF Inserted, Here
<1>1. CASE pc[q] = "count" /\ uri'[q] = uri[q] /\ probe'[q] = probe[q]
  <2>1. /\ uri[q] \in Uris /\ Here(q) \in Slots /\ items[Here(q)] = uri[q]
        /\ Here(q) = Slot(uri[q], probe[q])
    BY <1>1, HereType DEF Inserted
  <2> QED
    BY <1>1, <2>1 DEF Grows
<1>2. CASE Map(q)
  <2>1. /\ Cas(q) /\ items' = [items EXCEPT ![Here(q)] = uri[q]]
        /\ uri'[q] = uri[q] /\ probe'[q] = probe[q]
    BY <1>2 DEF Map, Load, Alloc, OutOfMemory, Cas, Count, NextProbe, Return, TypeOK
  <2>2. /\ uri[q] \in Uris /\ Here(q) \in Slots
        /\ Here(q) = Slot(uri[q], probe[q])
    BY <2>1, HereType DEF Cas
  <2> QED
    BY <2>1, <2>2 DEF TypeOK
<1>3. ASSUME NEW u \in Uris, Call(q, u) PROVE FALSE
  BY <1>3 DEF Call, TypeOK
<1>4. CASE ~Map(q) /\ \A u \in Uris : ~Call(q, u)
  BY <1>1, <1>4, OthersUntouched
<1> QED
  BY <1>2, <1>3, <1>4
-----------------------------------------------------------------------------
(***************************************************************************)
(* Static URIDs and answers                                                *)
(***************************************************************************)
(* before the table is shared nobody is inside map *)
LEMMA NoEarlyCalls ==
  ASSUME TypeOK, Labelled, phase \in {"new", "wild"}
  PROVE  \A t \in Threads : ~Map(t) /\ \A u \in Uris : ~Call(t, u)
BY DEF Labelled, Map, Load, Alloc, OutOfMemory, Cas, Count, Call

(* static URIDs stay with their URIs *)
LEMMA NextLabelled ==
  TypeOK /\ Grows /\ Labelled /\ [Next]_vars => Labelled'
<1> SUFFICES ASSUME TypeOK, Grows, Labelled, [Next]_vars PROVE Labelled'
  OBVIOUS
<1>1. CASE Populate
  <2>1. PICK k \in Slots :
          /\ items[Slot(Stats[npop], k)] = NoUri
          /\ items' = [items EXCEPT ![Slot(Stats[npop], k)] = Stats[npop]]
          /\ stat' = [stat EXCEPT ![Slot(Stats[npop], k)] = npop]
    BY <1>1 DEF Populate
  <2> DEFINE new == Slot(Stats[npop], k)
  <2>2. new \in Slots /\ npop' = npop + 1 /\ npop \in Nat /\ npop # 0
        /\ Stats[npop] \in Uris
    <3>1. Stats[npop] \in Uris /\ k \in Nat
      BY <1>1 DEF Populate, TypeOK, Slots
    <3> QED
      BY <1>1, <3>1, SlotType DEF Populate, TypeOK
  <2> HIDE DEF new
  <2>3. /\ items[new] = NoUri
        /\ items' = [items EXCEPT ![new] = Stats[npop]]
        /\ stat' = [stat EXCEPT ![new] = npop]
    BY <2>1 DEF new
  <2>4. \A s \in Slots : stat'[s] # 0 =>
          stat'[s] < npop' /\ items'[s] = Stats[stat'[s]]
    BY <2>2, <2>3 DEF Labelled, TypeOK
  <2>5. \A n \in 1 .. npop' - 1 : \E s \in Slots :
          items'[s] = Stats[n] /\ stat'[s] = n
    <3> SUFFICES ASSUME NEW n \in 1 .. npop' - 1
                 PROVE  \E s \in Slots : items'[s] = Stats[n] /\ stat'[s] = n
      OBVIOUS
    <3>1. CASE n = npop
      BY <2>2, <2>3, <3>1 DEF TypeOK
    <3>2. CASE n # npop
      <4>0. n \in 1 .. npop - 1
        BY <2>2, <3>2
      <4>1. PICK s \in Slots : items[s] = Stats[n] /\ stat[s] = n
        BY <4>0 DEF Labelled
      <4>2. s # new
        BY <2>2, <2>3, <4>0, <4>1 DEF TypeOK
      <4> QED
        BY <2>3, <4>1, <4>2 DEF TypeOK
    <3> QED
      BY <3>1, <3>2
  <2> QED
    BY <1>1, <2>4, <2>5 DEF Labelled, Populate
<1>2. ASSUME stat' = stat, npop' = npop
      PROVE  /\ \A s \in Slots : stat'[s] # 0 =>
                  stat'[s] < npop' /\ items'[s] = Stats[stat'[s]]
             /\ \A n \in 1 .. npop' - 1 : \E s \in Slots :
                  items'[s] = Stats[n] /\ stat'[s] = n
  <2>1. \A n \in 1 .. NStats - 1 : Stats[n] # NoUri
    OBVIOUS
  <2>2. \A s \in Slots : stat[s] # 0 => items'[s] = items[s]
    BY <2>1 DEF Grows, Labelled, TypeOK
  <2>3. \A s \in Slots : stat'[s] # 0 =>
          stat'[s] < npop' /\ items'[s] = Stats[stat'[s]]
    BY <1>2, <2>2 DEF Labelled
  <2>4. ASSUME NEW n \in 1 .. npop' - 1
        PROVE  \E s \in Slots : items'[s] = Stats[n] /\ stat'[s] = n
    <3>1. n # 0 /\ n \in 1 .. npop - 1
      BY <1>2 DEF TypeOK
    <3>2. PICK s \in Slots : items[s] = Stats[n] /\ stat[s] = n
      BY <3>1 DEF Labelled
    <3> QED
      BY <1>2, <2>2, <3>1, <3>2
  <2> QED
    BY <2>3, <2>4
<1>3. CASE PopulateWild
  BY <1>2, <1>3 DEF PopulateWild, Labelled
<1>4. CASE Share
  BY <1>2, <1>4 DEF Share, Labelled
<1>5. CASE Free
  BY <1>2, <1>5 DEF Free, Labelled
<1>6. CASE UNCHANGED vars
  BY <1>2, <1>6 DEF vars, table, Labelled
<1>7. ASSUME NEW t \in Threads, Map(t) \/ \E u \in Uris : Call(t, u)
      PROVE  Labelled'
  <2>1. phase \in {"shared", "freed"}
    BY <1>7, NoEarlyCalls DEF TypeOK
  <2>2. stat' = stat /\ npop' = npop /\ phase' = phase
    BY <1>7 DEF Map, Load, Alloc, OutOfMemory, Cas, Count, Call, table
  <2> QED
    BY <1>2, <2>1, <2>2 DEF Labelled
<1>8. ASSUME NEW t \in Threads, Killed(t) PROVE Labelled'
  BY <1>2, <1>8 DEF Killed, table, Labelled
<1> QED
  BY <1>1, <1>3, <1>4, <1>5, <1>6, <1>7, <1>8 DEF Next

(* map answers with the URID of a slot that holds the URI *)
LEMMA MapAnswers ==
  ASSUME TypeOK, Inserted, NEW t \in Threads, Map(t), answers' # answers
  PROVE  /\ Here(t) \in Slots /\ items[Here(t)] = uri[t] /\ uri[t] \in Uris
         /\ answers' = answers \cup {<<uri[t], Urid(Here(t))>>}
<1>1. pc[t] # "idle"
  BY DEF Map, Load, Alloc, OutOfMemory, Cas, Count
<1>2. Here(t) \in Slots /\ uri[t] \in Uris
  BY <1>1, HereType
<1>3. ASSUME Return(t, 0) PROVE FALSE
  BY <1>3 DEF Return
<1>4. CASE Load(t)
  BY <1>2, <1>3, <1>4 DEF Load, NextProbe, Return
<1>5. CASE Alloc(t) \/ OutOfMemory(t)
  BY <1>3, <1>5 DEF Alloc, OutOfMemory
<1>6. CASE Cas(t)
  BY <1>2, <1>3, <1>6 DEF Cas, NextProbe, Return
<1>7. CASE Count(t)
  BY <1>2, <1>3, <1>7 DEF Count, Return, Inserted
<1> QED
  BY <1>4, <1>5, <1>6, <1>7 DEF Map

(* every answer keeps naming its slot *)
LEMMA NextAnswered ==
  TypeOK /\ Grows /\ Inserted /\ Labelled /\ Answered /\ [Next]_vars => Answered'
<1> SUFFICES ASSUME TypeOK, Grows, Inserted, Labelled, Answered, [Next]_vars
             PROVE  \A a \in answers' : \E s \in Slots :
                      items'[s] = a[1]
                      /\ a[2] = IF stat'[s] # 0 THEN stat'[s] ELSE s + NStats
  BY DEF Answered, Urid
<1>1. CASE Populate
  BY <1>1 DEF Populate, Labelled
<1>2. ASSUME stat' = stat, NEW a \in answers
      PROVE  \E s \in Slots :
               items'[s] = a[1]
               /\ a[2] = IF stat'[s] # 0 THEN stat'[s] ELSE s + NStats
  <2>1. PICK s \in Slots : items[s] = a[1] /\ a[2] = Urid(s)
    BY <1>2 DEF Answered
  <2>2. items[s] # NoUri
    BY <1>2, <2>1 DEF TypeOK
  <2> QED
    BY <1>2, <2>1, <2>2 DEF Grows, Urid
<1>3. CASE answers' = answers /\ stat' = stat
  BY <1>2, <1>3
<1>4. ASSUME NEW t \in Threads, Map(t), answers' # answers
      PROVE  \A a \in answers' : \E s \in Slots :
               items'[s] = a[1]
               /\ a[2] = IF stat'[s] # 0 THEN stat'[s] ELSE s + NStats
  <2>1. stat' = stat
    BY <1>4 DEF Map, Load, Alloc, OutOfMemory, Cas, Count, table
  <2>2. /\ Here(t) \in Slots /\ items[Here(t)] = uri[t] /\ uri[t] \in Uris
        /\ answers' = answers \cup {<<uri[t], Urid(Here(t))>>}
    BY <1>4, MapAnswers
  <2>3. items'[Here(t)] = uri[t]
    BY <2>2 DEF Grows
  <2> QED
    BY <1>2, <2>1, <2>2, <2>3 DEF Urid
<1>5. ASSUME NEW t \in Threads, Map(t), answers' = answers PROVE stat' = stat
  BY <1>5 DEF Map, Load, Alloc, OutOfMemory, Cas, Count, table
<1>6. CASE PopulateWild \/ Share \/ Free \/ UNCHANGED vars
           \/ \E t \in Threads : Killed(t) \/ \E u \in Uris : Call(t, u)
  BY <1>3, <1>6 DEF PopulateWild, Share, Free, Killed, Call, vars, table
<1> QED
  BY <1>1, <1>3, <1>4, <1>5, <1>6 DEF Next

(* Only a thread that is in map, and alive, takes a step of it. *)
LEMMA MapStep ==
  ASSUME TypeOK, Labelled, Books, NEW t \in Threads, Map(t)
  PROVE  /\ phase = "shared" /\ phase' = phase /\ pc[t] # "idle" /\ UNCHANGED dead
         /\ \A q \in Threads \ {t} : pc'[q] = pc[q] /\ clone'[q] = clone[q]
<1>1. pc[t] # "idle" /\ t \notin dead /\ UNCHANGED <<dead, phase>>
  BY DEF Map, Load, Alloc, OutOfMemory, Cas, Count, table
<1>2. phase = "shared"
  BY <1>1 DEF Labelled, Books, TypeOK
<1>3. \A q \in Threads \ {t} : pc'[q] = pc[q] /\ clone'[q] = clone[q]
  BY DEF Map, Load, Alloc, OutOfMemory, Cas, Count, NextProbe, Return, FreeClone, TypeOK
<1> QED
  BY <1>1, <1>2, <1>3

(* What a step of map does to the thread's copy and the table *)
LEMMA MapCopies ==
  ASSUME TypeOK, Books, NEW t \in Threads, Map(t)
  PROVE  /\ pc'[t] = "alloc" => ~clone'[t]
         /\ pc'[t] = "cas" => clone'[t]
         /\ \/ /\ UNCHANGED <<items, usage>> /\ pc[t] # "count" /\ pc'[t] # "count"
               /\ \/ live' = live /\ clone'[t] = clone[t]
                  \/ live' = live + 1 /\ ~clone[t] /\ clone'[t]
                  \/ live' = live - 1 /\ clone[t] /\ ~clone'[t]
            \/ /\ items[Here(t)] = NoUri /\ items' = [items EXCEPT ![Here(t)] = uri[t]]
               /\ UNCHANGED <<live, usage>> /\ clone[t] /\ ~clone'[t]
               /\ pc[t] = "cas" /\ pc'[t] = "count"
            \/ /\ UNCHANGED <<items, live>> /\ usage' = usage + 1 /\ clone'[t] = clone[t]
               /\ pc[t] = "count" /\ pc'[t] = "idle"
<1> USE DEF TypeOK
<1>1. ASSUME NEW u, Return(t, u)
      PROVE  pc'[t] = "idle"
  BY <1>1 DEF Return
<1>2. ASSUME FreeClone(t)
      PROVE  /\ ~clone'[t]
             /\ \/ live' = live /\ clone'[t] = clone[t]
                \/ live' = live - 1 /\ clone[t] /\ ~clone'[t]
  BY <1>2 DEF FreeClone
<1>3. ASSUME NextProbe(t)
      PROVE  \/ pc'[t] = "load" /\ UNCHANGED <<live, clone>>
             \/ pc'[t] = "idle" /\ FreeClone(t)
  <2>1. CASE probe[t] + 1 < NItems
    BY <1>3, <2>1 DEF NextProbe
  <2>2. CASE ~(probe[t] + 1 < NItems)
    BY <1>1, <1>3, <2>2 DEF NextProbe
  <2> QED
    BY <2>1, <2>2
<1>4. CASE Load(t)
  <2>1. pc[t] = "load" /\ UNCHANGED <<items, usage>>
    BY <1>4 DEF Load
  <2>2. \/ pc' = [pc EXCEPT ![t] = IF clone[t] THEN "cas" ELSE "alloc"] /\ UNCHANGED <<live, clone>>
        \/ pc'[t] = "idle" /\ FreeClone(t)
        \/ NextProbe(t)
    BY <1>1, <1>4 DEF Load
  <2> QED
    BY <1>2, <1>3, <2>1, <2>2
<1>5. CASE Alloc(t)
  BY <1>5 DEF Alloc, Books
<1>6. CASE OutOfMemory(t)
  BY <1>1, <1>6 DEF OutOfMemory, table
<1>7. CASE Cas(t)
  <2>1. pc[t] = "cas" /\ clone[t] /\ UNCHANGED usage
    BY <1>7 DEF Cas, Books
  <2>2. \/ /\ items[Here(t)] = NoUri /\ items' = [items EXCEPT ![Here(t)] = uri[t]]
           /\ clone' = [clone EXCEPT ![t] = FALSE] /\ pc' = [pc EXCEPT ![t] = "count"]
           /\ live' = live
        \/ pc'[t] = "idle" /\ FreeClone(t) /\ UNCHANGED items
        \/ NextProbe(t) /\ UNCHANGED items
    BY <1>1, <1>7 DEF Cas
  <2> QED
    BY <1>2, <1>3, <2>1, <2>2
<1>8. CASE Count(t)
  BY <1>1, <1>8 DEF Count
<1> QED
  BY <1>4, <1>5, <1>6, <1>7, <1>8 DEF Map

(* A thread holds a copy when it needs one, and the table is freed last. *)
LEMMA NextBooks == TypeOK /\ Labelled /\ Books /\ [Next]_vars => Books'
<1> SUFFICES ASSUME TypeOK, Labelled, Books, [Next]_vars PROVE Books'
  OBVIOUS
<1>1. CASE Populate \/ PopulateWild \/ Share \/ UNCHANGED vars
  BY <1>1 DEF Populate, PopulateWild, Share, vars, table, Books
<1>2. CASE Free
  BY <1>2 DEF Free, Books
<1>3. ASSUME NEW t \in Threads, NEW u \in Uris, Call(t, u)
      PROVE  Books'
  BY <1>3 DEF Call, table, Books, TypeOK
<1>4. ASSUME NEW t \in Threads, Killed(t)
      PROVE  Books'
  BY <1>4 DEF Killed, table, Books
<1>5. ASSUME NEW t \in Threads, Map(t)
      PROVE  Books'
  BY <1>5, MapStep, MapCopies DEF Books
<1> QED
  BY <1>1, <1>2, <1>3, <1>4, <1>5 DEF Next
-----------------------------------------------------------------------------
(* Every step of main, of a thread or of a kill keeps the invariant: the   *)
(* uniqueness of URIDs never rests on the order in which threads run.      *)
THEOREM Invariance == IInv /\ [Next]_vars => IInv'
<1> SUFFICES ASSUME IInv, [Next]_vars PROVE IInv'
  OBVIOUS
<1>1. TypeOK'
  BY NextType DEF IInv
<1>2. Grows /\ Placed'
  BY NextPlaced DEF IInv
<1>3. Searching' /\ Inserted' /\ Labelled' /\ Answered' /\ Books'
  BY <1>2, NextSearching, NextInserted, NextLabelled, NextAnswered, NextBooks DEF IInv
<1> QED
  BY <1>1, <1>2, <1>3 DEF IInv

(* Every reachable state satisfies the inductive invariant. *)
THEOREM MapperInvariant == Spec => []IInv
BY InitIInv, Invariance, PTL DEF Spec

(* Two slots with one URI would be at two places of one probe sequence,    *)
(* and the later was filled only after the earlier was seen taken by       *)
(* another URI.                                                            *)
LEMMA UniqueFromPlaced == IInv => UniqueSlot
<1> SUFFICES ASSUME IInv, NEW r \in Slots, NEW s \in Slots,
                    items[r] # NoUri, items[r] = items[s]
             PROVE  r = s
  BY DEF UniqueSlot
<1> DEFINE u == items[r]
<1>1. u \in Uris /\ items[r] = u /\ items[s] = u
  BY DEF IInv, TypeOK
<1> HIDE DEF u
<1>2. PICK j \in Slots : r = Slot(u, j) /\ Passed(u, j)
  BY <1>1 DEF IInv, Placed
<1>3. PICK k \in Slots : s = Slot(u, k) /\ Passed(u, k)
  BY <1>1 DEF IInv, Placed
<1>4. ~(j < k) /\ ~(k < j)
  BY <1>1, <1>2, <1>3 DEF Passed, Slots
<1> QED
  BY <1>2, <1>3, <1>4 DEF Slots

(* No URI occupies two slots, for every number of threads, table size and  *)
(* hash function, and whichever threads are killed in the middle of a map. *)
THEOREM MapperUniqueSlot == Spec => []UniqueSlot
BY MapperInvariant, UniqueFromPlaced, PTL

(* one slot per URI makes map one-to-one *)
LEMMA AnswersFromIInv == IInv => OneUridPerUri
<1> SUFFICES ASSUME IInv, NEW a \in answers, NEW b \in answers
             PROVE  a[1] = b[1] <=> a[2] = b[2]
  BY DEF OneUridPerUri
<1>1. PICK r \in Slots : items[r] = a[1] /\ a[2] = Urid(r)
  BY DEF IInv, Answered
<1>2. PICK s \in Slots : items[s] = b[1] /\ b[2] = Urid(s)
  BY DEF IInv, Answered
<1>3. a[1] \in Uris /\ b[1] \in Uris
  BY DEF IInv, TypeOK
<1>4. ASSUME a[1] = b[1] PROVE a[2] = b[2]
  BY <1>1, <1>2, <1>3, <1>4, UniqueFromPlaced DEF UniqueSlot
<1>5. ASSUME a[2] = b[2] PROVE a[1] = b[1]
  <2>1. stat[r] \in 0 .. NStats - 1 /\ stat[s] \in 0 .. NStats - 1
        /\ r \in Nat /\ s \in Nat
    BY DEF IInv, TypeOK, Slots
  <2>2. \/ stat[r] # 0 /\ stat[s] # 0 /\ stat[r] = stat[s]
        \/ stat[r] = 0 /\ stat[s] = 0 /\ r = s
    BY <1>1, <1>2, <1>5, <2>1 DEF Urid
  <2> QED
    BY <1>1, <1>2, <2>2 DEF IInv, Labelled
<1> QED
  BY <1>4, <1>5

(* All threads agree for ever on one URID per URI and one URI per URID.    *)
THEOREM MapperOneUridPerUri == Spec => []OneUridPerUri
BY MapperInvariant, AnswersFromIInv, PTL

(* a URID leads back to its slot *)
LEMMA RoundTripFromIInv == IInv => RoundTrip
<1> SUFFICES ASSUME IInv, NEW a \in answers PROVE Unmap(a[2]) = a[1]
  BY DEF RoundTrip
<1>1. PICK s \in Slots : items[s] = a[1] /\ a[2] = Urid(s)
  BY DEF IInv, Answered
<1>2. stat[s] \in 0 .. NStats - 1 /\ s \in 0 .. NItems - 1
  BY DEF IInv, TypeOK, Slots
<1>3. CASE stat[s] # 0
  BY <1>1, <1>2, <1>3 DEF IInv, Labelled, Urid, Unmap
<1>4. CASE stat[s] = 0
  <2>1. a[2] = s + NStats /\ a[2] - NStats = s
    BY <1>1, <1>2, <1>4 DEF Urid
  <2>2. a[2] # 0 /\ ~(a[2] < NStats) /\ Dereferences(a[2])
    BY <1>2, <2>1 DEF Dereferences
  <2> QED
    BY <1>1, <2>1, <2>2 DEF Unmap
<1> QED
  BY <1>3, <1>4

(* Whatever map answered, unmap turns back into the URI it was given.      *)
THEOREM MapperRoundTrip == Spec => []RoundTrip
BY MapperInvariant, RoundTripFromIInv, PTL

(* the slot of a static URI has its static URID *)
LEMMA StaticFromIInv == IInv => StaticUrids
<1> SUFFICES ASSUME IInv, NEW a \in answers, NEW n \in 1 .. NStats - 1,
                    Stats[n] = a[1]
             PROVE  a[2] = n
  BY DEF StaticUrids
<1>1. PICK s \in Slots : items[s] = a[1] /\ a[2] = Urid(s)
  BY DEF IInv, Answered
<1>2. phase \in {"shared", "freed"} /\ npop = NStats
  BY DEF IInv, Labelled, TypeOK
<1>3. PICK r \in Slots : items[r] = Stats[n] /\ stat[r] = n
  BY <1>2 DEF IInv, Labelled
<1>4. r = s
  BY <1>1, <1>3, UniqueFromPlaced DEF UniqueSlot
<1> QED
  BY <1>1, <1>3, <1>4 DEF Urid

(* A static URI is always answered with its static URID, however late and  *)
(* from whichever thread it is mapped.                                     *)
THEOREM MapperStaticUrids == Spec => []StaticUrids
BY MapperInvariant, StaticFromIInv, PTL
-----------------------------------------------------------------------------
(* The accounts: how a thread changes the sets that are counted *)
LEMMA CountedSets ==
  ASSUME TypeOK
  PROVE  /\ IsFiniteSet(Taken) /\ IsFiniteSet(Holding) /\ IsFiniteSet(Counting)
         /\ Cardinality(Taken) \in Nat /\ Cardinality(Holding) \in Nat
         /\ Cardinality(Counting) \in Nat
<1>1. IsFiniteSet(Slots)
  BY FS_Interval DEF Slots
<1>2. Taken \in SUBSET Slots /\ Holding \in SUBSET Threads /\ Counting \in SUBSET Threads
  BY DEF Taken, Holding, Counting
<1> QED
  BY <1>1, <1>2, FS_Subset, FS_CardinalityType

LEMMA TakenGrows ==
  ASSUME TypeOK, NEW s \in Slots, items[s] = NoUri, NEW u \in Uris,
         items' = [items EXCEPT ![s] = u]
  PROVE  Cardinality(Taken') = Cardinality(Taken) + 1
<1>1. Taken' = Taken \cup {s} /\ s \notin Taken
  BY DEF Taken, TypeOK
<1> QED
  BY <1>1, CountedSets, FS_AddElement

LEMMA HoldingMoves ==
  ASSUME TypeOK, NEW t \in Threads, \A q \in Threads \ {t} : clone'[q] = clone[q],
         clone' \in [Threads -> BOOLEAN]
  PROVE  LET H == Cardinality(Holding)
         IN /\ clone'[t] = clone[t] => Cardinality(Holding') = H
            /\ ~clone[t] /\ clone'[t] => Cardinality(Holding') = H + 1
            /\ clone[t] /\ ~clone'[t] => Cardinality(Holding') = H - 1
<1>1. CASE clone[t] = clone'[t]
  <2>1. Holding' = Holding
    BY <1>1 DEF Holding
  <2> QED
    BY <1>1, <2>1
<1>2. CASE ~clone[t] /\ clone'[t]
  <2>1. Holding' = Holding \cup {t} /\ t \notin Holding
    BY <1>2 DEF Holding
  <2> QED
    BY <1>2, <2>1, CountedSets, FS_AddElement
<1>3. CASE clone[t] /\ ~clone'[t]
  <2>1. Holding' = Holding \ {t} /\ t \in Holding
    BY <1>3 DEF Holding
  <2> QED
    BY <1>3, <2>1, CountedSets, FS_RemoveElement
<1> QED
  BY <1>1, <1>2, <1>3 DEF TypeOK

LEMMA CountingMoves ==
  ASSUME TypeOK, NEW t \in Threads, \A q \in Threads \ {t} : pc'[q] = pc[q]
  PROVE  LET C == Cardinality(Counting)
         IN /\ (pc[t] = "count" <=> pc'[t] = "count") => Cardinality(Counting') = C
            /\ pc[t] # "count" /\ pc'[t] = "count" => Cardinality(Counting') = C + 1
            /\ pc[t] = "count" /\ pc'[t] # "count" => Cardinality(Counting') = C - 1
<1>1. CASE pc[t] = "count" <=> pc'[t] = "count"
  <2>1. Counting' = Counting
    BY <1>1 DEF Counting
  <2> QED
    BY <1>1, <2>1
<1>2. CASE pc[t] # "count" /\ pc'[t] = "count"
  <2>1. Counting' = Counting \cup {t} /\ t \notin Counting
    BY <1>2 DEF Counting
  <2> QED
    BY <1>2, <2>1, CountedSets, FS_AddElement
<1>3. CASE pc[t] = "count" /\ pc'[t] # "count"
  <2>1. Counting' = Counting \ {t} /\ t \in Counting
    BY <1>3 DEF Counting
  <2> QED
    BY <1>3, <2>1, CountedSets, FS_RemoveElement
<1> QED
  BY <1>1, <1>2, <1>3

(* Every step of a map call moves a copy or a count where it belongs. *)
LEMMA MapAccounting ==
  ASSUME IInv, IInv', Accounting, NEW t \in Threads, Map(t)
  PROVE  Accounting'
<1> DEFINE T == Cardinality(Taken)   H == Cardinality(Holding)   C == Cardinality(Counting)
<1>1. TypeOK /\ TypeOK' /\ Labelled /\ Books
  BY DEF IInv
<1>2. /\ phase = "shared" /\ phase' = phase /\ pc[t] # "idle"
      /\ \A q \in Threads \ {t} : pc'[q] = pc[q] /\ clone'[q] = clone[q]
  BY <1>1, MapStep
<1>3. live = T + H /\ usage + C = T
  BY <1>2 DEF Accounting
<1>4. T \in Nat /\ H \in Nat /\ C \in Nat
  BY <1>1, CountedSets
<1>5. /\ clone'[t] = clone[t] => H' = H
      /\ ~clone[t] /\ clone'[t] => H' = H + 1
      /\ clone[t] /\ ~clone'[t] => H' = H - 1
      /\ (pc[t] = "count" <=> pc'[t] = "count") => C' = C
      /\ pc[t] # "count" /\ pc'[t] = "count" => C' = C + 1
      /\ pc[t] = "count" /\ pc'[t] # "count" => C' = C - 1
  <2>1. clone' \in [Threads -> BOOLEAN]
    BY <1>1 DEF TypeOK
  <2> QED
    BY <1>1, <1>2, <2>1, HoldingMoves, CountingMoves
<1>6. items' = items => T' = T
  BY DEF Taken
<1>7. items[Here(t)] = NoUri /\ items' = [items EXCEPT ![Here(t)] = uri[t]] => T' = T + 1
  <2>1. Here(t) \in Slots /\ uri[t] \in Uris
    BY <1>1, <1>2, HereType
  <2> QED
    BY <1>1, <2>1, TakenGrows
<1> HIDE DEF T, H, C
<1>8. usage \in Int /\ live \in Int
  BY <1>1 DEF TypeOK
<1>9. live' = T' + H' /\ usage' + C' = T'
  <2>1. CASE /\ UNCHANGED <<items, usage>> /\ pc[t] # "count" /\ pc'[t] # "count"
             /\ \/ live' = live /\ clone'[t] = clone[t]
                \/ live' = live + 1 /\ ~clone[t] /\ clone'[t]
                \/ live' = live - 1 /\ clone[t] /\ ~clone'[t]
    BY <1>3, <1>4, <1>5, <1>6, <1>8, <2>1
  <2>2. CASE /\ items[Here(t)] = NoUri /\ items' = [items EXCEPT ![Here(t)] = uri[t]]
             /\ UNCHANGED <<live, usage>> /\ clone[t] /\ ~clone'[t]
             /\ pc[t] = "cas" /\ pc'[t] = "count"
    BY <1>3, <1>4, <1>5, <1>7, <1>8, <2>2
  <2>3. CASE /\ UNCHANGED <<items, live>> /\ usage' = usage + 1 /\ clone'[t] = clone[t]
             /\ pc[t] = "count" /\ pc'[t] = "idle"
    BY <1>3, <1>4, <1>5, <1>6, <1>8, <2>3
  <2> QED
    BY <1>1, <2>1, <2>2, <2>3, MapCopies
<1> QED
  BY <1>2, <1>9 DEF Accounting, T, H, C

LEMMA NextAccounting ==
  IInv /\ IInv' /\ Accounting /\ [Next]_vars => Accounting'
<1> SUFFICES ASSUME IInv, IInv', Accounting, [Next]_vars PROVE Accounting'
  OBVIOUS
<1>1. TypeOK /\ Labelled /\ Books
  BY DEF IInv
<1>2. CASE Populate
  <2>1. PICK k \in Slots :
          /\ items[Slot(Stats[npop], k)] = NoUri
          /\ items' = [items EXCEPT ![Slot(Stats[npop], k)] = Stats[npop]]
    BY <1>2 DEF Populate
  <2>2. Stats[npop] \in Uris /\ k \in Nat
    BY <1>1, <1>2 DEF Populate, TypeOK, Slots
  <2>3. Slot(Stats[npop], k) \in Slots
    BY <2>2, SlotType
  <2>4. Cardinality(Taken') = Cardinality(Taken) + 1
    BY <1>1, <2>1, <2>2, <2>3, TakenGrows
  <2>5. /\ phase = "new" /\ phase' = phase /\ usage' = usage + 1 /\ live' = live + 1
        /\ Holding' = Holding /\ Counting' = Counting
    BY <1>2 DEF Populate, Holding, Counting
  <2>6. /\ Cardinality(Taken) \in Nat /\ Cardinality(Holding) \in Nat
        /\ Cardinality(Counting) \in Nat /\ usage \in Int /\ live \in Int
    BY <1>1, CountedSets DEF TypeOK
  <2> QED
    BY <2>4, <2>5, <2>6 DEF Accounting
<1>3. CASE PopulateWild
  BY <1>3 DEF PopulateWild, Accounting
<1>4. ASSUME NEW t \in Threads, Map(t)
      PROVE  Accounting'
  BY <1>4, MapAccounting
<1>5. ASSUME \/ Share \/ UNCHANGED vars
             \/ \E t \in Threads : Killed(t) \/ \E u \in Uris : Call(t, u)
      PROVE  Accounting'
  <2>1. UNCHANGED <<items, usage, live, clone>> /\ (phase' = phase \/ phase' = "shared")
    BY <1>5 DEF Share, Killed, Call, vars, table
  <2>2. \A t \in Threads : pc'[t] = "count" <=> pc[t] = "count"
    BY <1>1, <1>5 DEF Share, Killed, Call, vars, TypeOK
  <2>3. Taken' = Taken /\ Holding' = Holding /\ Counting' = Counting
    BY <2>1, <2>2 DEF Taken, Holding, Counting
  <2>4. phase' # phase => phase = "new"
    BY <1>5 DEF Share, Killed, Call, vars, table
  <2> QED
    BY <2>1, <2>3, <2>4 DEF Accounting
<1>6. CASE Free
  <2>1. /\ phase = "shared" /\ phase' = "freed"
        /\ usage' = usage - Cardinality(Taken) /\ live' = live - Cardinality(Taken)
        /\ Holding' = Holding /\ Counting' = Counting
    BY <1>6 DEF Free, Holding, Counting
  <2>2. /\ Cardinality(Taken) \in Nat /\ Cardinality(Holding) \in Nat
        /\ Cardinality(Counting) \in Nat /\ usage \in Int /\ live \in Int
    BY <1>1, CountedSets DEF TypeOK
  <2>3. /\ live = Cardinality(Taken) + Cardinality(Holding)
        /\ usage + Cardinality(Counting) = Cardinality(Taken)
    BY <2>1 DEF Accounting
  <2> DEFINE taken == IF phase' = "freed" THEN 0 ELSE Cardinality(Taken')
  <2>4. taken = 0
    BY <2>1
  <2> HIDE DEF taken
  <2>5. live' = 0 + Cardinality(Holding) /\ usage' + Cardinality(Counting) = 0
    <3> DEFINE T == Cardinality(Taken)   H == Cardinality(Holding)   C == Cardinality(Counting)
    <3>1. /\ T \in Nat /\ H \in Nat /\ C \in Nat /\ usage \in Int /\ live \in Int
          /\ live = T + H /\ usage + C = T /\ usage' = usage - T /\ live' = live - T
      BY <2>1, <2>2, <2>3
    <3> HIDE DEF T, H, C
    <3>2. live' = 0 + H /\ usage' + C = 0
      BY <3>1
    <3> QED
      BY <3>2 DEF H, C
  <2>6. live' = taken + Cardinality(Holding') /\ usage' + Cardinality(Counting') = taken
    BY <2>1, <2>4, <2>5
  <2> QED
    BY <2>6 DEF Accounting, taken
<1> QED
  BY <1>2, <1>3, <1>4, <1>5, <1>6 DEF Next

(* Every copy of a URI is in the table or with one thread and every taken  *)
(* slot is counted or about to be, in every interleaving; what is missing  *)
(* at the end went with threads that were killed, one copy or one count    *)
(* each (_mapper_map, mapper_free, mapper_get_usage).                      *)
THEOREM MapperAccounting == Spec => []Accounting
<1>1. Init => Accounting
  <2> SUFFICES ASSUME Init PROVE Accounting
    OBVIOUS
  <2>1. Taken = {} /\ Holding = {} /\ Counting = {}
    BY DEF Init, Taken, Holding, Counting
  <2>2. Cardinality(Taken) = 0 /\ Cardinality(Holding) = 0 /\ Cardinality(Counting) = 0
    BY <2>1, FS_EmptySet
  <2> QED
    BY <2>2 DEF Init, Accounting
<1> QED
  BY <1>1, MapperInvariant, NextAccounting, PTL DEF Spec
-----------------------------------------------------------------------------
(***************************************************************************)
(* The mapper as an atomic table of pairs                                  *)
(***************************************************************************)
Urids == 1 .. NStats + NItems - 1

(* A URI that may be stored now, by its probe sequence, has no slot yet.   *)
LEMMA Absent ==
  ASSUME Placed, NEW u \in Uris, NEW k \in Slots,
         Passed(u, k), items[Slot(u, k)] = NoUri
  PROVE  \A s \in Slots : items[s] # u
<1> SUFFICES ASSUME NEW s \in Slots, items[s] = u PROVE FALSE
  OBVIOUS
<1>1. PICK j \in Slots : s = Slot(u, j) /\ Passed(u, j)
  BY DEF Placed
<1>2. j \in Nat /\ k \in Nat
  BY DEF Slots
<1>3. j < k => items[Slot(u, j)] # u
  BY <1>2 DEF Passed
<1>4. k < j => items[Slot(u, k)] # NoUri
  BY <1>1, <1>2 DEF Passed
<1> QED
  BY <1>1, <1>2, <1>3, <1>4

(* The URIDs of taken slots are in range, and an empty slot has its own.   *)
LEMMA UridRange ==
  ASSUME TypeOK, Labelled
  PROVE  \A s \in Slots : Urid(s) \in Urids /\ (items[s] = NoUri => stat[s] = 0)
<1> SUFFICES ASSUME NEW s \in Slots
             PROVE  Urid(s) \in Urids /\ (items[s] = NoUri => stat[s] = 0)
  OBVIOUS
<1>1. stat[s] \in 0 .. NStats - 1
  BY DEF TypeOK
<1>2. stat[s] # 0 => items[s] \in Uris
  BY <1>1 DEF Labelled
<1> QED
  BY <1>1, <1>2 DEF Urid, Urids, Slots

(* A store into an empty slot adds one pair to the table.                  *)
LEMMA StoreAssigns ==
  ASSUME TypeOK, NEW s \in Slots, NEW u \in Uris, items[s] = NoUri,
         items' = [items EXCEPT ![s] = u],
         \A r \in Slots \ {s} : stat'[r] = stat[r]
  PROVE  Assigned' = Assigned \cup {<<u, Urid(s)'>>}
<1>1. \A r \in Slots \ {s} : items'[r] = items[r] /\ Urid(r)' = Urid(r)
  BY DEF TypeOK, Urid
<1>2. items'[s] = u /\ u # NoUri
  BY DEF TypeOK
<1>3. Taken' = Taken \cup {s} /\ s \notin Taken
  BY <1>1, <1>2 DEF Taken
<1>4. Assigned' = {<<items'[r], Urid(r)'>> : r \in Taken'}
  BY DEF Assigned
<1>5. \A r \in Taken : r \in Slots \ {s}
  BY <1>3 DEF Taken
<1> QED
  BY <1>1, <1>2, <1>3, <1>4, <1>5 DEF Assigned

(* Nothing is assigned while the slots and their URIDs stay as they are.   *)
LEMMA AssignedSame == UNCHANGED <<items, stat>> => Assigned' = Assigned
BY DEF Assigned, Taken, Urid

(* mapper_new gives a static URI its URID in one step.                     *)
LEMMA PopulateAssigns ==
  ASSUME IInv, Populate
  PROVE  \E u \in Uris, n \in Urids : Atomic!Assign(u, n)
<1> USE DEF IInv
<1>1. npop \in 1 .. NStats - 1 /\ Stats[npop] \in Uris
  BY DEF Populate, TypeOK
<1>2. PICK n \in 1 .. NStats - 1 : n = npop
  BY <1>1
<1>3. PICK u \in Uris : u = Stats[n]
  BY <1>1, <1>2
<1>4. PICK k \in Slots :
        /\ FirstFit(u, k)
        /\ items[Slot(u, k)] = NoUri
        /\ items' = [items EXCEPT ![Slot(u, k)] = u]
        /\ stat' = [stat EXCEPT ![Slot(u, k)] = n]
  BY <1>2, <1>3 DEF Populate
<1>5. PICK s \in Slots : s = Slot(u, k)
  BY SlotType DEF Slots
<1>6. items[s] = NoUri /\ items' = [items EXCEPT ![s] = u] /\ stat' = [stat EXCEPT ![s] = n]
  BY <1>4, <1>5
<1>7. \A r \in Slots : items[r] # u
  <2>1. Passed(u, k)
    BY <1>4 DEF FirstFit, Settles, Passed
  <2> QED
    BY <1>4, <2>1, Absent
<1>8. Assigned' = Assigned \cup {<<u, n>>}
  <2>1. \A r \in Slots \ {s} : stat'[r] = stat[r]
    BY <1>6 DEF TypeOK
  <2>2. Urid(s)' = n
    BY <1>6 DEF TypeOK, Urid
  <2> QED
    BY <1>6, <2>1, <2>2, StoreAssigns
<1>9. ASSUME NEW r \in Taken PROVE items[r] # u /\ Urid(r) # n
  <2>1. r \in Slots /\ stat[r] \in Nat
    BY DEF Taken, TypeOK
  <2>2. stat[r] # 0 => stat[r] < n
    BY <1>2, <2>1 DEF Labelled
  <2> QED
    BY <1>7, <2>1, <2>2 DEF Urid, Slots
<1>10. \A a \in Assigned : a[1] # u /\ a[2] # n
  BY <1>9 DEF Assigned
<1>11. <<u, n>> \in {<<Stats[m], m>> : m \in 1 .. NStats - 1}
  BY <1>3
<1>12. UNCHANGED <<uri, answers>> /\ n \in Urids
  BY DEF Populate, Urids, Slots
<1> QED
  BY <1>8, <1>10, <1>11, <1>12 DEF Atomic!Assign, Atomic!Eligible

(* A successful compare-and-swap gives a URI that is not static a URID of  *)
(* its own in one step.                                                    *)
LEMMA CasAssigns ==
  ASSUME IInv, NEW t \in Threads, Cas(t), phase = "shared", items[Here(t)] = NoUri
  PROVE  \E u \in Uris, n \in Urids : Atomic!Assign(u, n)
<1> USE DEF IInv
<1>1. pc[t] = "cas" /\ uri[t] \in Uris /\ Here(t) \in Slots /\ probe[t] \in Slots
  <2>1. pc[t] = "cas"
    BY DEF Cas
  <2> QED
    BY <2>1, HereType DEF TypeOK
<1>2. PICK u \in Uris : u = uri[t]
  BY <1>1
<1>3. PICK s \in Slots : s = Here(t)
  BY <1>1
<1>4. /\ items[s] = NoUri /\ items' = [items EXCEPT ![s] = u]
      /\ UNCHANGED <<stat, uri, answers>>
  BY <1>2, <1>3 DEF Cas
<1>5. \A r \in Slots : items[r] # u
  BY <1>1, <1>2, Absent DEF Searching, Here
<1>6. PICK n \in Urids : n = s + NStats
  BY DEF Urids, Slots
<1>7. Assigned' = Assigned \cup {<<u, n>>}
  <2>1. stat[s] = 0
    BY <1>4, UridRange
  <2>2. Urid(s)' = n
    BY <1>4, <1>6, <2>1 DEF Urid
  <2> QED
    BY <1>4, <2>2, StoreAssigns
<1>8. ASSUME NEW r \in Taken PROVE items[r] # u /\ Urid(r) # n
  <2>1. r \in Slots /\ r # s /\ stat[r] \in 0 .. NStats - 1
    BY <1>4 DEF Taken, TypeOK
  <2> QED
    BY <1>5, <1>6, <2>1 DEF Urid, Slots
<1>9. \A a \in Assigned : a[1] # u /\ a[2] # n
  BY <1>8 DEF Assigned
<1>10. \A a \in {<<Stats[m], m>> : m \in 1 .. NStats - 1} : a[1] # u /\ a[2] # n
  <2> SUFFICES ASSUME NEW m \in 1 .. NStats - 1 PROVE Stats[m] # u /\ m # n
    OBVIOUS
  <2>1. \E r \in Slots : items[r] = Stats[m]
    BY DEF Labelled
  <2> QED
    BY <1>5, <1>6, <2>1 DEF Slots
<1> QED
  BY <1>2, <1>4, <1>7, <1>9, <1>10 DEF Atomic!Assign, Atomic!Eligible

(* Any other step of map assigns nothing: it goes on, answers with a pair  *)
(* that is in force, or refuses.                                           *)
LEMMA MapReturns ==
  ASSUME IInv, NEW t \in Threads, Map(t), UNCHANGED items
  PROVE  Atomic!Answer(t) \/ Atomic!Refuse(t) \/ UNCHANGED <<Assigned, uri, answers>>
<1> USE DEF IInv
<1>1. pc[t] # "idle" /\ uri[t] # NoUri /\ Here(t) \in Slots /\ uri[t] \in Uris
  <2>1. pc[t] # "idle"
    BY DEF Map, Load, Alloc, OutOfMemory, Cas, Count
  <2> QED
    BY <2>1, HereType DEF TypeOK
<1>2. UNCHANGED Assigned
  <2>1. UNCHANGED stat
    BY DEF Map, Load, Alloc, OutOfMemory, Cas, Count, table
  <2> QED
    BY <2>1, AssignedSame
<1>3. \/ uri' = [uri EXCEPT ![t] = NoUri]
      \/ UNCHANGED <<uri, answers>>
  <2>1. ASSUME NEW n, Return(t, n) PROVE uri' = [uri EXCEPT ![t] = NoUri]
    BY <2>1 DEF Return
  <2>2. ASSUME NextProbe(t)
        PROVE  uri' = [uri EXCEPT ![t] = NoUri] \/ UNCHANGED <<uri, answers>>
    BY <2>1, <2>2 DEF NextProbe
  <2> QED
    BY <2>1, <2>2 DEF Map, Load, Alloc, OutOfMemory, Cas, Count
<1>4. CASE answers' = answers
  BY <1>1, <1>2, <1>3, <1>4 DEF Atomic!Refuse, Atomic!Done
<1>5. CASE answers' # answers
  <2>1. items[Here(t)] = uri[t] /\ answers' = answers \cup {<<uri[t], Urid(Here(t))>>}
    BY <1>5, MapAnswers
  <2>2. <<uri[t], Urid(Here(t))>> \in Assigned
    BY <1>1, <2>1 DEF Assigned, Taken
  <2> QED
    BY <1>1, <1>2, <1>3, <1>5, <2>1, <2>2 DEF Atomic!Answer, Atomic!Done
<1> QED
  BY <1>4, <1>5

(* The mapper implements an atomic table of pairs: in every interleaving   *)
(* of map calls, killed threads and failed allocations included, each URI  *)
(* gets its URID in one step (Populate or the compare-and-swap), it never  *)
(* changes, and every answer is a pair in force (mapper_new, _mapper_map). *)
THEOREM MapperImplementsUriMap == Spec => MapsAtomically
<1>1. Init => Atomic!Init
  BY DEF Init, Atomic!Init, Assigned, Taken
<1>2. IInv /\ [Next]_vars => [Atomic!Next]_(Atomic!vars)
  <2> SUFFICES ASSUME IInv, [Next]_vars
               PROVE  Atomic!Next \/ UNCHANGED <<Assigned, uri, answers>>
    BY DEF Atomic!vars
  <2>1. CASE Populate
    BY <2>1, PopulateAssigns DEF Atomic!Next, Urids
  <2>2. ASSUME NEW t \in Threads, Map(t)
        PROVE  Atomic!Next \/ UNCHANGED <<Assigned, uri, answers>>
    <3>1. CASE UNCHANGED items
      BY <2>2, <3>1, MapReturns DEF Atomic!Next
    <3>2. CASE items' # items
      <4>1. Cas(t) /\ items[Here(t)] = NoUri
        BY <2>2, <3>2 DEF Map, Load, Alloc, OutOfMemory, Cas, Count, table
      <4>2. phase = "shared"
        BY <2>2, MapStep DEF IInv
      <4> QED
        BY <4>1, <4>2, CasAssigns DEF Atomic!Next, Urids
    <3> QED
      BY <3>1, <3>2
  <2>3. ASSUME NEW t \in Threads, NEW u \in Uris, Call(t, u)
        PROVE  Atomic!Call(t, u)
    <3>1. uri[t] = NoUri
      BY <2>3 DEF Call, IInv, TypeOK
    <3> QED
      BY <2>3, <3>1, AssignedSame DEF Call, Atomic!Call, table
  <2>4. CASE \/ PopulateWild \/ Share \/ Free \/ UNCHANGED vars
             \/ \E t \in Threads : Killed(t)
    <3>1. UNCHANGED <<items, stat, uri, answers>>
      BY <2>4 DEF PopulateWild, Share, Free, Killed, vars, table
    <3> QED
      BY <3>1, AssignedSame
  <2> QED
    BY <2>1, <2>2, <2>3, <2>4 DEF Next, Atomic!Next
<1> QED
  BY <1>1, <1>2, MapperInvariant, PTL DEF Spec, MapsAtomically, Atomic!Spec
=============================================================================
