------------------------------- MODULE Mapper --------------------------------
(***************************************************************************)
(* The lock-free table that maps URIs to URIDs (subprojects/mapper.lv2).   *)
(* lv2lint fills it with its static URIs before anything else runs, then   *)
(* hands it to every plugin: the linter, the child it runs the plugin in   *)
(* (which shares its memory) and the plugin's own threads all map through  *)
(* it at once.  Every atomic operation of a map call is a step of its own. *)
(*                                                                         *)
(* A slot holds a pointer to a private copy of a URI; the model keeps the  *)
(* URI and counts the copies, which is all that comparing them with strcmp *)
(* can tell apart.                                                         *)
(***************************************************************************)
EXTENDS Integers, FiniteSets

CONSTANTS Threads,      \* whoever may call map
          Uris,         \* the URIs that are ever mapped
          NoUri,        \* the null pointer: an empty slot, a missing argument
          Hash,         \* mum_hash: any function of the URI
          NItems,       \* slots
          NStats,       \* one more than the number of static URIDs
          Stats,        \* the URI of each static URID 1 .. NStats - 1
          MayRunOut     \* whether the allocator may return NULL

ASSUME MapperAssumption ==
  /\ NoUri \notin Uris
  /\ NItems \in Nat \ {0}
  /\ NStats \in Nat \ {0}
  /\ Hash \in [Uris -> Nat]
  /\ Stats \in [1 .. NStats - 1 -> Uris]
  /\ MayRunOut \in BOOLEAN
  /\ IsFiniteSet(Threads)

Slots == 0 .. NItems - 1

(* the slot a map call of u looks at in its k-th iteration *)
Slot(u, k) == (Hash[u] + k * k) % NItems

VARIABLES
  items,       \* the URI in each slot, or NoUri
  stat,        \* the static URID of each slot, or 0
  usage,       \* the usage counter
  live,        \* copies allocated and not freed (nalloc - nfree of the test)
  phase,       \* new | shared | freed | wild (a store outside the table)
  npop,        \* the next static URID to populate
  pc,          \* each thread: idle | load | alloc | cas | count
  dead,        \* the threads killed inside a map call
  uri,         \* the URI it is mapping
  probe,       \* its loop index
  clone,       \* whether it holds a copy of the URI
  answers      \* history: every <<URI, URID>> a map call returned, 0 excluded

table == <<items, stat, usage, live, phase, npop>>
vars == <<table, pc, dead, uri, probe, clone, answers>>
-----------------------------------------------------------------------------
(* variants: forgetting static URIDs, counting from one *)
UridNoStat(s) == s + NStats
UridShifted(s) == IF stat[s] # 0 THEN stat[s] ELSE s + NStats + 1
(* the URID of a slot *)
Urid(s) == IF stat[s] # 0 THEN stat[s] ELSE s + NStats

(* _mapper_unmap dereferences slot urid - nstats unless that exceeds nitems *)
Dereferences(urid) == urid >= NStats /\ ~(urid - NStats > NItems)
Unmap(urid) ==
  IF urid = 0 THEN NoUri
  ELSE IF urid < NStats THEN Stats[urid]
  ELSE IF Dereferences(urid) /\ urid - NStats \in Slots THEN items[urid - NStats]
  ELSE NoUri

Init ==
  /\ items = [s \in Slots |-> NoUri]
  /\ stat = [s \in Slots |-> 0]
  /\ usage = 0 /\ live = 0
  /\ phase = "new" /\ npop = 1
  /\ pc = [t \in Threads |-> "idle"]
  /\ dead = {}
  /\ uri = [t \in Threads |-> NoUri]
  /\ probe = [t \in Threads |-> 0]
  /\ clone = [t \in Threads |-> FALSE]
  /\ answers = {}
-----------------------------------------------------------------------------
(***************************************************************************)
(* mapper_new: one map call per static URI, before the table is shared     *)
(***************************************************************************)

(* an undisturbed map call of u stops at its k-th slot *)
Settles(u, k) == items[Slot(u, k)] \in {NoUri, u}
FirstFit(u, k) ==
  /\ k < NItems
  /\ Settles(u, k)
  /\ \A m \in 0 .. k - 1 : ~Settles(u, m)

Populate ==
  /\ phase = "new" /\ npop < NStats
  /\ \E k \in Slots :
       /\ FirstFit(Stats[npop], k)
       /\ items[Slot(Stats[npop], k)] = NoUri
       /\ items' = [items EXCEPT ![Slot(Stats[npop], k)] = Stats[npop]]
       /\ stat' = [stat EXCEPT ![Slot(Stats[npop], k)] = npop]
  /\ usage' = usage + 1 /\ live' = live + 1
  /\ npop' = npop + 1
  /\ UNCHANGED <<phase, pc, dead, uri, probe, clone, answers>>

(* The map call returned 0 (no slot, or no memory) or the static URID of a *)
(* URI listed twice: items[urid - nstats] is before the array, and what    *)
(* the program does after the store is anybody's guess.                    *)
PopulateWild ==
  /\ phase = "new" /\ npop < NStats
  /\ \/ MayRunOut
     \/ ~\E k \in Slots : FirstFit(Stats[npop], k) /\ items[Slot(Stats[npop], k)] = NoUri
  /\ phase' = "wild"
  /\ UNCHANGED <<items, stat, usage, live, npop, pc, dead, uri, probe, clone, answers>>

Share ==
  /\ phase = "new" /\ npop = NStats
  /\ phase' = "shared"
  /\ UNCHANGED <<items, stat, usage, live, npop, pc, dead, uri, probe, clone, answers>>
-----------------------------------------------------------------------------
(***************************************************************************)
(* _mapper_map                                                             *)
(***************************************************************************)
Here(t) == Slot(uri[t], probe[t])

(* a null URI is answered with 0 at once and changes nothing *)
Call(t, u) ==
  /\ phase = "shared" /\ pc[t] = "idle"
  /\ uri' = [uri EXCEPT ![t] = u]
  /\ probe' = [probe EXCEPT ![t] = 0]
  /\ pc' = [pc EXCEPT ![t] = "load"]
  /\ UNCHANGED <<table, dead, clone, answers>>

(* return urid; a copy that did not get into the table is freed *)
Return(t, urid) ==
  /\ answers' = IF urid = 0 THEN answers ELSE answers \cup {<<uri[t], urid>>}
  /\ pc' = [pc EXCEPT ![t] = "idle"]
  /\ uri' = [uri EXCEPT ![t] = NoUri]
  /\ probe' = [probe EXCEPT ![t] = 0]

FreeClone(t) ==
  /\ live' = IF clone[t] THEN live - 1 ELSE live
  /\ clone' = [clone EXCEPT ![t] = FALSE]

(* variants: one iteration too many, and a search that starts over *)
NextProbePastEnd(t) ==
  IF probe[t] < NItems
  THEN /\ probe' = [probe EXCEPT ![t] = @ + 1]
       /\ pc' = [pc EXCEPT ![t] = "load"]
       /\ UNCHANGED <<live, clone, uri, answers>>
  ELSE Return(t, 0) /\ FreeClone(t)
NextProbeWrap(t) ==
  /\ probe' = [probe EXCEPT ![t] = (@ + 1) % NItems]
  /\ pc' = [pc EXCEPT ![t] = "load"]
  /\ UNCHANGED <<live, clone, uri, answers>>
(* on to the next slot, or out of the loop with 0 *)
NextProbe(t) ==
  IF probe[t] + 1 < NItems
  THEN /\ probe' = [probe EXCEPT ![t] = @ + 1]
       /\ pc' = [pc EXCEPT ![t] = "load"]
       /\ UNCHANGED <<live, clone, uri, answers>>
  ELSE Return(t, 0) /\ FreeClone(t)

(* variant: the superfluous copy is not freed *)
LoadLeaky(t) ==
  /\ pc[t] = "load"
  /\ \/ /\ items[Here(t)] = NoUri
        /\ pc' = [pc EXCEPT ![t] = IF clone[t] THEN "cas" ELSE "alloc"]
        /\ UNCHANGED <<live, clone, uri, probe, answers>>
     \/ /\ items[Here(t)] = uri[t]
        /\ Return(t, Urid(Here(t)))
        /\ clone' = [clone EXCEPT ![t] = FALSE]
        /\ UNCHANGED live
     \/ /\ items[Here(t)] \notin {NoUri, uri[t]}
        /\ NextProbe(t)
  /\ UNCHANGED <<items, stat, usage, phase, npop>>
Load(t) ==
  /\ pc[t] = "load"
  /\ \/ /\ items[Here(t)] = NoUri
        /\ pc' = [pc EXCEPT ![t] = IF clone[t] THEN "cas" ELSE "alloc"]
        /\ UNCHANGED <<live, clone, uri, probe, answers>>
     \/ /\ items[Here(t)] = uri[t]
        /\ Return(t, Urid(Here(t)))
        /\ FreeClone(t)
     \/ /\ items[Here(t)] \notin {NoUri, uri[t]}
        /\ NextProbe(t)
  /\ UNCHANGED <<items, stat, usage, phase, npop>>

Alloc(t) ==
  /\ pc[t] = "alloc"
  /\ live' = live + 1
  /\ clone' = [clone EXCEPT ![t] = TRUE]
  /\ pc' = [pc EXCEPT ![t] = "cas"]
  /\ UNCHANGED <<items, stat, usage, phase, npop, uri, probe, answers>>

OutOfMemory(t) ==
  /\ pc[t] = "alloc" /\ MayRunOut
  /\ Return(t, 0)
  /\ UNCHANGED <<table, clone>>

(* variant: a lost race is not checked for the same URI *)
CasNoRecheck(t) ==
  /\ pc[t] = "cas"
  /\ \/ /\ items[Here(t)] = NoUri
        /\ items' = [items EXCEPT ![Here(t)] = uri[t]]
        /\ clone' = [clone EXCEPT ![t] = FALSE]
        /\ pc' = [pc EXCEPT ![t] = "count"]
        /\ UNCHANGED <<live, uri, probe, answers>>
     \/ /\ items[Here(t)] # NoUri
        /\ NextProbe(t)
        /\ UNCHANGED items
  /\ UNCHANGED <<stat, usage, phase, npop>>
(* The compare-and-swap.  Its failure order is relaxed; the copy's bytes   *)
(* are still seen because they are reached through the pointer just read.  *)
Cas(t) ==
  /\ pc[t] = "cas"
  /\ \/ /\ items[Here(t)] = NoUri
        /\ items' = [items EXCEPT ![Here(t)] = uri[t]]
        /\ clone' = [clone EXCEPT ![t] = FALSE]
        /\ pc' = [pc EXCEPT ![t] = "count"]
        /\ UNCHANGED <<live, uri, probe, answers>>
     \/ /\ items[Here(t)] = uri[t]
        /\ Return(t, Urid(Here(t)))
        /\ FreeClone(t)
        /\ UNCHANGED items
     \/ /\ items[Here(t)] \notin {NoUri, uri[t]}
        /\ NextProbe(t)
        /\ UNCHANGED items
  /\ UNCHANGED <<stat, usage, phase, npop>>

Count(t) ==
  /\ pc[t] = "count"
  /\ usage' = usage + 1
  /\ Return(t, Urid(Here(t)))
  /\ UNCHANGED <<items, stat, live, phase, npop, clone>>

Map(t) ==
  /\ t \notin dead
  /\ \/ Load(t)
     \/ Alloc(t)
     \/ OutOfMemory(t)
     \/ Cas(t)
     \/ Count(t)
  /\ UNCHANGED dead

(* The child that runs a plugin may be killed anywhere in a map call, and  *)
(* every thread of the plugin with it; the table lives on in the linter.   *)
Killed(t) ==
  /\ pc[t] # "idle" /\ t \notin dead
  /\ dead' = dead \cup {t}
  /\ UNCHANGED <<table, pc, uri, probe, clone, answers>>

(* mapper_free: each taken slot gives back its copy and its count.  The    *)
(* pointers themselves stay in the table, which is freed next.             *)
Taken == {s \in Slots : items[s] # NoUri}
Free ==
  /\ phase = "shared"
  /\ \A t \in Threads : pc[t] = "idle" \/ t \in dead
  /\ usage' = usage - Cardinality(Taken)
  /\ live' = live - Cardinality(Taken)
  /\ phase' = "freed"
  /\ UNCHANGED <<items, stat, npop, pc, dead, uri, probe, clone, answers>>

Next ==
  \/ Populate
  \/ PopulateWild
  \/ Share
  \/ \E t \in Threads : Map(t) \/ Killed(t) \/ \E u \in Uris : Call(t, u)
  \/ Free

Spec == Init /\ [][Next]_vars

(* A thread inside map runs on; nothing in it waits for another thread. *)
FairSpec == Spec /\ \A t \in Threads : WF_vars(Map(t))
-----------------------------------------------------------------------------
TypeOK ==
  /\ items \in [Slots -> Uris \cup {NoUri}]
  /\ stat \in [Slots -> 0 .. NStats - 1]
  /\ usage \in Int /\ live \in Int
  /\ phase \in {"new", "shared", "freed", "wild"}
  /\ npop \in 1 .. NStats
  /\ pc \in [Threads -> {"idle", "load", "alloc", "cas", "count"}]
  /\ dead \subseteq Threads
  /\ uri \in [Threads -> Uris \cup {NoUri}]
  /\ \A t \in Threads : pc[t] # "idle" <=> uri[t] \in Uris
  /\ probe \in [Threads -> Slots]
  /\ clone \in [Threads -> BOOLEAN]
  /\ answers \subseteq Uris \X Nat

(* No URI ever occupies two slots, however many threads race to insert it  *)
(* and whichever of them are killed: the reason why a URID is unique.      *)
UniqueSlot ==
  \A r, s \in Slots : items[r] # NoUri /\ items[r] = items[s] => r = s

(* Over the whole run and all threads, map is a function and one-to-one:   *)
(* two calls answer with the same URID exactly when they were given the    *)
(* same URI (the test's urid1 == urid2, between threads and over time).    *)
OneUridPerUri ==
  \A a, b \in answers : a[1] = b[1] <=> a[2] = b[2]

(* Whatever map ever answered, unmap turns back into the same URI.         *)
RoundTrip == phase = "shared" => \A a \in answers : Unmap(a[2]) = a[1]

(* A URI of the static list is answered with its static URID, which lv2lint *)
(* switches on (the test's urid == i).                                      *)
StaticUrids ==
  \A a \in answers, n \in 1 .. NStats - 1 : Stats[n] = a[1] => a[2] = n

(* Copies and counts: a copy is in the table or with one thread, a taken   *)
(* slot is counted or about to be.  What is missing at the end was lost    *)
(* with a killed thread, at most one copy or one count for each.           *)
Holding == {t \in Threads : clone[t]}
Counting == {t \in Threads : pc[t] = "count"}
Accounting ==
  phase # "wild" =>
    LET taken == IF phase = "freed" THEN 0 ELSE Cardinality(Taken)
    IN /\ live = taken + Cardinality(Holding)
       /\ usage + Cardinality(Counting) = taken

(* Every call returns unless its thread is killed: no thread is ever kept  *)
(* waiting by another, not even by one that died in the middle.            *)
CallsReturn ==
  \A t \in Threads : (pc[t] # "idle") ~> (pc[t] = "idle" \/ t \in dead)

(* unmap reads within the array ("invalid URID" for anything past it)      *)
UnmapInBounds ==
  phase = "shared" =>
    \A urid \in 0 .. NStats + NItems + 1 :
      Dereferences(urid) => urid - NStats \in Slots

(* map answers 0 for "item buffer overflow" only if no slot is free.       *)
Overflows(t) ==
  /\ pc[t] \in {"load", "cas"} /\ probe[t] = NItems - 1
  /\ pc'[t] = "idle" /\ answers' = answers
  /\ items[Here(t)] \notin {NoUri, uri[t]}
OverflowMeansFull ==
  [][\A t \in Threads : Overflows(t) => Taken = Slots]_vars
-----------------------------------------------------------------------------
(***************************************************************************)
(* Why it holds.  Slots are never emptied, and a URI is stored only after  *)
(* every earlier slot of its probe sequence was seen to belong to another. *)
(***************************************************************************)
Passed(u, k) == \A m \in 0 .. k - 1 : items[Slot(u, m)] \notin {NoUri, u}

Placed ==
  \A s \in Slots, u \in Uris : items[s] = u =>
    \E k \in Slots : s = Slot(u, k) /\ Passed(u, k)

Searching ==
  \A t \in Threads :
    pc[t] \in {"load", "alloc", "cas"} => Passed(uri[t], probe[t])

Inserted ==
  \A t \in Threads : pc[t] = "count" => items[Here(t)] = uri[t]

(* a slot's static URID is that of its URI, and no static URI lacks one    *)
Labelled ==
  /\ \A s \in Slots : stat[s] # 0 => stat[s] < npop /\ items[s] = Stats[stat[s]]
  /\ \A n \in 1 .. npop - 1 : \E s \in Slots : items[s] = Stats[n] /\ stat[s] = n
  /\ phase \in {"shared", "freed"} => npop = NStats
  /\ phase \in {"new", "wild"} =>
       answers = {} /\ \A t \in Threads : pc[t] = "idle"

Answered ==
  \A a \in answers : \E s \in Slots : items[s] = a[1] /\ a[2] = Urid(s)

(* Which threads hold a copy of their URI, and that nobody is in map any   *)
(* more when the table is freed, but for those who were killed there.      *)
Books ==
  /\ \A t \in Threads : /\ pc[t] = "alloc" => ~clone[t]
                        /\ pc[t] = "cas" => clone[t]
  /\ phase = "freed" => \A t \in Threads : pc[t] = "idle" \/ t \in dead

(* The inductive invariant of Mapper: what the uniqueness of URIDs and the *)
(* accounts rest on in every interleaving of map calls.                    *)
IInv ==
  /\ TypeOK
  /\ Placed
  /\ Searching
  /\ Inserted
  /\ Labelled
  /\ Answered
  /\ Books
-----------------------------------------------------------------------------
(* the pairs of a URI and a URID that the table stands for                 *)
Assigned == {<<items[s], Urid(s)>> : s \in Taken}

Atomic == INSTANCE UriMap WITH
            Urids    <- 1 .. NStats + NItems - 1,
            Static   <- {<<Stats[n], n>> : n \in 1 .. NStats - 1},
            assigned <- Assigned,
            asked    <- uri,
            answers  <- answers

(* The mapper implements the atomic table: whatever the interleaving of    *)
(* the probes, copies and swaps of many map calls, each pair appears in    *)
(* one step and never changes, and every answer is a pair that is in force *)
(* when the call returns.                                                  *)
MapsAtomically == Atomic!Spec
=============================================================================
