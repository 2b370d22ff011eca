------------------------------- MODULE UriMap --------------------------------
(***************************************************************************)
(* What the mapper promises its callers: one table of pairs of a URI and   *)
(* a URID, in which a pair appears at one instant and stays, and of which  *)
(* every answer is read.  A call may also be refused.  Module Mapper       *)
(* implements this specification.                                          *)
(***************************************************************************)
CONSTANTS Threads, Uris, NoUri, Urids,
          Static    \* the pairs of a URI and a URID fixed in advance

VARIABLES assigned,  \* the pairs in force
          asked,     \* the URI each thread waits for, or NoUri
          answers    \* the pairs that calls have returned

vars == <<assigned, asked, answers>>

Init ==
  /\ assigned = {} /\ answers = {}
  /\ asked = [t \in Threads |-> NoUri]

(* a URI with a fixed URID gets that one, any other gets a URID of its own *)
(* and only because somebody asked                                         *)
Eligible(u, n) ==
  \/ <<u, n>> \in Static
  \/ /\ \A a \in Static : a[1] # u /\ a[2] # n
     /\ \E t \in Threads : asked[t] = u

Assign(u, n) ==
  /\ Eligible(u, n)
  /\ \A a \in assigned : a[1] # u /\ a[2] # n
  /\ assigned' = assigned \cup {<<u, n>>}
  /\ UNCHANGED <<asked, answers>>

Call(t, u) ==
  /\ asked[t] = NoUri
  /\ asked' = [asked EXCEPT ![t] = u]
  /\ UNCHANGED <<assigned, answers>>

Done(t) ==
  /\ asked[t] # NoUri
  /\ asked' = [asked EXCEPT ![t] = NoUri]
  /\ UNCHANGED assigned
Answer(t) ==
  /\ Done(t)
  /\ \E a \in assigned : a[1] = asked[t] /\ answers' = answers \cup {a}
Refuse(t) ==
  /\ Done(t)
  /\ UNCHANGED answers

Next ==
  \/ \E u \in Uris, n \in Urids : Assign(u, n)
  \/ \E t \in Threads : Answer(t) \/ Refuse(t) \/ \E u \in Uris : Call(t, u)

Spec == Init /\ [][Next]_vars
=============================================================================
