---------------------------- MODULE LintTraceProofs ----------------------------
(***************************************************************************)
(* Theorems about LintTrace: for every table, whatever numbers plugins     *)
(* call the kernel with, and any number of children, signals, kills and    *)
(* helpers.                                                                *)
(***************************************************************************)
EXTENDS LintTrace, FiniteSetTheorems, TLAPS

USE TraceAssumption

(* a set of places that is not empty has a first one *)
LEMMA LeastExists ==
  ASSUME NEW set, set \subseteq Nat, set # {}
  PROVE  Least(set) \in set
<1> DEFINE R == {ss \in Nat \X Nat : ss[1] < ss[2]}
<1>1. IsWellFoundedOn(R, Nat)
  <2>1. R = OpToRel(<, Nat)
    BY DEF OpToRel
  <2> QED
    BY <2>1, NatLessThanWellFounded
<1>2. \A c, d \in Nat : <<c, d>> \in R <=> c < d
  OBVIOUS
<1> HIDE DEF R
<1>3. PICK c \in set : \A d \in set : ~(<<d, c>> \in R)
  <2>1. \A T : T \subseteq Nat /\ T # {} => \E x \in T : \A y \in T : ~(<<y, x>> \in R)
    BY <1>1, WFMin, Zenon
  <2>2. set \subseteq Nat /\ set # {}
    OBVIOUS
  <2> QED
    BY <2>1, <2>2, Zenon
<1>4. ASSUME NEW d \in set PROVE c <= d
  <2>1. c \in Nat /\ d \in Nat
    OBVIOUS
  <2>2. ~(<<d, c>> \in R)
    BY <1>3, Zenon
  <2>3. ~(d < c)
    BY <1>2, <2>1, <2>2, Zenon
  <2> QED
    BY <2>1, <2>3
<1>5. \E x \in set : \A d \in set : x <= d
  BY <1>4
<1> QED
  BY <1>5 DEF Least

(* what syscall_from_id finds is a place with this number *)
LEMMA FromId ==
  ASSUME NEW m \in Machines, NEW id
  PROVE  /\ syscall_from_id(m, id) \in Calls(m) \cup {NONE}
         /\ syscall_from_id(m, id) # NONE => Tables[m][syscall_from_id(m, id)] = id
<1> DEFINE found == {c \in Calls(m) : Tables[m][c] = id}
<1>1. Calls(m) = 1..Len(Tables[m]) /\ Len(Tables[m]) \in Nat
  BY DEF Calls
<1>2. found \subseteq Nat
  BY <1>1
<1>3. CASE found = {}
  BY <1>3 DEF syscall_from_id
<1>4. CASE found # {}
  <2>1. Least(found) \in found
    BY <1>2, <1>4, LeastExists
  <2>2. syscall_from_id(m, id) = Least(found)
    BY <1>4 DEF syscall_from_id
  <2> QED
    BY <2>1, <2>2
<1> QED
  BY <1>3, <1>4

(* the number that ends a thread is a number *)
LEMMA ExitIsANumber == \A m \in Machines : Tables[m][Exit[m]] \in Int
BY DEF Calls

(* the actions by name *)
LEMMA Actions ==
  ASSUME Next
  PROVE  \/ NextPlugin \/ Clone \/ OnSigstop \/ OnEntry \/ OnExit \/ OnSignal \/ Reap \/ GiveUp
         \/ Attach \/ AttachFails \/ CallEnds \/ Dies \/ Kill \/ Signal \/ Enable \/ Disable
         \/ Leave \/ SystemCall \/ Quit \/ LogBegin \/ LogEnd \/ StartHelper \/ HelperLogs
         \/ HelperEnds \/ HelperDone
BY DEF Next, Parent, Wait, Child
-----------------------------------------------------------------------------
(* the truth values of TypeOK, and the rest *)
Truth ==
  /\ enabled \in BOOLEAN /\ logging \in BOOLEAN
  /\ fell \in BOOLEAN /\ quit \in BOOLEAN /\ disturbed \in BOOLEAN
Rest ==
  /\ machine \in Machines
  /\ call \in Calls(machine) \cup {NONE} /\ syscall \subseteq Calls(machine)
  /\ at \in {"none", "attach", "ready", "plugin", "leave", "exit", "dead", "killed"}
  /\ nr \in Int \cup {NoCall}
  /\ stop \in {"none", "sigstop", "entry", "exit", "signal"}
  /\ code \in {0, 1} /\ helper \in {"none", "runs", "logs"}
  /\ result \in {"none", "ok", "failed"}
  /\ made \subseteq Int
  /\ kids \in 0..Kids[machine] /\ left \in 0..Budget[machine]

LEMMA TruthStep == ASSUME TypeOK, Next PROVE Truth'
BY Actions
   DEF TypeOK, Truth, NextPlugin, Clone, OnSigstop, OnEntry, OnExit, OnSignal, Reap, GiveUp, Attach,
       AttachFails, CallEnds, Dies, Kill, Signal, Enable, Disable, Leave, SystemCall, Quit,
       LogBegin, LogEnd, StartHelper, HelperLogs, HelperEnds, HelperDone,
       ShowInfo, kidVars, shmVars, appVars, history, bounds

LEMMA RestStep == ASSUME TypeOK, Places, Next PROVE Rest'
<1> USE DEF TypeOK, Rest, Places
<1>1. CASE NextPlugin
  BY <1>1 DEF NextPlugin, kidVars, shmVars, appVars, history, bounds
<1>2. CASE Clone
  BY <1>2 DEF Clone, kidVars, shmVars, appVars, history, bounds
<1>3. CASE OnSigstop
  BY <1>3 DEF OnSigstop, ShowInfo, kidVars, shmVars, appVars, history, bounds
<1>4. CASE OnEntry
  BY <1>4, FromId DEF OnEntry, ShowInfo, kidVars, shmVars, appVars, history, bounds
<1>5. CASE OnExit
  BY <1>5 DEF OnExit, ShowInfo, kidVars, shmVars, appVars, history, bounds
<1>6. CASE OnSignal
  BY <1>6 DEF OnSignal, Running, kidVars, shmVars, appVars, history, bounds
<1>7. CASE Reap
  BY <1>7 DEF Reap, kidVars, shmVars, appVars, history, bounds
<1>8. CASE GiveUp
  BY <1>8 DEF GiveUp, Acts, kidVars, shmVars, appVars, history, bounds
<1>9. CASE Attach
  BY <1>9 DEF Attach, Running, kidVars, shmVars, appVars, history, bounds
<1>10. CASE AttachFails
  BY <1>10 DEF AttachFails, Acts, kidVars, shmVars, appVars, history, bounds
<1>11. CASE CallEnds
  BY <1>11 DEF CallEnds, Running, kidVars, shmVars, appVars, history, bounds
<1>12. CASE Dies
  BY <1>12 DEF Dies, Running, kidVars, shmVars, appVars, history, bounds
<1>13. CASE Kill
  BY <1>13 DEF Kill, Acts, Running, kidVars, shmVars, appVars, history, bounds
<1>14. CASE Signal
  BY <1>14 DEF Signal, Acts, Running, kidVars, shmVars, appVars, history, bounds
<1>15. CASE Enable
  BY <1>15 DEF Enable, Running, kidVars, shmVars, appVars, history, bounds
<1>16. CASE Disable
  BY <1>16 DEF Disable, InPlugin, Running, kidVars, shmVars, appVars, history, bounds
<1>17. CASE Leave
  BY <1>17, ExitIsANumber DEF Leave, Running, kidVars, shmVars, appVars, history, bounds
<1>18. CASE SystemCall
  BY <1>18 DEF SystemCall, Acts, InPlugin, Running, kidVars, shmVars, appVars, history, bounds
<1>19. CASE Quit
  BY <1>19, ExitIsANumber
     DEF Quit, Acts, InPlugin, Running, kidVars, shmVars, appVars, history, bounds
<1>20. CASE LogBegin
  BY <1>20 DEF LogBegin, Acts, InPlugin, Running, kidVars, shmVars, appVars, history, bounds
<1>21. CASE LogEnd
  BY <1>21 DEF LogEnd, InPlugin, Running, kidVars, shmVars, appVars, history, bounds
<1>22. CASE StartHelper
  BY <1>22 DEF StartHelper, Acts, Running, kidVars, shmVars, appVars, history, bounds
<1>23. CASE HelperLogs
  BY <1>23 DEF HelperLogs, Acts, kidVars, shmVars, appVars, history, bounds
<1>24. CASE HelperEnds
  BY <1>24 DEF HelperEnds, kidVars, shmVars, appVars, history, bounds
<1>25. CASE HelperDone
  BY <1>25 DEF HelperDone, kidVars, shmVars, appVars, history, bounds
<1> QED
  BY Actions, <1>1, <1>2, <1>3, <1>4, <1>5, <1>6, <1>7, <1>8, <1>9, <1>10, <1>11, <1>12, <1>13,
     <1>14, <1>15, <1>16, <1>17, <1>18, <1>19, <1>20, <1>21, <1>22, <1>23, <1>24, <1>25

(* where the child is, what the watch and the static variable are then, and *)
(* what becomes of failures                                                 *)
LEMMA LogicStep ==
  ASSUME TypeOK, Places, Watch, Begun, Failure, Next
  PROVE  Places' /\ Watch' /\ Begun' /\ Failure'
<1> USE DEF TypeOK, Places, Watch, Begun, Failure
<1>1. CASE NextPlugin
  BY <1>1 DEF NextPlugin, kidVars, shmVars, appVars, history, bounds
<1>2. CASE Clone
  BY <1>2 DEF Clone, kidVars, shmVars, appVars, history, bounds
<1>3. CASE OnSigstop
  BY <1>3 DEF OnSigstop, ShowInfo, kidVars, shmVars, appVars, history, bounds
<1>4. CASE OnEntry
  BY <1>4 DEF OnEntry, ShowInfo, kidVars, shmVars, appVars, history, bounds
<1>5. CASE OnExit
  BY <1>5 DEF OnExit, ShowInfo, kidVars, shmVars, appVars, history, bounds
<1>6. CASE OnSignal
  BY <1>6 DEF OnSignal, Running, kidVars, shmVars, appVars, history, bounds
<1>7. CASE Reap
  BY <1>7 DEF Reap, kidVars, shmVars, appVars, history, bounds
<1>8. CASE GiveUp
  BY <1>8 DEF GiveUp, Acts, kidVars, shmVars, appVars, history, bounds
<1>9. CASE Attach
  BY <1>9 DEF Attach, Running, kidVars, shmVars, appVars, history, bounds
<1>10. CASE AttachFails
  BY <1>10 DEF AttachFails, Acts, kidVars, shmVars, appVars, history, bounds
<1>11. CASE CallEnds
  BY <1>11 DEF CallEnds, Running, kidVars, shmVars, appVars, history, bounds
<1>12. CASE Dies
  BY <1>12 DEF Dies, Running, kidVars, shmVars, appVars, history, bounds
<1>13. CASE Kill
  BY <1>13 DEF Kill, Acts, Running, kidVars, shmVars, appVars, history, bounds
<1>14. CASE Signal
  BY <1>14 DEF Signal, Acts, Running, kidVars, shmVars, appVars, history, bounds
<1>15. CASE Enable
  BY <1>15 DEF Enable, Running, kidVars, shmVars, appVars, history, bounds
<1>16. CASE Disable
  BY <1>16 DEF Disable, InPlugin, Running, kidVars, shmVars, appVars, history, bounds
<1>17. CASE Leave
  BY <1>17, ExitIsANumber DEF Leave, Running, kidVars, shmVars, appVars, history, bounds
<1>18. CASE SystemCall
  BY <1>18 DEF SystemCall, Acts, InPlugin, Running, kidVars, shmVars, appVars, history, bounds
<1>19. CASE Quit
  BY <1>19, ExitIsANumber
     DEF Quit, Acts, InPlugin, Running, kidVars, shmVars, appVars, history, bounds
<1>20. CASE LogBegin
  BY <1>20 DEF LogBegin, Acts, InPlugin, Running, kidVars, shmVars, appVars, history, bounds
<1>21. CASE LogEnd
  BY <1>21 DEF LogEnd, InPlugin, Running, kidVars, shmVars, appVars, history, bounds
<1>22. CASE StartHelper
  BY <1>22 DEF StartHelper, Acts, Running, kidVars, shmVars, appVars, history, bounds
<1>23. CASE HelperLogs
  BY <1>23 DEF HelperLogs, Acts, kidVars, shmVars, appVars, history, bounds
<1>24. CASE HelperEnds
  BY <1>24 DEF HelperEnds, kidVars, shmVars, appVars, history, bounds
<1>25. CASE HelperDone
  BY <1>25 DEF HelperDone, kidVars, shmVars, appVars, history, bounds
<1> QED
  BY Actions, <1>1, <1>2, <1>3, <1>4, <1>5, <1>6, <1>7, <1>8, <1>9, <1>10, <1>11, <1>12, <1>13,
     <1>14, <1>15, <1>16, <1>17, <1>18, <1>19, <1>20, <1>21, <1>22, <1>23, <1>24, <1>25

-----------------------------------------------------------------------------
(* What is recorded is what ended: only the stop at the end of a call adds *)
(* to the list, and what it adds is the place of the call begun.           *)
LEMMA RecordStep ==
  ASSUME IInv, Next, syscall' \ syscall # {}, ~disturbed
  PROVE  /\ at = "plugin" /\ ~logging
         /\ \A c \in syscall' \ syscall : Tables[machine][c] = nr
<1>1. OnExit
  BY Actions
     DEF NextPlugin, Clone, OnSigstop, OnEntry, OnSignal, Reap, GiveUp, Attach, AttachFails,
         CallEnds, Dies, Kill, Signal, Enable, Disable, Leave, SystemCall, Quit, LogBegin,
         LogEnd, StartHelper, HelperLogs, HelperEnds, HelperDone, ShowInfo, appVars
<1>2. at = "plugin" /\ nr # NoCall /\ stop = "exit"
  BY <1>1 DEF OnExit, IInv, Places
<1>3. enabled /\ syscall' = (IF call # NONE THEN syscall \cup {call} ELSE syscall)
  BY <1>1 DEF OnExit, ShowInfo
<1>4. ~logging
  BY <1>2, <1>3 DEF IInv, Watch, TypeOK
<1>5. call = syscall_from_id(machine, nr) /\ call # NONE
  BY <1>2, <1>3, <1>4 DEF IInv, Begun
<1>6. Tables[machine][call] = nr
  BY <1>5, FromId DEF IInv, TypeOK
<1> QED
  BY <1>2, <1>3, <1>4, <1>6

(* The end of a watched call puts it on the list; nothing takes a call     *)
(* away but the next plugin, for which the history is cleared as well.     *)
LEMMA MadeStep == ASSUME IInv, Next PROVE MadeIsRecorded'
<1>1. machine' = machine
  BY Actions
     DEF NextPlugin, Clone, OnSigstop, OnEntry, OnExit, OnSignal, Reap, GiveUp, Attach,
         AttachFails, CallEnds, Dies, Kill, Signal, Enable, Disable, Leave, SystemCall, Quit,
         LogBegin, LogEnd, StartHelper, HelperLogs, HelperEnds, HelperDone
<1>2. CASE NextPlugin
  BY <1>2 DEF NextPlugin, MadeIsRecorded
<1>3. CASE OnExit
  <2>1. syscall \subseteq syscall'
    BY <1>3 DEF OnExit, ShowInfo
  <2>2. ASSUME NEW number \in made', syscall_from_id(machine, number) # NONE
        PROVE  \E c \in syscall' : Tables[machine][c] = number
    <3>1. CASE number \in made
      BY <2>1, <2>2, <3>1 DEF IInv, MadeIsRecorded
    <3>2. CASE number \notin made
      <4>1. number = nr /\ at = "plugin" /\ ~logging /\ ~disturbed
        BY <1>3, <2>2, <3>2 DEF OnExit
      <4>2. nr # NoCall /\ stop = "exit" /\ enabled
        BY <1>3, <4>1 DEF OnExit, IInv, Places, Watch
      <4>3. call = syscall_from_id(machine, nr)
        BY <4>1, <4>2 DEF IInv, Begun
      <4>4. call \in syscall'
        BY <1>3, <2>2, <4>1, <4>2, <4>3 DEF OnExit, ShowInfo
      <4>5. Tables[machine][call] = number
        BY <2>2, <4>1, <4>3, FromId DEF IInv, TypeOK
      <4> QED
        BY <4>4, <4>5
    <3> QED
      BY <3>1, <3>2
  <2> QED
    BY <1>1, <2>2 DEF MadeIsRecorded
<1>4. CASE UNCHANGED <<made, syscall>>
  <2>1. ASSUME NEW number \in made', syscall_from_id(machine', number) # NONE
        PROVE  \E c \in syscall' : Tables[machine'][c] = number
    BY <1>1, <1>4, <2>1 DEF IInv, MadeIsRecorded
  <2> QED
    BY <2>1 DEF MadeIsRecorded
<1> QED
  BY Actions, <1>2, <1>3, <1>4
     DEF Clone, OnSigstop, OnEntry, OnSignal, Reap, GiveUp, Attach, AttachFails,
         CallEnds, Dies, Kill, Signal, Enable, Disable, Leave, SystemCall, Quit, LogBegin,
         LogEnd, StartHelper, HelperLogs, HelperEnds, HelperDone, ShowInfo, IInv, TypeOK,
         Places, appVars, history

(* A result is given when the child is reaped or given up; until the next  *)
(* child nothing happens that it speaks of.                                *)
LEMMA SuccessStep == ASSUME IInv, Next PROVE SuccessIsClean'
<1>1. CASE at = "none" /\ at' = "none"
  BY <1>1, Actions
     DEF NextPlugin, Clone, OnSigstop, OnEntry, OnExit, OnSignal, Reap, GiveUp, Attach,
         AttachFails, CallEnds, Dies, Kill, Signal, Enable, Disable, Leave, SystemCall, Quit,
         LogBegin, LogEnd, StartHelper, HelperLogs, HelperEnds, HelperDone, InPlugin,
         IInv, Places, TypeOK, SuccessIsClean, kidVars, shmVars
<1>2. CASE at # "none" /\ at' = "none"
  <2>1. Reap \/ GiveUp
    BY <1>2, Actions
       DEF NextPlugin, Clone, OnSigstop, OnEntry, OnExit, OnSignal, Attach, AttachFails,
           CallEnds, Dies, Kill, Signal, Enable, Disable, Leave, SystemCall, Quit, LogBegin,
           LogEnd, StartHelper, HelperLogs, HelperEnds, HelperDone, kidVars
  <2>2. CASE GiveUp
    BY <2>2 DEF GiveUp, SuccessIsClean
  <2>3. CASE Reap
    BY <2>3 DEF Reap, IInv, TypeOK, Places, Watch, Failure, SuccessIsClean, shmVars, history
  <2> QED
    BY <2>1, <2>2, <2>3
<1>3. CASE at' # "none"
  BY <1>3 DEF SuccessIsClean
<1> QED
  BY <1>1, <1>2, <1>3
-----------------------------------------------------------------------------
(* The inductive invariant holds in every reachable state: where the child *)
(* is, the watch, the static variable and the history agree.               *)
THEOREM TraceInvariant == Spec => []IInv
<1>1. Init => IInv
  <2>1. Init => Truth
    BY DEF Init, Truth
  <2>2. Init => Rest
    BY DEF Init, Rest
  <2>3. Init => Places /\ Watch /\ Begun /\ Failure
    BY DEF Init, Places, Watch, Begun, Failure
  <2>4. Init => MadeIsRecorded /\ SuccessIsClean
    BY DEF Init, MadeIsRecorded, SuccessIsClean
  <2> QED
    BY <2>1, <2>2, <2>3, <2>4 DEF IInv, TypeOK, Truth, Rest
<1>2. IInv /\ [Next]_vars => IInv'
  <2> SUFFICES ASSUME IInv, [Next]_vars PROVE IInv'
    OBVIOUS
  <2>1. CASE Next
    <3>1. TypeOK'
      BY <2>1, TruthStep, RestStep DEF IInv, TypeOK, Truth, Rest
    <3>2. Places' /\ Watch' /\ Begun' /\ Failure'
      BY <2>1, LogicStep DEF IInv
    <3> QED
      BY <2>1, <3>1, <3>2, MadeStep, SuccessStep DEF IInv
  <2>2. CASE UNCHANGED vars
    BY <2>2 DEF IInv, TypeOK, Places, Watch, Begun, Failure, MadeIsRecorded, SuccessIsClean,
                vars, kidVars, shmVars, appVars, history, bounds
  <2> QED
    BY <2>1, <2>2
<1> QED
  BY <1>1, <1>2, PTL DEF Spec

(* Every call made under the watch that the table has is in the list.      *)
THEOREM TraceMadeIsRecorded == Spec => []MadeIsRecorded
BY TraceInvariant, PTL DEF IInv

(* A callback that succeeded has come to its end, with the watch off.      *)
THEOREM TraceSuccessIsClean == Spec => []SuccessIsClean
BY TraceInvariant, PTL DEF IInv

(* What is added to the list is the call that ended, made by the plugin.   *)
THEOREM TraceRecordsWhatEnded == Spec => RecordsWhatEnded
<1>1. IInv /\ [Next]_vars =>
        [ (syscall' \ syscall # {} /\ ~disturbed) =>
            /\ at = "plugin" /\ ~logging
            /\ \A c \in syscall' \ syscall : Tables[machine][c] = nr ]_vars
  BY RecordStep
<1> QED
  BY <1>1, TraceInvariant, PTL DEF Spec, RecordsWhatEnded
================================================================================
