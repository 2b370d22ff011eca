--------------------------- MODULE LintSessionProofs ---------------------------
(***************************************************************************)
(* Theorems about LintSession: what main reports, for any number of        *)
(* plugins, ports, functions and chunks, and however many callbacks crash  *)
(* or leave by exit.                                                       *)
(***************************************************************************)
EXTENDS LintSession, TLAPS

USE SessionAssumption

LEMMA SectionsAre == Sections = {"connect_port", "run", "work_response"}
BY DEF Sections, Realtime, Test

Results == {"instantiate", "restore", "connect_port", "activate", "work", "work_response",
            "run", "deactivate", "cleanup"}
LEMMA ResultsAre == {Test(call) : call \in Calls} = Results
BY DEF Calls, Test, Results

LEMMA TestIsAResult == ASSUME NEW call \in Calls PROVE Test(call) \in Results
BY ResultsAre

LEMMA Actions ==
  ASSUME Next
  PROVE  \/ UnknownPlugin \/ Pick \/ Prepare \/ SpawnFails \/ Spawn \/ Reap \/ MainAllocates
         \/ TestPlugin \/ Exit \/ Start \/ NextChunk \/ QueueEmpty \/ Advance \/ Store
         \/ CallFunction \/ SystemCall \/ LogBegin \/ LogEnd \/ Schedule \/ Respond
         \/ Return \/ ReturnError \/ Crash \/ Quit
BY DEF Next, Main, Child

LEMMA Stages ==
  /\ Stage("instantiate") = 1 /\ Stage("restore") = 2 /\ Stage("prepare") = 3
  /\ Stage("connect_port") = 4 /\ Stage("activate") = 5 /\ Stage("work") = 6
  /\ Stage("work_response") = 7 /\ Stage("run") = 8 /\ Stage("work_2") = 9
  /\ Stage("work_response_2") = 10 /\ Stage("deactivate") = 11 /\ Stage("test") = 12
  /\ Stage("cleanup") = 13 /\ Stage("pick") = 14 /\ Stage("exit") = 14
  /\ \A c : Stage(c) \in 1..14
BY DEF Stage

(* The callbacks follow one another in their order. *)
LEMMA FollowStage ==
  ASSUME pc \in Calls, NEW alive \in BOOLEAN, NEW portsLeft \in Int
  PROVE  /\ Follow(alive, portsLeft) \in Calls \cup {"prepare", "test", "pick"}
         /\ \/ Stage(pc) < Stage(Follow(alive, portsLeft))
            \/ /\ pc = "connect_port" /\ Follow(alive, portsLeft) = "connect_port"
               /\ portsLeft > 0
         /\ Follow(alive, portsLeft) = "pick" <=> pc = "cleanup"
         /\ Follow(alive, portsLeft) # "cleanup"
         /\ Follow(alive, portsLeft) # "instantiate"
         /\ Follow(alive, portsLeft) = "connect_port" => pc = "connect_port" /\ portsLeft > 0
         /\ Follow(alive, portsLeft) = "test" =>
              pc = "deactivate" \/ (pc = "instantiate" /\ ~alive)
         /\ pc = "instantiate" /\ Follow(alive, portsLeft) # "test" => alive
<1>1. CASE pc = "instantiate"
  BY <1>1, Stages DEF Follow, Calls
<1>2. CASE pc = "restore"
  BY <1>2, Stages DEF Follow, Calls
<1>3. CASE pc = "connect_port"
  BY <1>3, Stages DEF Follow, Calls
<1>4. CASE pc = "activate"
  BY <1>4, Stages DEF Follow, Calls
<1>5. CASE pc = "work"
  BY <1>5, Stages DEF Follow, Calls
<1>6. CASE pc = "work_response"
  BY <1>6, Stages DEF Follow, Calls
<1>7. CASE pc = "run"
  BY <1>7, Stages DEF Follow, Calls
<1>8. CASE pc = "work_2"
  BY <1>8, Stages DEF Follow, Calls
<1>9. CASE pc = "work_response_2"
  BY <1>9, Stages DEF Follow, Calls
<1>10. CASE pc = "deactivate"
  BY <1>10, Stages DEF Follow, Calls
<1>11. CASE pc = "cleanup"
  BY <1>11, Stages DEF Follow, Calls
<1> QED
  BY <1>1, <1>2, <1>3, <1>4, <1>5, <1>6, <1>7, <1>8, <1>9, <1>10, <1>11 DEF Calls

(* One result is written, and the second passes only add to it. *)
Adding == {"connect_port", "work_2", "work_response_2"}
LEMMA RecordOne ==
  ASSUME status \in [Results -> BOOLEAN], pc \in Calls, NEW failed \in BOOLEAN,
         Record(failed)
  PROVE  /\ status' \in [Results -> BOOLEAN]
         /\ \A t \in Results \ {Test(pc)} : status'[t] <=> status[t]
         /\ failed => status'[Test(pc)]
         /\ pc \in Adding /\ status[Test(pc)] => status'[Test(pc)]
         /\ ~status'[Test(pc)] => ~failed /\ (pc \in Adding => ~status[Test(pc)])
<1>1. Test(pc) \in Results /\ status \in [Results -> BOOLEAN]
  BY TestIsAResult
<1> DEFINE value == IF pc \in Adding THEN status[Test(pc)] \/ failed ELSE failed
<1>2. status' = [status EXCEPT ![Test(pc)] = value]
  BY DEF Record, Adding
<1>3. value \in BOOLEAN
  BY <1>1
<1>4. /\ status'[Test(pc)] = value
      /\ \A t \in Results \ {Test(pc)} : status'[t] = status[t]
      /\ status' \in [Results -> BOOLEAN]
  <2> HIDE DEF value
  <2> QED
    BY <1>1, <1>2, <1>3
<1> QED
  BY <1>4

(* Only a second pass writes the result of an earlier call. *)
LEMMA TestPairs ==
  ASSUME NEW c \in Calls, NEW d \in Calls, Test(c) = Test(d), Stage(c) < Stage(d)
  PROVE  d \in {"work_2", "work_response_2"}
BY Stages DEF Calls, Test

LEMMA SectionOf == \A c \in Realtime : Test(c) \in Sections
BY DEF Sections

LEMMA TestIs ==
  \A c \in Calls : /\ Test(c) = "connect_port" <=> c = "connect_port"
                   /\ Test(c) = "run" <=> c = "run"
                   /\ Test(c) = "work_response" <=> c \in {"work_response", "work_response_2"}
BY DEF Calls, Test

(* Those of its stages that the invariants speak of, no plugin skips. *)
Mileposts == {"prepare", "work_response", "run", "work_2", "work_response_2"}
LEMMA FollowSkipsNone ==
  ASSUME pc \in Calls, NEW alive, alive = TRUE, NEW portsLeft \in Int, NEW c \in Mileposts,
         Stage(c) < Stage(Follow(alive, portsLeft)), Stage(Follow(alive, portsLeft)) <= 12
  PROVE  Stage(c) < Stage(pc) \/ c = pc
<1>1. CASE pc = "instantiate"
  BY <1>1, Stages DEF Follow, Mileposts
<1>2. CASE pc = "restore"
  BY <1>2, Stages DEF Follow, Mileposts
<1>3. CASE pc = "connect_port"
  BY <1>3, Stages DEF Follow, Mileposts
<1>4. CASE pc = "activate"
  BY <1>4, Stages DEF Follow, Mileposts
<1>5. CASE pc = "work"
  BY <1>5, Stages DEF Follow, Mileposts
<1>6. CASE pc = "work_response"
  BY <1>6, Stages DEF Follow, Mileposts
<1>7. CASE pc = "run"
  BY <1>7, Stages DEF Follow, Mileposts
<1>8. CASE pc = "work_2"
  BY <1>8, Stages DEF Follow, Mileposts
<1>9. CASE pc = "work_response_2"
  BY <1>9, Stages DEF Follow, Mileposts
<1>10. CASE pc = "deactivate"
  BY <1>10, Stages DEF Follow, Mileposts
<1>11. CASE pc = "cleanup"
  BY <1>11, Stages DEF Follow, Mileposts
<1> QED
  BY <1>1, <1>2, <1>3, <1>4, <1>5, <1>6, <1>7, <1>8, <1>9, <1>10, <1>11 DEF Calls

LEMMA TypedResult == status \in [Results -> BOOLEAN] => \A t \in Results : status[t] \in BOOLEAN
OBVIOUS
-----------------------------------------------------------------------------
(* the type invariant, by parts *)
Truth ==
  /\ instance \in BOOLEAN /\ restores \in BOOLEAN /\ syscall \in BOOLEAN
  /\ enabled \in BOOLEAN /\ bad \in BOOLEAN /\ logging \in BOOLEAN
Control ==
  /\ pc \in Calls \cup {"pick", "prepare", "test", "exit"}
  /\ n \in 0 .. NPlugins /\ ret \in 0 .. n
  /\ iface \in Ifaces \cup {{}} /\ ports \in 0 .. NPorts
  /\ kid \in {"none", "start", "plugin", "chunk", "loop", "advance", "store",
              "exited", "failed", "killed"}
  /\ left \in 0 .. Budget
Masks ==
  /\ forbidden \in [Sections -> SUBSET Functions] /\ mask \subseteq Functions
  /\ nonrt \in [Sections -> SUBSET Functions]
  /\ hit \subseteq Sections \X Functions /\ lost \subseteq Sections \X Functions
Sets ==
  /\ crashed \subseteq Tested
  /\ fell \subseteq Calls /\ unwell \subseteq Calls /\ quit \subseteq Calls
  /\ foreign \subseteq 1 .. n /\ spilled \subseteq 1 .. n
Queues == \A q \in {to_worker, from_worker} : q \in Seq(1 .. n) /\ Len(q) <= QueueCap

LEMMA TypeParts ==
  TypeOK <=> /\ Truth /\ Control /\ Masks /\ Sets /\ Queues
             /\ status \in [Results -> BOOLEAN]
BY ResultsAre, Zenon DEF TypeOK, Truth, Control, Masks, Sets, Queues

LEMMA TypePartsNext ==
  TypeOK' <=> /\ Truth' /\ Control' /\ Masks' /\ Sets' /\ Queues'
              /\ status' \in [Results -> BOOLEAN]
BY ResultsAre, Zenon DEF TypeOK, Truth, Control, Masks, Sets, Queues

LEMMA TruthStep == ASSUME Truth, Next PROVE Truth'
<1> USE DEF Truth
<1>1. CASE UnknownPlugin
  BY <1>1 DEF UnknownPlugin, mainVars, results, shmVars, queues, report, history
<1>2. CASE Pick
  BY <1>2 DEF Pick, mainVars, results, shmVars, queues, report, history
<1>3. CASE Prepare
  BY <1>3 DEF Prepare, mainVars, results, shmVars, queues, report, history
<1>4. CASE SpawnFails
  BY <1>4 DEF SpawnFails, Continue, mainVars, results, shmVars, queues, report, history
<1>5. CASE Spawn
  BY <1>5 DEF Spawn, mainVars, results, shmVars, queues, report, history
<1>6. CASE Reap
  BY <1>6 DEF Reap, Continue, mainVars, results, shmVars, queues, report, history
<1>7. CASE MainAllocates
  BY <1>7 DEF MainAllocates, mainVars, results, shmVars, queues, report, history
<1>8. CASE TestPlugin
  BY <1>8 DEF TestPlugin, mainVars, results, shmVars, queues, report, history
<1>9. CASE Exit
  BY <1>9 DEF Exit, mainVars, results, shmVars, queues, report, history
<1>10. CASE Start
  BY <1>10 DEF Start, shm_enable, Working, Responding, mainVars, results, shmVars, queues,
     report, history
<1>11. CASE NextChunk
  BY <1>11 DEF NextChunk, Consumer, Queue, Foreign, Working, mainVars, results, shmVars,
     queues, report, history
<1>12. CASE QueueEmpty
  BY <1>12 DEF QueueEmpty, Queue, Working, Outcome, mainVars, results, shmVars, queues,
     report, history
<1>13. CASE Advance
  BY <1>13 DEF Advance, Working, mainVars, results, shmVars, queues, report, history
<1>14. CASE Store
  BY <1>14 DEF Store, shm_disable, Outcome, mainVars, results, shmVars, queues, report, history
<1>15. CASE CallFunction
  BY <1>15 DEF CallFunction, Acts, InPlugin, mainVars, results, shmVars, queues, report, history
<1>16. CASE SystemCall
  BY <1>16 DEF SystemCall, Acts, InPlugin, mainVars, results, shmVars, queues, report, history
<1>17. CASE LogBegin
  BY <1>17 DEF LogBegin, Acts, InPlugin, mainVars, results, shmVars, queues, report, history
<1>18. CASE LogEnd
  BY <1>18 DEF LogEnd, mainVars, results, shmVars, queues, report, history
<1>19. CASE Schedule
  BY <1>19 DEF Schedule, Acts, InPlugin, Working, mainVars, results, shmVars, queues, report,
     history
<1>20. CASE Respond
  BY <1>20 DEF Respond, Acts, InPlugin, Working, mainVars, results, shmVars, queues, report,
     history
<1>21. CASE Return
  BY <1>21 DEF Return, InPlugin, Outcome, mainVars, results, shmVars, queues, report, history
<1>22. CASE ReturnError
  BY <1>22 DEF ReturnError, Acts, InPlugin, Working, Responding, mainVars, results, shmVars,
     queues, report, history
<1>23. CASE Crash
  BY <1>23 DEF Crash, mainVars, results, shmVars, queues, report, history
<1>24. CASE Quit
  BY <1>24 DEF Quit, InPlugin, mainVars, results, shmVars, queues, report, history
<1> QED
  BY Actions, <1>1, <1>2, <1>3, <1>4, <1>5, <1>6, <1>7, <1>8, <1>9, <1>10, <1>11, <1>12,
     <1>13, <1>14, <1>15, <1>16, <1>17, <1>18, <1>19, <1>20, <1>21, <1>22, <1>23, <1>24

(* back in main: what follows *)
LEMMA ContinueControl ==
  ASSUME Truth, Control, Turns, pc \in Calls, NEW failed \in BOOLEAN, Continue(failed)
  PROVE  /\ pc' \in Calls \cup {"prepare", "test", "pick"}
         /\ n' = n /\ ret' = ret /\ kid' = "none" /\ ~logging'
         /\ iface' \in Ifaces \cup {{}} /\ ports' \in 0 .. NPorts
         /\ instance' = (instance /\ pc # "cleanup")
         /\ pc' = Follow(instance, ports')
         /\ restores' = restores
<1>1. pc = "connect_port" => ports > 0
  BY DEF Turns
<1>2. /\ ports' = IF pc = "connect_port" THEN ports - 1 ELSE ports
      /\ pc' = Follow(instance, ports')
      /\ instance' = (instance /\ pc # "cleanup")
      /\ n' = n /\ ret' = ret /\ kid' = "none" /\ ~logging' /\ restores' = restores
  BY DEF Continue
<1>3. iface' \in Ifaces \cup {{}}
  BY DEF Continue, Control
<1>4. ports' \in 0 .. NPorts
  BY <1>1, <1>2 DEF Control
<1>5. instance \in BOOLEAN
  BY DEF Truth
<1> QED
  BY <1>2, <1>3, <1>4, <1>5, FollowStage

LEMMA ContinueTurns ==
  ASSUME Truth, Control, Turns, pc \in Calls, NEW failed \in BOOLEAN, Continue(failed)
  PROVE  Turns'
<1>1. /\ pc' = Follow(instance, ports') /\ instance' = (instance /\ pc # "cleanup")
      /\ n' = n /\ ret' = ret /\ kid' = "none" /\ ~logging' /\ ports' \in 0 .. NPorts
  BY ContinueControl
<1>2. instance \in BOOLEAN
  BY DEF Truth
<1>3. /\ pc' = "pick" <=> pc = "cleanup"
      /\ pc' # "cleanup"
      /\ pc' = "test" => pc = "deactivate" \/ (pc = "instantiate" /\ ~instance)
      /\ pc = "instantiate" /\ pc' # "test" => instance
      /\ pc' = "connect_port" => ports' > 0
      /\ pc' \in Calls \cup {"prepare", "test", "pick"}
  <2> HIDE DEF Calls
  <2>1. ports' \in Int
    BY <1>1
  <2> QED
    BY <1>1, <1>2, <2>1, FollowStage
<1>4. pc \notin {"instantiate", "cleanup"} => Stage(pc) \in 2..11
  BY Stages DEF Calls
<1>5. pc' \in Calls \ {"cleanup"} => Stage(pc') <= 11
  BY Stages DEF Calls
<1>6. Stage(pc) <= 12 \/ pc = "cleanup"
  BY Stages DEF Calls
<1>7. Stage(pc') \in 2..11 => instance'
  BY <1>1, <1>2, <1>3, <1>4, Stages DEF Turns
<1>8. Stage(pc') # 13
  BY <1>3, Stages DEF Calls
<1>9. Stage(pc') <= 12 => n' > ret'
  BY <1>1, <1>3, <1>6, Stages DEF Turns
<1> QED
  BY <1>1, <1>3, <1>7, <1>8, <1>9 DEF Turns

LEMMA ContinueStage ==
  ASSUME Truth, Control, Turns, pc \in Calls, NEW failed \in BOOLEAN, Continue(failed)
  PROVE  /\ Stage(pc) < Stage(pc') \/ (pc = "connect_port" /\ pc' = "connect_port")
         /\ \A c \in Mileposts : Over(c)' => Over(c) \/ c = pc
         /\ Stage(pc') >= 13 => Stage(pc) >= 13
         /\ pc' = "run" => pc # "run"
<1>1. /\ pc' = Follow(instance, ports') /\ ports' \in Int /\ instance \in BOOLEAN
      /\ instance' = (instance /\ pc # "cleanup")
  BY ContinueControl DEF Truth
<1>2. Stage(pc) < Stage(pc') \/ (pc = "connect_port" /\ pc' = "connect_port")
  BY <1>1, FollowStage
<1>3. ASSUME NEW c \in Mileposts, Over(c)' PROVE Over(c) \/ c = pc
  <2>1. instance /\ Stage(c) < Stage(pc') /\ Stage(pc') <= 12
    BY <1>1, <1>3 DEF Over
  <2>2. Stage(c) < Stage(pc) \/ c = pc
    BY <1>1, <2>1, FollowSkipsNone
  <2> QED
    BY <1>2, <2>1, <2>2, Stages DEF Over
<1>4. Stage(pc') >= 13 => Stage(pc) >= 13
  BY <1>1, FollowStage, Stages DEF Calls
<1> QED
  BY <1>2, <1>3, <1>4, Stages

LEMMA ControlStep == ASSUME Truth, Control, Turns, Next PROVE Control'
<1> USE DEF Truth, Control
<1>1. CASE UnknownPlugin
  BY <1>1 DEF UnknownPlugin, mainVars, results, shmVars, queues, report, history
<1>2. CASE Pick
  BY <1>2 DEF Pick, Calls, mainVars, results, shmVars, queues, report, history
<1>3. CASE Prepare
  BY <1>3 DEF Prepare, Calls, mainVars, results, shmVars, queues, report, history
<1>4. CASE SpawnFails
  <2>1. pc \in Calls /\ Continue(TRUE)
    BY <1>4, Zenon DEF SpawnFails
  <2>2. left' \in 0 .. Budget
    BY <1>4 DEF SpawnFails, Control
  <2> QED
    BY <2>1, <2>2, ContinueControl DEF Control
<1>5. CASE Spawn
  BY <1>5 DEF Spawn, mainVars, results, shmVars, queues, report, history
<1>6. CASE Reap
  <2>1. pc \in Calls /\ Continue(kid # "exited") /\ left' \in 0 .. Budget
    BY <1>6 DEF Reap, Control, Turns
  <2> QED
    BY <2>1, ContinueControl DEF Control
<1>7. CASE MainAllocates
  BY <1>7 DEF MainAllocates, mainVars, results, shmVars, queues, report, history
<1>8. CASE TestPlugin
  BY <1>8, Stages DEF TestPlugin, Turns, Calls, mainVars, results, shmVars, queues, report,
     history
<1>9. CASE Exit
  BY <1>9 DEF Exit, mainVars, results, shmVars, queues, report, history
<1>10. CASE Start
  BY <1>10 DEF Start, shm_enable, Working, Responding, mainVars, results, shmVars, queues,
     report, history
<1>11. CASE NextChunk
  BY <1>11 DEF NextChunk, Consumer, Queue, Foreign, Working, mainVars, results, shmVars,
     queues, report, history
<1>12. CASE QueueEmpty
  BY <1>12 DEF QueueEmpty, Queue, Working, Outcome, mainVars, results, shmVars, queues,
     report, history
<1>13. CASE Advance
  BY <1>13 DEF Advance, Working, mainVars, results, shmVars, queues, report, history
<1>14. CASE Store
  BY <1>14 DEF Store, shm_disable, Outcome, mainVars, results, shmVars, queues, report, history
<1>15. CASE CallFunction
  BY <1>15 DEF CallFunction, Acts, InPlugin, mainVars, results, shmVars, queues, report, history
<1>16. CASE SystemCall
  BY <1>16 DEF SystemCall, Acts, InPlugin, mainVars, results, shmVars, queues, report, history
<1>17. CASE LogBegin
  BY <1>17 DEF LogBegin, Acts, InPlugin, mainVars, results, shmVars, queues, report, history
<1>18. CASE LogEnd
  BY <1>18 DEF LogEnd, mainVars, results, shmVars, queues, report, history
<1>19. CASE Schedule
  BY <1>19 DEF Schedule, Acts, InPlugin, Working, mainVars, results, shmVars, queues, report,
     history
<1>20. CASE Respond
  BY <1>20 DEF Respond, Acts, InPlugin, Working, mainVars, results, shmVars, queues, report,
     history
<1>21. CASE Return
  BY <1>21 DEF Return, InPlugin, Outcome, mainVars, results, shmVars, queues, report, history
<1>22. CASE ReturnError
  BY <1>22 DEF ReturnError, Acts, InPlugin, Working, Responding, mainVars, results, shmVars,
     queues, report, history
<1>23. CASE Crash
  BY <1>23 DEF Crash, mainVars, results, shmVars, queues, report, history
<1>24. CASE Quit
  BY <1>24 DEF Quit, InPlugin, mainVars, results, shmVars, queues, report, history
<1> QED
  BY Actions, <1>1, <1>2, <1>3, <1>4, <1>5, <1>6, <1>7, <1>8, <1>9, <1>10, <1>11, <1>12,
     <1>13, <1>14, <1>15, <1>16, <1>17, <1>18, <1>19, <1>20, <1>21, <1>22, <1>23, <1>24

LEMMA Longer ==
  ASSUME NEW S, NEW q \in Seq(S), NEW e \in S
  PROVE  /\ Append(q, e) \in Seq(S) /\ Len(Append(q, e)) = Len(q) + 1
         /\ \A i \in 1 .. Len(Append(q, e)) :
              Append(q, e)[i] = e \/ (i \in 1 .. Len(q) /\ Append(q, e)[i] = q[i])
OBVIOUS

LEMMA TurnsStep == ASSUME Truth, Control, Turns, Queues, Next PROVE Turns'
<1> USE DEF Truth, Control, Turns
<1>1. CASE UnknownPlugin
  BY <1>1, Stages DEF UnknownPlugin, Queue, Working, Responding, Realtime, Calls, mainVars,
     results, shmVars, queues, report, history
<1>2. CASE Pick
  BY <1>2, Stages DEF Pick, Queue, Working, Responding, Realtime, Calls, mainVars, results,
     shmVars, queues, report, history
<1>3. CASE Prepare
  BY <1>3, Stages DEF Prepare, Queue, Working, Responding, Realtime, Calls, mainVars, results,
     shmVars, queues, report, history
<1>4. CASE SpawnFails
  <2>1. pc \in Calls /\ Continue(TRUE)
    BY <1>4, Zenon DEF SpawnFails
  <2>2. left' \in 0 .. Budget
    BY <1>4 DEF SpawnFails, Control
  <2> QED
    BY <2>1, <2>2, ContinueTurns DEF Control
<1>5. CASE Spawn
  BY <1>5 DEF Spawn, Queue, Working, Responding, Realtime, Calls, mainVars, results, shmVars,
     queues, report, history
<1>6. CASE Reap
  <2>1. pc \in Calls /\ Continue(kid # "exited") /\ left' \in 0 .. Budget
    BY <1>6 DEF Reap, Control, Turns
  <2> QED
    BY <2>1, ContinueTurns DEF Control
<1>7. CASE MainAllocates
  BY <1>7 DEF MainAllocates, Queue, Working, Responding, Realtime, Calls, mainVars, results,
     shmVars, queues, report, history
<1>8. CASE TestPlugin
  BY <1>8, Stages DEF TestPlugin, Queue, Working, Responding, Realtime, Calls, mainVars,
     results, shmVars, queues, report, history
<1>9. CASE Exit
  BY <1>9, Stages DEF Exit, Queue, Working, Responding, Realtime, Calls, mainVars, results,
     shmVars, queues, report, history
<1>10. CASE Start
  BY <1>10 DEF Start, shm_enable, Working, Responding, Queue, Working, Responding, Realtime,
     Calls, mainVars, results, shmVars, queues, report, history
<1>11. CASE NextChunk
  BY <1>11 DEF NextChunk, Consumer, Queue, Foreign, Working, Queue, Working, Responding,
     Realtime, Calls, mainVars, results, shmVars, queues, report, history
<1>12. CASE QueueEmpty
  BY <1>12 DEF QueueEmpty, Queue, Working, Outcome, Queue, Working, Responding, Realtime,
     Calls, mainVars, results, shmVars, queues, report, history
<1>13. CASE Advance
  BY <1>13 DEF Advance, Working, Queue, Working, Responding, Realtime, Calls, mainVars,
     results, shmVars, queues, report, history
<1>14. CASE Store
  BY <1>14 DEF Store, shm_disable, Outcome, Queue, Working, Responding, Realtime, Calls,
     mainVars, results, shmVars, queues, report, history
<1>15. CASE CallFunction
  BY <1>15 DEF CallFunction, Acts, InPlugin, Queue, Working, Responding, Realtime, Calls,
     mainVars, results, shmVars, queues, report, history
<1>16. CASE SystemCall
  BY <1>16 DEF SystemCall, Acts, InPlugin, Queue, Working, Responding, Realtime, Calls,
     mainVars, results, shmVars, queues, report, history
<1>17. CASE LogBegin
  BY <1>17 DEF LogBegin, Acts, InPlugin, Queue, Working, Responding, Realtime, Calls,
     mainVars, results, shmVars, queues, report, history
<1>18. CASE LogEnd
  BY <1>18 DEF LogEnd, Queue, Working, Responding, Realtime, Calls, mainVars, results,
     shmVars, queues, report, history
<1>19. CASE Schedule
  <2>1. /\ UNCHANGED <<pc, n, ret, instance, ports, kid, logging, from_worker>>
        /\ to_worker' = to_worker \/ to_worker' = Append(to_worker, n)
        /\ to_worker \in Seq(1 .. n) /\ n \in 1 .. n
    BY <1>19 DEF Schedule, Acts, InPlugin, mainVars, Queues
  <2>2. to_worker' # <<>> \/ to_worker' = to_worker
    BY <2>1, Longer
  <2> QED
    BY <2>1, <2>2 DEF Queue, Working, Responding
<1>20. CASE Respond
  BY <1>20 DEF Respond, Acts, InPlugin, Working, Queue, Working, Responding, Realtime, Calls,
     mainVars, results, shmVars, queues, report, history
<1>21. CASE Return
  BY <1>21, Stages DEF Return, InPlugin, Outcome, Queue, Working, Responding, Realtime, Calls,
     mainVars, results, shmVars, queues, report, history
<1>22. CASE ReturnError
  BY <1>22 DEF ReturnError, Acts, InPlugin, Working, Responding, Queue, Working, Responding,
     Realtime, Calls, mainVars, results, shmVars, queues, report, history
<1>23. CASE Crash
  BY <1>23 DEF Crash, Queue, Working, Responding, Realtime, Calls, mainVars, results, shmVars,
     queues, report, history
<1>24. CASE Quit
  BY <1>24 DEF Quit, InPlugin, Queue, Working, Responding, Realtime, Calls, mainVars,
     results, shmVars, queues, report, history
<1> QED
  BY Actions, <1>1, <1>2, <1>3, <1>4, <1>5, <1>6, <1>7, <1>8, <1>9, <1>10, <1>11, <1>12,
     <1>13, <1>14, <1>15, <1>16, <1>17, <1>18, <1>19, <1>20, <1>21, <1>22, <1>23, <1>24

LEMMA StatusStep ==
  ASSUME status \in [Results -> BOOLEAN], Truth, Control, Turns, Next
  PROVE  status' \in [Results -> BOOLEAN]
<1>1. CASE UnknownPlugin
  BY <1>1 DEF UnknownPlugin, mainVars, results, shmVars, queues, report, history
<1>2. CASE Pick
  BY <1>2 DEF Pick, mainVars, results, shmVars, queues, report, history
<1>3. CASE Prepare
  <2>1. status' = [status EXCEPT !["connect_port"] = FALSE]
    BY <1>3 DEF Prepare
  <2> QED
    BY <2>1
<1>4. CASE SpawnFails
  <2>1. pc \in Calls /\ Record(TRUE)
    BY <1>4, Zenon DEF SpawnFails, Continue
  <2> QED
    BY <2>1, RecordOne
<1>5. CASE Spawn
  BY <1>5 DEF Spawn, mainVars, results, shmVars, queues, report, history
<1>6. CASE Reap
  <2>1. pc \in Calls /\ Record(kid # "exited")
    BY <1>6 DEF Reap, Continue, Turns
  <2> QED
    BY <2>1, RecordOne
<1>7. CASE MainAllocates
  BY <1>7 DEF MainAllocates, mainVars, results, shmVars, queues, report, history
<1>8. CASE TestPlugin
  BY <1>8 DEF TestPlugin, mainVars, results, shmVars, queues, report, history
<1>9. CASE Exit
  BY <1>9 DEF Exit, mainVars, results, shmVars, queues, report, history
<1>10. CASE Start
  BY <1>10 DEF Start, shm_enable, Working, Responding, mainVars, results, shmVars, queues,
     report, history
<1>11. CASE NextChunk
  BY <1>11 DEF NextChunk, Consumer, Queue, Foreign, Working, mainVars, results, shmVars,
     queues, report, history
<1>12. CASE QueueEmpty
  BY <1>12 DEF QueueEmpty, Queue, Working, Outcome, mainVars, results, shmVars, queues,
     report, history
<1>13. CASE Advance
  BY <1>13 DEF Advance, Working, mainVars, results, shmVars, queues, report, history
<1>14. CASE Store
  BY <1>14 DEF Store, shm_disable, Outcome, mainVars, results, shmVars, queues, report, history
<1>15. CASE CallFunction
  BY <1>15 DEF CallFunction, Acts, InPlugin, mainVars, results, shmVars, queues, report, history
<1>16. CASE SystemCall
  BY <1>16 DEF SystemCall, Acts, InPlugin, mainVars, results, shmVars, queues, report, history
<1>17. CASE LogBegin
  BY <1>17 DEF LogBegin, Acts, InPlugin, mainVars, results, shmVars, queues, report, history
<1>18. CASE LogEnd
  BY <1>18 DEF LogEnd, mainVars, results, shmVars, queues, report, history
<1>19. CASE Schedule
  BY <1>19 DEF Schedule, Acts, InPlugin, Working, mainVars, results, shmVars, queues, report,
     history
<1>20. CASE Respond
  BY <1>20 DEF Respond, Acts, InPlugin, Working, mainVars, results, shmVars, queues, report,
     history
<1>21. CASE Return
  BY <1>21 DEF Return, InPlugin, Outcome, mainVars, results, shmVars, queues, report, history
<1>22. CASE ReturnError
  BY <1>22 DEF ReturnError, Acts, InPlugin, Working, Responding, mainVars, results, shmVars,
     queues, report, history
<1>23. CASE Crash
  BY <1>23 DEF Crash, mainVars, results, shmVars, queues, report, history
<1>24. CASE Quit
  BY <1>24 DEF Quit, InPlugin, mainVars, results, shmVars, queues, report, history
<1> QED
  BY Actions, <1>1, <1>2, <1>3, <1>4, <1>5, <1>6, <1>7, <1>8, <1>9, <1>10, <1>11, <1>12,
     <1>13, <1>14, <1>15, <1>16, <1>17, <1>18, <1>19, <1>20, <1>21, <1>22, <1>23, <1>24

LEMMA MasksStep == ASSUME Control, Turns, Masks, Next PROVE Masks'
<1> USE DEF Masks
<1>1. CASE UnknownPlugin
  BY <1>1 DEF UnknownPlugin, mainVars, results, shmVars, queues, report, history
<1>2. CASE Pick
  BY <1>2 DEF Pick, mainVars, results, shmVars, queues, report, history
<1>3. CASE Prepare
  BY <1>3 DEF Prepare, mainVars, results, shmVars, queues, report, history
<1>4. CASE SpawnFails
  BY <1>4 DEF SpawnFails, Continue, mainVars, results, shmVars, queues, report, history
<1>5. CASE Spawn
  BY <1>5 DEF Spawn, mainVars, results, shmVars, queues, report, history
<1>6. CASE Reap
  BY <1>6 DEF Reap, Continue, mainVars, results, shmVars, queues, report, history
<1>7. CASE MainAllocates
  BY <1>7 DEF MainAllocates, mainVars, results, shmVars, queues, report, history
<1>8. CASE TestPlugin
  BY <1>8 DEF TestPlugin, NonRt, mainVars, results, shmVars, queues, report, history
<1>9. CASE Exit
  BY <1>9 DEF Exit, mainVars, results, shmVars, queues, report, history
<1>10. CASE Start
  BY <1>10 DEF Start, shm_enable, Working, Responding, mainVars, results, shmVars, queues,
     report, history
<1>11. CASE NextChunk
  BY <1>11 DEF NextChunk, Consumer, Queue, Foreign, Working, mainVars, results, shmVars,
     queues, report, history
<1>12. CASE QueueEmpty
  BY <1>12 DEF QueueEmpty, Queue, Working, Outcome, mainVars, results, shmVars, queues,
     report, history
<1>13. CASE Advance
  BY <1>13 DEF Advance, Working, mainVars, results, shmVars, queues, report, history
<1>14. CASE Store
  BY <1>14, SectionOf DEF Store, shm_disable, Outcome, Turns, mainVars, results, shmVars,
     queues, report, history
<1>15. CASE CallFunction
  BY <1>15, SectionOf DEF CallFunction, Acts, InPlugin, mainVars, results, shmVars, queues,
     report, history
<1>16. CASE SystemCall
  BY <1>16 DEF SystemCall, Acts, InPlugin, mainVars, results, shmVars, queues, report, history
<1>17. CASE LogBegin
  BY <1>17 DEF LogBegin, Acts, InPlugin, mainVars, results, shmVars, queues, report, history
<1>18. CASE LogEnd
  BY <1>18 DEF LogEnd, mainVars, results, shmVars, queues, report, history
<1>19. CASE Schedule
  BY <1>19 DEF Schedule, Acts, InPlugin, Working, mainVars, results, shmVars, queues, report,
     history
<1>20. CASE Respond
  BY <1>20 DEF Respond, Acts, InPlugin, Working, mainVars, results, shmVars, queues, report,
     history
<1>21. CASE Return
  BY <1>21 DEF Return, InPlugin, Outcome, mainVars, results, shmVars, queues, report, history
<1>22. CASE ReturnError
  BY <1>22 DEF ReturnError, Acts, InPlugin, Working, Responding, mainVars, results, shmVars,
     queues, report, history
<1>23. CASE Crash
  BY <1>23 DEF Crash, mainVars, results, shmVars, queues, report, history
<1>24. CASE Quit
  <2>1. UNCHANGED <<forbidden, mask, nonrt, hit>>
    BY <1>24 DEF Quit, results, shmVars, report
  <2>2. lost' \subseteq Sections \X Functions
    <3>1. CASE pc \in Realtime
      <4>1. Test(pc) \in Sections /\ lost' = lost \cup {<<Test(pc), f>> : f \in mask}
        BY <1>24, <3>1, SectionOf DEF Quit
      <4> QED
        BY <4>1
    <3>2. CASE pc \notin Realtime
      BY <1>24, <3>2 DEF Quit
    <3> QED
      BY <3>1, <3>2
  <2> QED
    BY <2>1, <2>2
<1> QED
  BY Actions, <1>1, <1>2, <1>3, <1>4, <1>5, <1>6, <1>7, <1>8, <1>9, <1>10, <1>11, <1>12,
     <1>13, <1>14, <1>15, <1>16, <1>17, <1>18, <1>19, <1>20, <1>21, <1>22, <1>23, <1>24

LEMMA Element ==
  ASSUME NEW S, NEW q \in Seq(S)
  PROVE  /\ \A i \in 1 .. Len(q) : q[i] \in S
         /\ q # <<>> => Head(q) \in S
OBVIOUS

LEMMA SetsStep == ASSUME Control, Turns, Sets, Queues, Next PROVE Sets'
<1> USE DEF Sets
<1>1. CASE UnknownPlugin
  BY <1>1 DEF UnknownPlugin, Turns, Control, mainVars, results, shmVars, queues, report, history
<1>2. CASE Pick
  BY <1>2 DEF Pick, Turns, Control, mainVars, results, shmVars, queues, report, history
<1>3. CASE Prepare
  BY <1>3 DEF Prepare, mainVars, results, shmVars, queues, report, history
<1>4. CASE SpawnFails
  BY <1>4, Stages DEF SpawnFails, Continue, Turns, Control, mainVars, results, shmVars,
     queues, report, history
<1>5. CASE Spawn
  BY <1>5 DEF Spawn, mainVars, results, shmVars, queues, report, history
<1>6. CASE Reap
  BY <1>6, Stages DEF Reap, Continue, Turns, Control, mainVars, results, shmVars, queues,
     report, history
<1>7. CASE MainAllocates
  BY <1>7 DEF MainAllocates, mainVars, results, shmVars, queues, report, history
<1>8. CASE TestPlugin
  BY <1>8, Stages DEF TestPlugin, Turns, Control, mainVars, results, shmVars, queues, report,
     history
<1>9. CASE Exit
  BY <1>9 DEF Exit, mainVars, results, shmVars, queues, report, history
<1>10. CASE Start
  BY <1>10 DEF Start, shm_enable, Working, Responding, mainVars, results, shmVars, queues,
     report, history
<1>11. CASE NextChunk
  <2>1. Queue \in Seq(1 .. n) /\ Queue # <<>>
    BY <1>11 DEF NextChunk, Queue, Queues
  <2>2. Head(Queue) \in 1 .. n
    BY <2>1, Element
  <2>3. foreign' \subseteq foreign \cup {Head(Queue)}
    BY <1>11 DEF NextChunk, Foreign
  <2>4. UNCHANGED <<n, crashed, fell, unwell, quit, spilled>>
    BY <1>11 DEF NextChunk, mainVars, report
  <2> QED
    BY <2>2, <2>3, <2>4
<1>12. CASE QueueEmpty
  BY <1>12 DEF QueueEmpty, Queue, Working, Outcome, mainVars, results, shmVars, queues,
     report, history
<1>13. CASE Advance
  BY <1>13 DEF Advance, Working, mainVars, results, shmVars, queues, report, history
<1>14. CASE Store
  BY <1>14 DEF Store, shm_disable, Outcome, mainVars, results, shmVars, queues, report, history
<1>15. CASE CallFunction
  BY <1>15 DEF CallFunction, Acts, InPlugin, mainVars, results, shmVars, queues, report, history
<1>16. CASE SystemCall
  BY <1>16 DEF SystemCall, Acts, InPlugin, mainVars, results, shmVars, queues, report, history
<1>17. CASE LogBegin
  BY <1>17 DEF LogBegin, Acts, InPlugin, mainVars, results, shmVars, queues, report, history
<1>18. CASE LogEnd
  BY <1>18 DEF LogEnd, mainVars, results, shmVars, queues, report, history
<1>19. CASE Schedule
  BY <1>19, Stages DEF Schedule, Acts, InPlugin, Working, Turns, Control, mainVars, results,
     shmVars, queues, report, history
<1>20. CASE Respond
  BY <1>20 DEF Respond, Acts, InPlugin, Working, mainVars, results, shmVars, queues, report,
     history
<1>21. CASE Return
  BY <1>21 DEF Return, InPlugin, Outcome, mainVars, results, shmVars, queues, report, history
<1>22. CASE ReturnError
  BY <1>22 DEF ReturnError, Acts, InPlugin, Working, Responding, mainVars, results, shmVars,
     queues, report, history
<1>23. CASE Crash
  BY <1>23 DEF Crash, Turns, Control, mainVars, results, shmVars, queues, report, history
<1>24. CASE Quit
  BY <1>24 DEF Quit, InPlugin, Turns, Control, mainVars, results, shmVars, queues, report,
     history
<1> QED
  BY Actions, <1>1, <1>2, <1>3, <1>4, <1>5, <1>6, <1>7, <1>8, <1>9, <1>10, <1>11, <1>12,
     <1>13, <1>14, <1>15, <1>16, <1>17, <1>18, <1>19, <1>20, <1>21, <1>22, <1>23, <1>24

LEMMA Shorter ==
  ASSUME NEW S, NEW q \in Seq(S), q # <<>>
  PROVE  /\ Tail(q) \in Seq(S) /\ Len(Tail(q)) = Len(q) - 1
         /\ \A i \in 1 .. Len(Tail(q)) : i + 1 \in 1 .. Len(q) /\ Tail(q)[i] = q[i + 1]
OBVIOUS

LEMMA QueuesStep == ASSUME Control, Turns, Queues, Next PROVE Queues'
<1> USE DEF Queues
<1>1. CASE UnknownPlugin
  BY <1>1 DEF UnknownPlugin, Control, Turns, mainVars, results, shmVars, queues, report, history
<1>2. CASE Pick
  BY <1>2 DEF Pick, Control, Turns, mainVars, results, shmVars, queues, report, history
<1>3. CASE Prepare
  BY <1>3 DEF Prepare, mainVars, results, shmVars, queues, report, history
<1>4. CASE SpawnFails
  BY <1>4 DEF SpawnFails, Continue, mainVars, results, shmVars, queues, report, history
<1>5. CASE Spawn
  BY <1>5 DEF Spawn, mainVars, results, shmVars, queues, report, history
<1>6. CASE Reap
  BY <1>6 DEF Reap, Continue, mainVars, results, shmVars, queues, report, history
<1>7. CASE MainAllocates
  BY <1>7 DEF MainAllocates, mainVars, results, shmVars, queues, report, history
<1>8. CASE TestPlugin
  BY <1>8 DEF TestPlugin, mainVars, results, shmVars, queues, report, history
<1>9. CASE Exit
  BY <1>9 DEF Exit, mainVars, results, shmVars, queues, report, history
<1>10. CASE Start
  BY <1>10 DEF Start, shm_enable, Working, Responding, mainVars, results, shmVars, queues,
     report, history
<1>11. CASE NextChunk
  BY <1>11 DEF NextChunk, Consumer, Queue, Foreign, Working, mainVars, results, shmVars,
     queues, report, history
<1>12. CASE QueueEmpty
  BY <1>12 DEF QueueEmpty, Queue, Working, Outcome, mainVars, results, shmVars, queues,
     report, history
<1>13. CASE Advance
  <2>1. Queue # <<>> /\ n' = n
    BY <1>13 DEF Advance, Turns, mainVars
  <2>2. CASE Working
    BY <1>13, <2>1, <2>2, Shorter DEF Advance, Queue
  <2>3. CASE ~Working
    BY <1>13, <2>1, <2>3, Shorter DEF Advance, Queue
  <2> QED
    BY <2>2, <2>3
<1>14. CASE Store
  BY <1>14 DEF Store, shm_disable, Outcome, mainVars, results, shmVars, queues, report, history
<1>15. CASE CallFunction
  BY <1>15 DEF CallFunction, Acts, InPlugin, mainVars, results, shmVars, queues, report, history
<1>16. CASE SystemCall
  BY <1>16 DEF SystemCall, Acts, InPlugin, mainVars, results, shmVars, queues, report, history
<1>17. CASE LogBegin
  BY <1>17 DEF LogBegin, Acts, InPlugin, mainVars, results, shmVars, queues, report, history
<1>18. CASE LogEnd
  BY <1>18 DEF LogEnd, mainVars, results, shmVars, queues, report, history
<1>19. CASE Schedule
  <2>1. n \in 1 .. n /\ n' = n /\ from_worker' = from_worker
    BY <1>19, Stages DEF Schedule, Acts, InPlugin, Turns, Control, mainVars, Calls
  <2>2. \/ to_worker' = to_worker
        \/ to_worker' = Append(to_worker, n) /\ Len(to_worker) < QueueCap
    BY <1>19 DEF Schedule
  <2>3. to_worker \in Seq(1 .. n) /\ Len(to_worker) <= QueueCap /\ Len(to_worker) \in Nat
    OBVIOUS
  <2>4. CASE to_worker' = to_worker
    BY <2>1, <2>3, <2>4
  <2>5. CASE to_worker' = Append(to_worker, n) /\ Len(to_worker) < QueueCap
    <3> HIDE DEF Queues
    <3>1. to_worker' \in Seq(1 .. n) /\ Len(to_worker') = Len(to_worker) + 1
      BY <2>1, <2>3, <2>5, Longer
    <3>2. Len(to_worker') <= QueueCap
      BY <2>3, <2>5, <3>1
    <3>3. from_worker' \in Seq(1 .. n') /\ Len(from_worker') <= QueueCap
      BY <2>1 DEF Queues
    <3> QED
      BY <2>1, <3>1, <3>2, <3>3 DEF Queues
  <2> QED
    BY <2>2, <2>4, <2>5
<1>20. CASE Respond
  <2>1. n \in 1 .. n /\ n' = n /\ to_worker' = to_worker
    BY <1>20, Stages DEF Respond, Acts, InPlugin, Turns, Control, mainVars, Working
  <2>2. \/ from_worker' = from_worker
        \/ from_worker' = Append(from_worker, n) /\ Len(from_worker) < QueueCap
    BY <1>20 DEF Respond
  <2>3. from_worker' \in Seq(1 .. n) /\ Len(from_worker') <= QueueCap
    BY <2>1, <2>2, Longer
  <2> QED
    BY <2>1, <2>3
<1>21. CASE Return
  BY <1>21 DEF Return, InPlugin, Outcome, mainVars, results, shmVars, queues, report, history
<1>22. CASE ReturnError
  BY <1>22 DEF ReturnError, Acts, InPlugin, Working, Responding, mainVars, results, shmVars,
     queues, report, history
<1>23. CASE Crash
  BY <1>23 DEF Crash, mainVars, results, shmVars, queues, report, history
<1>24. CASE Quit
  BY <1>24 DEF Quit, InPlugin, mainVars, results, shmVars, queues, report, history
<1> QED
  BY Actions, <1>1, <1>2, <1>3, <1>4, <1>5, <1>6, <1>7, <1>8, <1>9, <1>10, <1>11, <1>12,
     <1>13, <1>14, <1>15, <1>16, <1>17, <1>18, <1>19, <1>20, <1>21, <1>22, <1>23, <1>24
-----------------------------------------------------------------------------
LEMMA ContinueFalls ==
  ASSUME Truth, Control, Turns, Sets, status \in [Results -> BOOLEAN], Falls,
         pc \in Calls, NEW failed \in BOOLEAN, Continue(failed), fell' = fell,
         kid = "killed" => failed
  PROVE  Falls'
<1>1. Stage(pc) < Stage(pc') \/ (pc = "connect_port" /\ pc' = "connect_port")
  <2>1. pc' = Follow(instance, ports') /\ ports' \in Int /\ instance \in BOOLEAN
    BY ContinueControl DEF Truth
  <2> QED
    BY <2>1, FollowStage
<1>2. Stage(pc) \in Int /\ Stage(pc') \in Int /\ \A c \in fell : Stage(c) \in Int
  BY Stages
<1>3. ASSUME NEW c \in fell PROVE Stage(c) < Stage(pc') \/ (c = pc' /\ pc' = "connect_port")
  BY <1>1, <1>2 DEF Falls
<1>4. ASSUME NEW c \in fell, Test(c) \in Tested, Stage(pc) <= 12
      PROVE  status'[Test(c)]
  <2>1. c \in Calls /\ Test(c) \in Results /\ Test(pc) \in Results
    BY TestIsAResult DEF Sets
  <2>2. status[Test(c)] \/ (c = pc /\ kid = "killed")
    BY <1>4 DEF Falls
  <2>3. Record(failed)
    BY DEF Continue
  <2>4. CASE Test(c) # Test(pc)
    BY <2>1, <2>2, <2>3, <2>4, RecordOne
  <2>5. CASE failed /\ Test(c) = Test(pc)
    BY <2>3, <2>5, RecordOne
  <2>6. CASE ~failed /\ Test(c) = Test(pc)
    <3>1. status[Test(pc)]
      BY <2>2, <2>6
    <3>2. pc \in Adding
      <4>1. Stage(c) < Stage(pc) \/ pc = "connect_port"
        BY <2>6 DEF Falls
      <4> QED
        BY <2>1, <2>6, <4>1, TestPairs DEF Adding
    <3> QED
      BY <2>3, <2>6, <3>1, <3>2, RecordOne
  <2> QED
    BY <2>4, <2>5, <2>6
<1>5. Stage(pc') <= 12 => Stage(pc) <= 12
  BY <1>1, <1>2
<1> QED
  BY <1>3, <1>4, <1>5 DEF Falls

LEMMA FallsStep ==
  ASSUME Truth, Control, Turns, Sets, status \in [Results -> BOOLEAN], Falls, Next
  PROVE  Falls'
<1> USE DEF Falls
<1>1. CASE UnknownPlugin
  BY <1>1, Stages DEF UnknownPlugin, mainVars, results, shmVars, queues, report, history
<1>2. CASE Pick
  BY <1>2, Stages DEF Pick, mainVars, results, shmVars, queues, report, history
<1>3. CASE Prepare
  <2>1. /\ fell' = fell /\ Stage(pc) = 3 /\ Stage(pc') \in 4..5 /\ pc \notin Calls
        /\ status' = [status EXCEPT !["connect_port"] = FALSE]
    BY <1>3, Stages DEF Prepare, history, Calls
  <2>2. \A c \in fell : Stage(c) < 3 /\ c \in Calls
    BY <2>1 DEF Sets
  <2>3. \A c \in fell : Test(c) # "connect_port" /\ Test(c) \in Results
    BY <2>2, Stages, TestIs, TestIsAResult
  <2>4. \A t \in Results \ {"connect_port"} : status'[t] = status[t]
    BY <2>1
  <2>5. \A c \in fell : (Test(c) \in Tested => status[Test(c)]) /\ Stage(c) < Stage(pc')
    BY <2>1, <2>2, <2>3, Stages
  <2> QED
    BY <2>1, <2>3, <2>4, <2>5
<1>4. CASE SpawnFails
  BY <1>4, ContinueFalls, Zenon DEF SpawnFails
<1>5. CASE Spawn
  BY <1>5 DEF Spawn, mainVars, results, shmVars, queues, report, history
<1>6. CASE Reap
  <2>1. pc \in Calls /\ Continue(kid # "exited") /\ fell' = fell
    BY <1>6 DEF Reap, Turns
  <2> QED
    BY <2>1, ContinueFalls
<1>7. CASE MainAllocates
  BY <1>7 DEF MainAllocates, mainVars, results, shmVars, queues, report, history
<1>8. CASE TestPlugin
  BY <1>8, Stages DEF TestPlugin, mainVars, results, shmVars, queues, report, history
<1>9. CASE Exit
  <2>1. fell' = fell /\ Stage(pc) = 14 /\ Stage(pc') = 14 /\ pc \notin Calls
    BY <1>9, Stages DEF Exit, history, Calls
  <2> QED
    BY <2>1, Stages DEF Sets
<1>10. CASE Start
  BY <1>10 DEF Start, shm_enable, Working, Responding, mainVars, results, shmVars, queues,
     report, history
<1>11. CASE NextChunk
  BY <1>11 DEF NextChunk, Consumer, Queue, Foreign, Working, mainVars, results, shmVars,
     queues, report, history
<1>12. CASE QueueEmpty
  BY <1>12 DEF QueueEmpty, Queue, Working, Outcome, mainVars, results, shmVars, queues,
     report, history
<1>13. CASE Advance
  BY <1>13 DEF Advance, Working, mainVars, results, shmVars, queues, report, history
<1>14. CASE Store
  BY <1>14 DEF Store, shm_disable, Outcome, mainVars, results, shmVars, queues, report, history
<1>15. CASE CallFunction
  BY <1>15 DEF CallFunction, Acts, InPlugin, mainVars, results, shmVars, queues, report, history
<1>16. CASE SystemCall
  BY <1>16 DEF SystemCall, Acts, InPlugin, mainVars, results, shmVars, queues, report, history
<1>17. CASE LogBegin
  BY <1>17 DEF LogBegin, Acts, InPlugin, mainVars, results, shmVars, queues, report, history
<1>18. CASE LogEnd
  BY <1>18 DEF LogEnd, mainVars, results, shmVars, queues, report, history
<1>19. CASE Schedule
  BY <1>19 DEF Schedule, Acts, InPlugin, Working, mainVars, results, shmVars, queues, report,
     history
<1>20. CASE Respond
  BY <1>20 DEF Respond, Acts, InPlugin, Working, mainVars, results, shmVars, queues, report,
     history
<1>21. CASE Return
  BY <1>21 DEF Return, InPlugin, Outcome, mainVars, results, shmVars, queues, report, history
<1>22. CASE ReturnError
  BY <1>22 DEF ReturnError, Acts, InPlugin, Working, Responding, mainVars, results, shmVars,
     queues, report, history
<1>23. CASE Crash
  BY <1>23 DEF Crash, mainVars, results, shmVars, queues, report, history
<1>24. CASE Quit
  BY <1>24 DEF Quit, InPlugin, mainVars, results, shmVars, queues, report, history
<1> QED
  BY Actions, <1>1, <1>2, <1>3, <1>4, <1>5, <1>6, <1>7, <1>8, <1>9, <1>10, <1>11, <1>12,
     <1>13, <1>14, <1>15, <1>16, <1>17, <1>18, <1>19, <1>20, <1>21, <1>22, <1>23, <1>24

LEMMA WatchedStep == ASSUME Truth, Control, Turns, Watched, Next PROVE Watched'
<1> USE DEF Watched, InSection
<1>1. CASE UnknownPlugin
  BY <1>1 DEF UnknownPlugin, mainVars, results, shmVars, queues, report, history
<1>2. CASE Pick
  BY <1>2 DEF Pick, Realtime, mainVars, results, shmVars, queues, report, history
<1>3. CASE Prepare
  BY <1>3 DEF Prepare, Turns, Calls, mainVars, results, shmVars, queues, report, history
<1>4. CASE SpawnFails
  BY <1>4 DEF SpawnFails, Continue, mainVars, results, shmVars, queues, report, history
<1>5. CASE Spawn
  BY <1>5 DEF Spawn, mainVars, results, shmVars, queues, report, history
<1>6. CASE Reap
  BY <1>6 DEF Reap, Continue, mainVars, results, shmVars, queues, report, history
<1>7. CASE MainAllocates
  BY <1>7 DEF MainAllocates, mainVars, results, shmVars, queues, report, history
<1>8. CASE TestPlugin
  BY <1>8 DEF TestPlugin, Realtime, mainVars, results, shmVars, queues, report, history
<1>9. CASE Exit
  BY <1>9 DEF Exit, Realtime, mainVars, results, shmVars, queues, report, history
<1>10. CASE Start
  BY <1>10 DEF Start, shm_enable, Working, Responding, Turns, Working, Responding, mainVars,
     results, shmVars, queues, report, history
<1>11. CASE NextChunk
  BY <1>11 DEF NextChunk, Consumer, Queue, Foreign, Working, mainVars, results, shmVars,
     queues, report, history
<1>12. CASE QueueEmpty
  BY <1>12 DEF QueueEmpty, Queue, Working, Outcome, Turns, Working, Responding, mainVars,
     results, shmVars, queues, report, history
<1>13. CASE Advance
  BY <1>13 DEF Advance, Working, mainVars, results, shmVars, queues, report, history
<1>14. CASE Store
  BY <1>14 DEF Store, shm_disable, Outcome, mainVars, results, shmVars, queues, report, history
<1>15. CASE CallFunction
  BY <1>15 DEF CallFunction, Acts, InPlugin, mainVars, results, shmVars, queues, report, history
<1>16. CASE SystemCall
  BY <1>16 DEF SystemCall, Acts, InPlugin, mainVars, results, shmVars, queues, report, history
<1>17. CASE LogBegin
  BY <1>17 DEF LogBegin, Acts, InPlugin, mainVars, results, shmVars, queues, report, history
<1>18. CASE LogEnd
  BY <1>18 DEF LogEnd, mainVars, results, shmVars, queues, report, history
<1>19. CASE Schedule
  BY <1>19 DEF Schedule, Acts, InPlugin, Working, mainVars, results, shmVars, queues, report,
     history
<1>20. CASE Respond
  BY <1>20 DEF Respond, Acts, InPlugin, Working, mainVars, results, shmVars, queues, report,
     history
<1>21. CASE Return
  BY <1>21 DEF Return, InPlugin, Outcome, Turns, Working, Responding, mainVars, results,
     shmVars, queues, report, history
<1>22. CASE ReturnError
  BY <1>22 DEF ReturnError, Acts, InPlugin, Working, Responding, Turns, Working, Responding,
     mainVars, results, shmVars, queues, report, history
<1>23. CASE Crash
  BY <1>23 DEF Crash, mainVars, results, shmVars, queues, report, history
<1>24. CASE Quit
  BY <1>24 DEF Quit, InPlugin, mainVars, results, shmVars, queues, report, history
<1> QED
  BY Actions, <1>1, <1>2, <1>3, <1>4, <1>5, <1>6, <1>7, <1>8, <1>9, <1>10, <1>11, <1>12,
     <1>13, <1>14, <1>15, <1>16, <1>17, <1>18, <1>19, <1>20, <1>21, <1>22, <1>23, <1>24

LEMMA ContinueOwn ==
  ASSUME Truth, Control, Turns, status \in [Results -> BOOLEAN], ResultsAreOwn,
         pc \in Calls, NEW failed \in BOOLEAN, Continue(failed), hit' = hit, quit' = quit,
         Ended \/ failed
  PROVE  ResultsAreOwn'
<1>1. /\ \A c \in Mileposts : Over(c)' => Over(c) \/ c = pc
      /\ Mileposts = {"prepare", "work_response", "run", "work_2", "work_response_2"}
  BY ContinueStage DEF Mileposts
<1>2. forbidden' = forbidden /\ kid' = "none" /\ ~Ended' /\ pc # "prepare"
  BY DEF Continue, Ended, Calls
<1>3. \A s : OwnCalls(s)' <=> OwnCalls(s)
  BY <1>2 DEF OwnCalls
<1>4. Record(failed) /\ Test(pc) \in Results /\ {"run", "work_response"} \subseteq Results
  BY TestIsAResult DEF Continue, Results
<1>5. ASSUME ~status'["run"] PROVE IF pc = "run" THEN ~failed ELSE ~status["run"]
  BY <1>4, <1>5, RecordOne, TestIs
<1>6. ASSUME ~status'["work_response"]
      PROVE  IF pc = "work_response" THEN ~failed ELSE ~status["work_response"]
  BY <1>4, <1>6, RecordOne, TestIs DEF Adding
<1>7. status["work_response"] => status'["work_response"] \/ pc = "work_response"
  BY <1>4, RecordOne, TestIs DEF Adding
<1>8. pc = "work_response_2" /\ failed => status'["work_response"]
  BY <1>4, RecordOne, TestIs
<1> HIDE DEF Mileposts
<1>9. Over("prepare")' => OwnCalls("connect_port")'
  BY <1>1, <1>2, <1>3 DEF ResultsAreOwn
<1>10. Over("run")' /\ ~status'["run"] => OwnCalls("run")' \/ "run" \in quit
  BY <1>1, <1>3, <1>5 DEF ResultsAreOwn
<1>11. Over("work_response")' /\ ~status'["work_response"] =>
         OwnCalls("work_response")' \/ "work_response" \in quit
  BY <1>1, <1>3, <1>6 DEF ResultsAreOwn
<1>12. Over("work_response_2")' =>
         \/ status'["work_response"] \/ OwnCalls("work_response")'
         \/ {"work_response", "work_response_2"} \subseteq quit
  <2>1. Over("work_response_2") => pc # "work_response"
    BY Stages DEF Over
  <2>2. Over("work_response_2")' => Over("work_response_2") \/ pc = "work_response_2"
    BY <1>1
  <2> QED
    BY <1>3, <1>7, <1>8, <2>1, <2>2 DEF ResultsAreOwn
<1> QED
  BY <1>2, <1>9, <1>10, <1>11, <1>12 DEF ResultsAreOwn

LEMMA OwnStep ==
  ASSUME Truth, Control, Turns, Masks, status \in [Results -> BOOLEAN], Watched,
         ResultsAreOwn, Next
  PROVE  ResultsAreOwn'
<1> USE DEF ResultsAreOwn, OwnCalls, Over, Ended
<1>1. CASE UnknownPlugin
  BY <1>1 DEF UnknownPlugin, mainVars, results, shmVars, queues, report, history
<1>2. CASE Pick
  BY <1>2, Stages DEF Pick, mainVars, results, shmVars, queues, report, history
<1>3. CASE Prepare
  BY <1>3, Stages, SectionsAre DEF Prepare, Masks, Truth, mainVars, results, shmVars, queues,
     report, history
<1>4. CASE SpawnFails
  <2>1. pc \in Calls /\ Continue(TRUE) /\ hit' = hit /\ quit' = quit /\ kid = "none"
    BY <1>4, Zenon DEF SpawnFails
  <2> QED
    BY <2>1, ContinueOwn
<1>5. CASE Spawn
  BY <1>5 DEF Spawn, mainVars, results, shmVars, queues, report, history
<1>6. CASE Reap
  <2>1. /\ pc \in Calls /\ Continue(kid # "exited") /\ hit' = hit /\ quit' = quit
        /\ kid \in {"exited", "failed", "killed"}
    BY <1>6 DEF Reap, Turns
  <2> QED
    BY <2>1, ContinueOwn DEF Ended
<1>7. CASE MainAllocates
  BY <1>7 DEF MainAllocates, mainVars, results, shmVars, queues, report, history
<1>8. CASE TestPlugin
  BY <1>8, Stages DEF TestPlugin, mainVars, results, shmVars, queues, report, history
<1>9. CASE Exit
  BY <1>9, Stages DEF Exit, mainVars, results, shmVars, queues, report, history
<1>10. CASE Start
  BY <1>10 DEF Start, shm_enable, Working, Responding, mainVars, results, shmVars, queues,
     report, history
<1>11. CASE NextChunk
  BY <1>11 DEF NextChunk, Consumer, Queue, Foreign, Working, mainVars, results, shmVars,
     queues, report, history
<1>12. CASE QueueEmpty
  BY <1>12 DEF QueueEmpty, Queue, Working, Outcome, mainVars, results, shmVars, queues,
     report, history
<1>13. CASE Advance
  BY <1>13 DEF Advance, Working, mainVars, results, shmVars, queues, report, history
<1>14. CASE Store
  <2>1. /\ InSection /\ UNCHANGED <<pc, status, instance, hit, quit>> /\ Test(pc) \in Sections
        /\ kid' \in {"exited", "failed"}
        /\ forbidden' = [forbidden EXCEPT ![Test(pc)] =
                           IF pc = "connect_port" THEN @ \cup mask ELSE mask]
    BY <1>14, SectionOf DEF Store, InSection, Turns, Outcome, history
  <2>2. \A f \in mask : <<Test(pc), f>> \in hit
    BY <2>1 DEF Watched
  <2>3. pc \in Calls /\ (pc = "connect_port" => Over("prepare"))
    BY <1>14, Stages DEF Store, Turns, Control
  <2>4. forbidden \in [Sections -> SUBSET Functions]
    BY DEF Masks
  <2>5. \A s \in Sections : forbidden'[s] = IF s # Test(pc) THEN forbidden[s] ELSE
                              IF pc = "connect_port" THEN forbidden[s] \cup mask ELSE mask
    BY <2>1, <2>4
  <2>6. OwnCalls(Test(pc))'
    <3>1. CASE pc = "connect_port"
      BY <2>1, <2>2, <2>3, <2>5, <3>1, TestIs
    <3>2. CASE pc # "connect_port"
      BY <2>1, <2>2, <2>5, <3>2
    <3> QED
      BY <3>1, <3>2
  <2>7. \A s \in Sections \ {Test(pc)} : OwnCalls(s)' <=> OwnCalls(s)
    BY <2>1, <2>5
  <2>8. pc = "run" \/ pc = "connect_port" \/ pc = "work_response" \/ pc = "work_response_2"
    BY <2>1 DEF InSection, Realtime
  <2> HIDE DEF OwnCalls
  <2> QED
    BY <2>1, <2>3, <2>6, <2>7, <2>8, TestIs, SectionsAre, Stages
<1>15. CASE CallFunction
  BY <1>15 DEF CallFunction, Acts, InPlugin, mainVars, results, shmVars, queues, report, history
<1>16. CASE SystemCall
  BY <1>16 DEF SystemCall, Acts, InPlugin, mainVars, results, shmVars, queues, report, history
<1>17. CASE LogBegin
  BY <1>17 DEF LogBegin, Acts, InPlugin, mainVars, results, shmVars, queues, report, history
<1>18. CASE LogEnd
  BY <1>18 DEF LogEnd, mainVars, results, shmVars, queues, report, history
<1>19. CASE Schedule
  BY <1>19 DEF Schedule, Acts, InPlugin, Working, mainVars, results, shmVars, queues, report,
     history
<1>20. CASE Respond
  BY <1>20 DEF Respond, Acts, InPlugin, Working, mainVars, results, shmVars, queues, report,
     history
<1>21. CASE Return
  BY <1>21, Stages DEF Return, InPlugin, Outcome, Turns, Realtime, mainVars, results, shmVars,
     queues, report, history
<1>22. CASE ReturnError
  BY <1>22 DEF ReturnError, Acts, InPlugin, Working, Responding, mainVars, results, shmVars,
     queues, report, history
<1>23. CASE Crash
  BY <1>23 DEF Crash, mainVars, results, shmVars, queues, report, history
<1>24. CASE Quit
  <2>1. /\ UNCHANGED <<pc, instance, status, forbidden, hit>> /\ quit' = quit \cup {pc}
        /\ kid \in {"plugin", "chunk"} /\ pc \in Calls
    BY <1>24 DEF Quit, InPlugin, mainVars, results, Turns
  <2>2. pc = "work_response_2" => Over("work_response")
    BY <2>1, Stages DEF Turns
  <2> QED
    BY <2>1, <2>2
<1> QED
  BY Actions, <1>1, <1>2, <1>3, <1>4, <1>5, <1>6, <1>7, <1>8, <1>9, <1>10, <1>11, <1>12,
     <1>13, <1>14, <1>15, <1>16, <1>17, <1>18, <1>19, <1>20, <1>21, <1>22, <1>23, <1>24

LEMMA ContinueWhole ==
  ASSUME Truth, Control, Turns, status \in [Results -> BOOLEAN], ResultsAreWhole,
         pc \in Calls, NEW failed \in BOOLEAN, Continue(failed), hit' = hit, lost' = lost,
         Ended \/ failed
  PROVE  ResultsAreWhole'
<1>1. /\ Stage(pc) < Stage(pc') \/ (pc = "connect_port" /\ pc' = "connect_port")
      /\ Over("run")' => Over("run") \/ pc = "run"
      /\ pc' = "run" => pc # "run"
  BY ContinueStage DEF Mileposts
<1>2. /\ forbidden' = forbidden /\ kid' = "none" /\ (instance /\ pc # "cleanup" => instance')
      /\ Record(failed)
  BY DEF Continue
<1>3. Test(pc) \in Results /\ {"run", "connect_port"} \subseteq Results
  BY TestIsAResult DEF Results
<1>4. /\ status["run"] => status'["run"] \/ pc = "run"
      /\ status["connect_port"] => status'["connect_port"]
      /\ failed => (pc = "run" => status'["run"])
      /\ failed => (pc = "connect_port" => status'["connect_port"])
  BY <1>2, <1>3, RecordOne, TestIs DEF Adding
<1>5. pc = "cleanup" <=> Stage(pc) = 13
  BY Stages DEF Calls
<1>6. \A c : Stage(c) \in 1..14
  BY Stages
<1> SUFFICES ASSUME NEW h \in hit \ lost
             PROVE  /\ Stage(pc') >= 4 /\ (Stage(pc') <= 12 => instance')
                    /\ h[1] = "connect_port" /\ Stage(pc') <= 12 =>
                         status'["connect_port"] \/ h[2] \in forbidden'["connect_port"]
                    /\ h[1] = "run" => Stage(pc') >= 8
                    /\ h[1] = "run" /\ Over("run")' =>
                         status'["run"] \/ h[2] \in forbidden'["run"]
                    /\ ~(h[1] = "run" /\ pc' = "run")
  BY DEF ResultsAreWhole
<1>7. Stage(pc') >= 4 /\ (Stage(pc') <= 12 => instance')
  BY <1>1, <1>2, <1>5, <1>6 DEF ResultsAreWhole
<1>8. ASSUME h[1] = "connect_port", Stage(pc') <= 12
      PROVE  status'["connect_port"] \/ h[2] \in forbidden'["connect_port"]
  <2>1. Stage(pc) <= 12
    BY <1>1, <1>6, <1>8
  <2>2. \/ status["connect_port"] \/ h[2] \in forbidden["connect_port"]
        \/ pc = "connect_port" /\ ~Ended
    BY <1>8, <2>1 DEF ResultsAreWhole, InSection, Ended
  <2> QED
    BY <1>2, <1>4, <2>2
<1>9. h[1] = "run" => Stage(pc') >= 8
  BY <1>1, <1>6 DEF ResultsAreWhole
<1>10. ASSUME h[1] = "run", Over("run")' PROVE status'["run"] \/ h[2] \in forbidden'["run"]
  <2>1. CASE pc = "run"
    BY <1>2, <1>4, <1>10, <2>1 DEF ResultsAreWhole, InSection, Ended
  <2>2. CASE pc # "run"
    BY <1>1, <1>2, <1>4, <1>10, <2>2 DEF ResultsAreWhole
  <2> QED
    BY <2>1, <2>2
<1>11. ~(h[1] = "run" /\ pc' = "run")
  BY <1>1, <1>6, Stages DEF ResultsAreWhole
<1> QED
  BY <1>7, <1>8, <1>9, <1>10, <1>11

LEMMA WholeStep ==
  ASSUME Truth, Control, Turns, Masks, status \in [Results -> BOOLEAN], Watched,
         ResultsAreWhole, Next
  PROVE  ResultsAreWhole'
<1> USE DEF ResultsAreWhole, Over, Ended, InSection
<1>1. CASE UnknownPlugin
  BY <1>1 DEF UnknownPlugin, mainVars, results, shmVars, queues, report, history
<1>2. CASE Pick
  BY <1>2, Stages DEF Pick, mainVars, results, shmVars, queues, report, history
<1>3. CASE Prepare
  BY <1>3, Stages DEF Prepare, mainVars, results, shmVars, queues, report, history
<1>4. CASE SpawnFails
  <2>1. pc \in Calls /\ Continue(TRUE) /\ hit' = hit /\ lost' = lost /\ kid = "none"
    BY <1>4, Zenon DEF SpawnFails
  <2> QED
    BY <2>1, ContinueWhole
<1>5. CASE Spawn
  BY <1>5 DEF Spawn, mainVars, results, shmVars, queues, report, history
<1>6. CASE Reap
  <2>1. /\ pc \in Calls /\ Continue(kid # "exited") /\ hit' = hit /\ lost' = lost
        /\ kid \in {"exited", "failed", "killed"}
    BY <1>6 DEF Reap, Turns
  <2> QED
    BY <2>1, ContinueWhole DEF Ended
<1>7. CASE MainAllocates
  BY <1>7 DEF MainAllocates, mainVars, results, shmVars, queues, report, history
<1>8. CASE TestPlugin
  BY <1>8, Stages DEF TestPlugin, mainVars, results, shmVars, queues, report, history
<1>9. CASE Exit
  BY <1>9, Stages DEF Exit, mainVars, results, shmVars, queues, report, history
<1>10. CASE Start
  BY <1>10 DEF Start, shm_enable, Working, Responding, mainVars, results, shmVars, queues,
     report, history
<1>11. CASE NextChunk
  BY <1>11 DEF NextChunk, Consumer, Queue, Foreign, Working, mainVars, results, shmVars,
     queues, report, history
<1>12. CASE QueueEmpty
  BY <1>12 DEF QueueEmpty, Queue, Working, Outcome, mainVars, results, shmVars, queues,
     report, history
<1>13. CASE Advance
  BY <1>13 DEF Advance, Working, mainVars, results, shmVars, queues, report, history
<1>14. CASE Store
  <2>1. /\ InSection /\ UNCHANGED <<pc, status, instance, hit, lost>> /\ Test(pc) \in Sections
        /\ kid' \in {"exited", "failed"} /\ kid = "store"
        /\ forbidden' = [forbidden EXCEPT ![Test(pc)] =
                           IF pc = "connect_port" THEN @ \cup mask ELSE mask]
    BY <1>14, SectionOf DEF Store, Turns, Outcome, history
  <2>2. forbidden \in [Sections -> SUBSET Functions] /\ pc \in Calls
    BY <1>14 DEF Masks, Store, Turns
  <2>3. \A s \in Sections : forbidden'[s] = IF s # Test(pc) THEN forbidden[s] ELSE
                              IF pc = "connect_port" THEN forbidden[s] \cup mask ELSE mask
    BY <2>1, <2>2
  <2>4. /\ forbidden'["connect_port"] = IF pc = "connect_port"
             THEN forbidden["connect_port"] \cup mask ELSE forbidden["connect_port"]
        /\ forbidden'["run"] = IF pc = "run" THEN mask ELSE forbidden["run"]
    BY <2>2, <2>3, SectionsAre, TestIs
  <2>5. pc = "run" => ~Over("run")
    BY Stages
  <2> QED
    BY <2>1, <2>4, <2>5
<1>15. CASE CallFunction
  <2>1. /\ UNCHANGED <<pc, status, forbidden, instance, kid, lost>> /\ kid \in {"plugin", "chunk"}
        /\ pc \in Calls /\ ~logging
    BY <1>15 DEF CallFunction, Acts, InPlugin, mainVars, results, Turns
  <2>2. PICK f \in Functions :
          /\ mask' = IF enabled THEN mask \cup {f} ELSE mask
          /\ hit' = IF pc \in Realtime THEN hit \cup {<<Test(pc), f>>} ELSE hit
    BY <1>15 DEF CallFunction
  <2>3. mask \subseteq mask' /\ (pc \in Realtime => f \in mask')
    BY <2>1, <2>2 DEF Watched, InSection
  <2>4. pc \in Realtime => Stage(pc) \in 4..11 /\ instance
    BY Stages DEF Realtime, Turns
  <2>5. \A h \in hit' \ lost' :
          h \in hit \ lost \/ (h[1] = Test(pc) /\ h[2] = f /\ pc \in Realtime)
    BY <2>1, <2>2
  <2>6. /\ Test(pc) = "connect_port" => pc = "connect_port"
        /\ Test(pc) = "run" => pc = "run" /\ ~Over("run")
        /\ Stage("run") = 8
    BY <2>1, TestIs, Stages
  <2> QED
    BY <2>1, <2>3, <2>4, <2>5, <2>6
<1>16. CASE SystemCall
  BY <1>16 DEF SystemCall, Acts, InPlugin, mainVars, results, shmVars, queues, report, history
<1>17. CASE LogBegin
  BY <1>17 DEF LogBegin, Acts, InPlugin, mainVars, results, shmVars, queues, report, history
<1>18. CASE LogEnd
  BY <1>18 DEF LogEnd, mainVars, results, shmVars, queues, report, history
<1>19. CASE Schedule
  BY <1>19 DEF Schedule, Acts, InPlugin, Working, mainVars, results, shmVars, queues, report,
     history
<1>20. CASE Respond
  BY <1>20 DEF Respond, Acts, InPlugin, Working, mainVars, results, shmVars, queues, report,
     history
<1>21. CASE Return
  BY <1>21, Stages DEF Return, InPlugin, Outcome, Turns, Realtime, mainVars, results, shmVars,
     queues, report, history
<1>22. CASE ReturnError
  BY <1>22 DEF ReturnError, Acts, InPlugin, Working, Responding, mainVars, results, shmVars,
     queues, report, history
<1>23. CASE Crash
  BY <1>23 DEF Crash, mainVars, results, shmVars, queues, report, history
<1>24. CASE Quit
  <2>1. /\ UNCHANGED <<pc, instance, status, forbidden, hit, mask>> /\ kid' = "exited"
        /\ lost' = IF pc \in Realtime THEN lost \cup {<<Test(pc), f>> : f \in mask} ELSE lost
        /\ kid \in {"plugin", "chunk"}
    BY <1>24 DEF Quit, InPlugin, mainVars, results, shmVars
  <2>2. \A h \in hit \ lost' : h = <<h[1], h[2]>> /\ h \in hit \ lost
    BY <2>1 DEF Masks
  <2>3. \A h \in hit \ lost' : pc \in Realtime /\ h[1] = Test(pc) => h[2] \notin mask
    BY <2>1, <2>2
  <2>4. Test("connect_port") = "connect_port" /\ Test("run") = "run"
    BY DEF Test
  <2> QED
    BY <2>1, <2>2, <2>3, <2>4
<1> QED
  BY Actions, <1>1, <1>2, <1>3, <1>4, <1>5, <1>6, <1>7, <1>8, <1>9, <1>10, <1>11, <1>12,
     <1>13, <1>14, <1>15, <1>16, <1>17, <1>18, <1>19, <1>20, <1>21, <1>22, <1>23, <1>24

LEMMA ContinueSpills ==
  ASSUME Truth, Control, Turns, Spills, WorkIsOwn, pc \in Calls, NEW failed \in BOOLEAN,
         Continue(failed), foreign' = foreign, kid \in {"none", "exited", "failed", "killed"}
  PROVE  Spills' /\ WorkIsOwn'
<1>1. /\ \A c \in Mileposts : Over(c)' => Over(c) \/ c = pc
      /\ Stage(pc') >= 13 => Stage(pc) >= 13
      /\ Mileposts = {"prepare", "work_response", "run", "work_2", "work_response_2"}
  BY ContinueStage DEF Mileposts
<1>2. /\ kid' = "none" /\ n' = n /\ to_worker' = to_worker /\ from_worker' = from_worker
      /\ spilled \subseteq spilled'
      /\ pc \in {"work_2", "work_response_2"} /\ (~Ended \/ pc \in quit) => n \in spilled'
  BY DEF Continue, queues, Ended
<1> HIDE DEF Mileposts
<1>3. Over("work_2")' \/ Stage(pc') >= 13 => Over("work_2") \/ pc = "work_2" \/ Stage(pc) >= 13
  BY <1>1
<1>4. Over("work_response_2")' \/ Stage(pc') >= 13 =>
        Over("work_response_2") \/ pc = "work_response_2" \/ Stage(pc) >= 13
  BY <1>1
<1>5. WorkIsOwn'
  BY <1>2 DEF WorkIsOwn
<1>6. /\ Has(to_worker, n)' <=> Has(to_worker, n)
      /\ Has(from_worker, n)' <=> Has(from_worker, n)
      /\ ~Ended' /\ kid' \notin {"plugin", "store"}
  BY <1>2 DEF Has, Ended
<1> QED
  BY <1>2, <1>3, <1>4, <1>5, <1>6 DEF Spills

LEMMA SpillsStep ==
  ASSUME Truth, Control, Turns, Sets, Queues, Spills, WorkIsOwn, Next
  PROVE  Spills' /\ WorkIsOwn'
<1> USE DEF Spills, WorkIsOwn, Over, Ended, Has
<1>1. CASE UnknownPlugin
  <2>1. /\ Stage(pc) = 14 /\ n \in Nat /\ n' = n + 1 /\ UNCHANGED <<queues, foreign, spilled>>
        /\ pc' \in {"pick", "instantiate"} /\ kid' = "none"
    BY <1>1, Stages DEF UnknownPlugin, Pick, Control, queues, history, Turns, Calls
  <2>2. \A q \in {to_worker, from_worker} : \A i \in 1 .. Len(q) : q[i] \in 1 .. n
    BY Element DEF Queues
  <2>3. \A q \in {to_worker, from_worker} : \A i \in 1 .. Len(q) : q[i] \in spilled
    BY <2>1
  <2>4. ~Has(to_worker, n + 1) /\ ~Has(from_worker, n + 1)
    BY <2>1, <2>2
  <2> QED
    BY <2>1, <2>3, <2>4 DEF queues
<1>2. CASE Pick
  <2>1. /\ Stage(pc) = 14 /\ n \in Nat /\ n' = n + 1 /\ UNCHANGED <<queues, foreign, spilled>>
        /\ pc' \in {"pick", "instantiate"} /\ kid' = "none"
    BY <1>2, Stages DEF UnknownPlugin, Pick, Control, queues, history, Turns, Calls
  <2>2. \A q \in {to_worker, from_worker} : \A i \in 1 .. Len(q) : q[i] \in 1 .. n
    BY Element DEF Queues
  <2>3. \A q \in {to_worker, from_worker} : \A i \in 1 .. Len(q) : q[i] \in spilled
    BY <2>1
  <2>4. ~Has(to_worker, n + 1) /\ ~Has(from_worker, n + 1)
    BY <2>1, <2>2
  <2> QED
    BY <2>1, <2>3, <2>4 DEF queues
<1>3. CASE Prepare
  <2>1. /\ UNCHANGED <<n, kid, instance, to_worker, from_worker, quit, spilled, foreign>>
        /\ Stage(pc) = 3 /\ Stage(pc') \in 4..5 /\ pc' \notin {"work_2", "work_response_2"}
    BY <1>3, Stages DEF Prepare, mainVars, queues, history
  <2> QED
    BY <2>1, Stages
<1>4. CASE SpawnFails
  <2>1. pc \in Calls /\ Continue(TRUE) /\ foreign' = foreign /\ kid = "none"
    BY <1>4, Zenon DEF SpawnFails
  <2> QED
    BY <2>1, ContinueSpills
<1>5. CASE Spawn
  BY <1>5 DEF Spawn, mainVars, results, shmVars, queues, report, history
<1>6. CASE Reap
  <2>1. /\ pc \in Calls /\ Continue(kid # "exited") /\ foreign' = foreign
        /\ kid \in {"exited", "failed", "killed"}
    BY <1>6 DEF Reap, Turns
  <2> QED
    BY <2>1, ContinueSpills DEF Ended
<1>7. CASE MainAllocates
  BY <1>7 DEF MainAllocates, mainVars, results, shmVars, queues, report, history
<1>8. CASE TestPlugin
  BY <1>8, Stages DEF TestPlugin, mainVars, results, shmVars, queues, report, history
<1>9. CASE Exit
  BY <1>9, Stages DEF Exit, mainVars, results, shmVars, queues, report, history
<1>10. CASE Start
  BY <1>10 DEF Start, shm_enable, Working, Responding, mainVars, results, shmVars, queues,
     report, history
<1>11. CASE NextChunk
  BY <1>11 DEF NextChunk, Consumer, Queue, Foreign, Working, mainVars, results, shmVars,
     queues, report, history
<1>12. CASE QueueEmpty
  BY <1>12 DEF QueueEmpty, Queue, Working, Outcome, mainVars, results, shmVars, queues,
     report, history
<1>13. CASE Advance
  <2>1. /\ UNCHANGED <<pc, n, instance, quit, spilled, foreign>> /\ kid' = "loop" /\ Queue # <<>>
        /\ to_worker \in Seq(1 .. n) /\ from_worker \in Seq(1 .. n)
    BY <1>13 DEF Advance, mainVars, history, Turns, Queues
  <2>2. \/ to_worker' = Tail(to_worker) /\ to_worker # <<>> /\ from_worker' = from_worker
        \/ from_worker' = Tail(from_worker) /\ from_worker # <<>> /\ to_worker' = to_worker
    BY <1>13, <2>1 DEF Advance, Queue
  <2>3. ASSUME NEW q \in Seq(1 .. n), NEW r \in Seq(1 .. n), r = q \/ (q # <<>> /\ r = Tail(q)),
               NEW i \in 1 .. Len(r)
        PROVE  \E j \in 1 .. Len(q) : r[i] = q[j]
    <3>1. CASE r = q
      BY <3>1
    <3>2. CASE q # <<>> /\ r = Tail(q)
      BY <3>2, Shorter
    <3> QED
      BY <2>3, <3>1, <3>2
  <2>4. to_worker' \in Seq(1 .. n) /\ from_worker' \in Seq(1 .. n)
    BY <2>1, <2>2, Shorter
  <2>5. /\ \A i \in 1 .. Len(to_worker') : \E j \in 1 .. Len(to_worker) :
             to_worker'[i] = to_worker[j]
        /\ \A i \in 1 .. Len(from_worker') : \E j \in 1 .. Len(from_worker) :
             from_worker'[i] = from_worker[j]
    BY <2>1, <2>2, <2>3, <2>4
  <2> QED
    BY <2>1, <2>5
<1>14. CASE Store
  BY <1>14, Stages DEF Store, shm_disable, Outcome, Turns, Realtime, mainVars, results,
     shmVars, queues, report, history
<1>15. CASE CallFunction
  BY <1>15 DEF CallFunction, Acts, InPlugin, mainVars, results, shmVars, queues, report, history
<1>16. CASE SystemCall
  BY <1>16 DEF SystemCall, Acts, InPlugin, mainVars, results, shmVars, queues, report, history
<1>17. CASE LogBegin
  BY <1>17 DEF LogBegin, Acts, InPlugin, mainVars, results, shmVars, queues, report, history
<1>18. CASE LogEnd
  BY <1>18 DEF LogEnd, mainVars, results, shmVars, queues, report, history
<1>19. CASE Schedule
  <2>1. /\ UNCHANGED <<pc, n, kid, instance, from_worker, foreign>> /\ spilled \subseteq spilled'
        /\ pc \in {"work_response_2", "deactivate", "cleanup"} => n \in spilled'
        /\ quit' = quit /\ pc \in Calls /\ kid \in {"plugin", "chunk"}
        /\ to_worker \in Seq(1 .. n) /\ n \in 1 .. n
    <3>1. pc \in Calls /\ kid \in {"plugin", "chunk"}
      BY <1>19 DEF Schedule, Acts, InPlugin, Turns
    <3>2. n \in 1 .. n
      BY <3>1 DEF Turns, Control
    <3>3. to_worker \in Seq(1 .. n)
      BY DEF Queues
    <3> QED
      BY <1>19, <3>1, <3>2, <3>3 DEF Schedule, mainVars
  <2>2. to_worker' = to_worker \/ to_worker' = Append(to_worker, n)
    BY <1>19 DEF Schedule
  <2>3. \A i \in 1 .. Len(to_worker') :
          to_worker'[i] = n \/ (i \in 1 .. Len(to_worker) /\ to_worker'[i] = to_worker[i])
    <3>1. CASE to_worker' = to_worker
      BY <2>1, <3>1
    <3>2. CASE to_worker' = Append(to_worker, n)
      <4> HIDE DEF Has, Spills
      <4> QED
        BY <2>1, <3>2, Longer
    <3> QED
      BY <2>2, <3>1, <3>2
  <2>4. Over("work_2") \/ Stage(pc) >= 13 => pc \in {"work_response_2", "deactivate", "cleanup"}
    BY <2>1, Stages DEF Calls
  <2> QED
    BY <2>1, <2>3, <2>4 DEF Working
<1>20. CASE Respond
  <2>1. /\ UNCHANGED <<pc, n, kid, instance, to_worker, quit, foreign, spilled>>
        /\ pc \in {"work", "work_2"} /\ kid = "chunk"
        /\ from_worker \in Seq(1 .. n) /\ n \in 1 .. n
    <3>1. pc \in Calls /\ pc \in {"work", "work_2"} /\ kid = "chunk"
      BY <1>20 DEF Respond, Turns, Working
    <3>2. n \in 1 .. n
      BY <3>1 DEF Turns, Control
    <3>3. from_worker \in Seq(1 .. n)
      BY DEF Queues
    <3> QED
      BY <1>20, <3>1, <3>2, <3>3 DEF Respond, mainVars, history
  <2>2. from_worker' = from_worker \/ from_worker' = Append(from_worker, n)
    BY <1>20 DEF Respond
  <2>3. \A i \in 1 .. Len(from_worker') :
          from_worker'[i] = n \/ (i \in 1 .. Len(from_worker) /\ from_worker'[i] = from_worker[i])
    <3>1. CASE from_worker' = from_worker
      BY <2>1, <3>1
    <3>2. CASE from_worker' = Append(from_worker, n)
      <4> HIDE DEF Has, Spills
      <4> QED
        BY <2>1, <3>2, Longer
    <3> QED
      BY <2>2, <3>1, <3>2
  <2>4. ~Over("work_response_2") /\ Stage(pc) < 13 /\ pc # "work_response_2"
    BY <2>1, Stages
  <2>5. Has(to_worker, n)' <=> Has(to_worker, n)
    BY <2>1
  <2> HIDE DEF Has
  <2>6. /\ Over("work_2")' <=> Over("work_2")
        /\ ~Over("work_response_2")' /\ ~Ended /\ ~Ended' /\ Stage(pc') < 13
    BY <2>1, <2>4
  <2>7. /\ \A i \in 1 .. Len(from_worker) : from_worker[i] = n \/ from_worker[i] \in spilled
        /\ \A i \in 1 .. Len(to_worker) : to_worker[i] = n \/ to_worker[i] \in spilled
    OBVIOUS
  <2>8. /\ \A i \in 1 .. Len(from_worker') :
             from_worker'[i] = n' \/ from_worker'[i] \in spilled'
        /\ \A i \in 1 .. Len(to_worker') : to_worker'[i] = n' \/ to_worker'[i] \in spilled'
    BY <2>1, <2>3, <2>7
  <2> QED
    BY <2>1, <2>4, <2>5, <2>6, <2>8, Stages
<1>21. CASE Return
  BY <1>21, Stages DEF Return, InPlugin, Outcome, Turns, Working, Responding, mainVars,
     results, shmVars, queues, report, history
<1>22. CASE ReturnError
  BY <1>22 DEF ReturnError, Acts, InPlugin, Working, Responding, mainVars, results, shmVars,
     queues, report, history
<1>23. CASE Crash
  BY <1>23 DEF Crash, mainVars, results, shmVars, queues, report, history
<1>24. CASE Quit
  BY <1>24 DEF Quit, InPlugin, mainVars, results, shmVars, queues, report, history
<1> QED
  BY Actions, <1>1, <1>2, <1>3, <1>4, <1>5, <1>6, <1>7, <1>8, <1>9, <1>10, <1>11, <1>12,
     <1>13, <1>14, <1>15, <1>16, <1>17, <1>18, <1>19, <1>20, <1>21, <1>22, <1>23, <1>24
-----------------------------------------------------------------------------
LEMMA AfterTheReport ==
  ASSUME Truth, Control, Turns, Next, ~TestPlugin, Reported'
  PROVE  /\ Reported /\ crashed' = crashed /\ nonrt' = nonrt /\ hit' = hit
         /\ lost \subseteq lost'
         /\ fell' \subseteq fell \cup {"cleanup"}
<1> USE DEF Reported
<1>1. CASE UnknownPlugin
  BY <1>1 DEF UnknownPlugin, mainVars, results, shmVars, queues, report, history
<1>2. CASE Pick
  BY <1>2 DEF Pick, mainVars, results, shmVars, queues, report, history
<1>3. CASE Prepare
  BY <1>3 DEF Prepare, mainVars, results, shmVars, queues, report, history
<1>4. CASE SpawnFails
  <2>1. /\ pc \in Calls /\ Continue(TRUE) /\ hit' = hit /\ fell' = fell
        /\ lost' = lost /\ UNCHANGED report
    BY <1>4, Zenon DEF SpawnFails, Continue
  <2>2. pc' = Follow(instance, ports') /\ ports' \in 0 .. NPorts /\ instance \in BOOLEAN
    <3>1. instance \in BOOLEAN
      BY DEF Truth
    <3> QED
      BY <2>1, <3>1, ContinueControl
  <2>3. pc' # "cleanup" /\ (pc' = "pick" <=> pc = "cleanup") /\ pc' # "exit"
    BY <2>1, <2>2, FollowStage DEF Calls
  <2> QED
    BY <2>1, <2>3 DEF Reported, report
<1>5. CASE Spawn
  BY <1>5 DEF Spawn, mainVars, results, shmVars, queues, report, history
<1>6. CASE Reap
  <2>1. /\ pc \in Calls /\ Continue(kid # "exited") /\ hit' = hit /\ fell' = fell
        /\ lost' = lost /\ UNCHANGED report
    BY <1>6 DEF Reap, Continue, Turns
  <2>2. pc' = Follow(instance, ports') /\ ports' \in 0 .. NPorts /\ instance \in BOOLEAN
    <3>1. instance \in BOOLEAN
      BY DEF Truth
    <3> QED
      BY <2>1, <3>1, ContinueControl
  <2>3. pc' # "cleanup" /\ (pc' = "pick" <=> pc = "cleanup") /\ pc' # "exit"
    BY <2>1, <2>2, FollowStage DEF Calls
  <2> QED
    BY <2>1, <2>3 DEF Reported, report
<1>7. CASE MainAllocates
  BY <1>7 DEF MainAllocates, mainVars, results, shmVars, queues, report, history
<1>8. CASE TestPlugin
  BY <1>8
<1>9. CASE Exit
  BY <1>9 DEF Exit, mainVars, results, shmVars, queues, report, history
<1>10. CASE Start
  BY <1>10 DEF Start, shm_enable, Working, Responding, mainVars, results, shmVars, queues,
     report, history
<1>11. CASE NextChunk
  BY <1>11 DEF NextChunk, Consumer, Queue, Foreign, Working, mainVars, results, shmVars,
     queues, report, history
<1>12. CASE QueueEmpty
  BY <1>12 DEF QueueEmpty, Queue, Working, Outcome, mainVars, results, shmVars, queues,
     report, history
<1>13. CASE Advance
  BY <1>13 DEF Advance, Working, mainVars, results, shmVars, queues, report, history
<1>14. CASE Store
  BY <1>14 DEF Store, shm_disable, Outcome, mainVars, results, shmVars, queues, report, history
<1>15. CASE CallFunction
  BY <1>15 DEF CallFunction, Acts, InPlugin, Realtime, mainVars, results, shmVars, queues,
     report, history
<1>16. CASE SystemCall
  BY <1>16 DEF SystemCall, Acts, InPlugin, mainVars, results, shmVars, queues, report, history
<1>17. CASE LogBegin
  BY <1>17 DEF LogBegin, Acts, InPlugin, mainVars, results, shmVars, queues, report, history
<1>18. CASE LogEnd
  BY <1>18 DEF LogEnd, mainVars, results, shmVars, queues, report, history
<1>19. CASE Schedule
  BY <1>19 DEF Schedule, Acts, InPlugin, Working, mainVars, results, shmVars, queues, report,
     history
<1>20. CASE Respond
  BY <1>20 DEF Respond, Acts, InPlugin, Working, mainVars, results, shmVars, queues, report,
     history
<1>21. CASE Return
  BY <1>21 DEF Return, InPlugin, Outcome, mainVars, results, shmVars, queues, report, history
<1>22. CASE ReturnError
  BY <1>22 DEF ReturnError, Acts, InPlugin, Working, Responding, mainVars, results, shmVars,
     queues, report, history
<1>23. CASE Crash
  BY <1>23 DEF Crash, Turns, Calls, mainVars, results, shmVars, queues, report, history
<1>24. CASE Quit
  BY <1>24 DEF Quit, InPlugin, Turns, Calls, mainVars, results, shmVars, queues, report,
     history
<1> QED
  BY Actions, <1>1, <1>2, <1>3, <1>4, <1>5, <1>6, <1>7, <1>8, <1>9, <1>10, <1>11, <1>12,
     <1>13, <1>14, <1>15, <1>16, <1>17, <1>18, <1>19, <1>20, <1>21, <1>22, <1>23, <1>24

LEMMA HitGrows ==
  ASSUME Next, ~Pick, ~TestPlugin
  PROVE  hit \subseteq hit' /\ quit \subseteq quit' /\ nonrt' = nonrt
<1>1. CASE UnknownPlugin
  BY <1>1 DEF UnknownPlugin, mainVars, results, shmVars, queues, report, history
<1>2. CASE Pick
  BY <1>2
<1>3. CASE Prepare
  BY <1>3 DEF Prepare, mainVars, results, shmVars, queues, report, history
<1>4. CASE SpawnFails
  BY <1>4 DEF SpawnFails, Continue, mainVars, results, shmVars, queues, report, history
<1>5. CASE Spawn
  BY <1>5 DEF Spawn, mainVars, results, shmVars, queues, report, history
<1>6. CASE Reap
  BY <1>6 DEF Reap, Continue, mainVars, results, shmVars, queues, report, history
<1>7. CASE MainAllocates
  BY <1>7 DEF MainAllocates, mainVars, results, shmVars, queues, report, history
<1>8. CASE TestPlugin
  BY <1>8
<1>9. CASE Exit
  BY <1>9 DEF Exit, mainVars, results, shmVars, queues, report, history
<1>10. CASE Start
  BY <1>10 DEF Start, shm_enable, Working, Responding, mainVars, results, shmVars, queues,
     report, history
<1>11. CASE NextChunk
  BY <1>11 DEF NextChunk, Consumer, Queue, Foreign, Working, mainVars, results, shmVars,
     queues, report, history
<1>12. CASE QueueEmpty
  BY <1>12 DEF QueueEmpty, Queue, Working, Outcome, mainVars, results, shmVars, queues,
     report, history
<1>13. CASE Advance
  BY <1>13 DEF Advance, Working, mainVars, results, shmVars, queues, report, history
<1>14. CASE Store
  BY <1>14 DEF Store, shm_disable, Outcome, mainVars, results, shmVars, queues, report, history
<1>15. CASE CallFunction
  BY <1>15 DEF CallFunction, Acts, InPlugin, mainVars, results, shmVars, queues, report, history
<1>16. CASE SystemCall
  BY <1>16 DEF SystemCall, Acts, InPlugin, mainVars, results, shmVars, queues, report, history
<1>17. CASE LogBegin
  BY <1>17 DEF LogBegin, Acts, InPlugin, mainVars, results, shmVars, queues, report, history
<1>18. CASE LogEnd
  BY <1>18 DEF LogEnd, mainVars, results, shmVars, queues, report, history
<1>19. CASE Schedule
  BY <1>19 DEF Schedule, Acts, InPlugin, Working, mainVars, results, shmVars, queues, report,
     history
<1>20. CASE Respond
  BY <1>20 DEF Respond, Acts, InPlugin, Working, mainVars, results, shmVars, queues, report,
     history
<1>21. CASE Return
  BY <1>21 DEF Return, InPlugin, Outcome, mainVars, results, shmVars, queues, report, history
<1>22. CASE ReturnError
  BY <1>22 DEF ReturnError, Acts, InPlugin, Working, Responding, mainVars, results, shmVars,
     queues, report, history
<1>23. CASE Crash
  BY <1>23 DEF Crash, mainVars, results, shmVars, queues, report, history
<1>24. CASE Quit
  BY <1>24 DEF Quit, InPlugin, mainVars, results, shmVars, queues, report, history
<1> QED
  BY Actions, <1>1, <1>2, <1>3, <1>4, <1>5, <1>6, <1>7, <1>8, <1>9, <1>10, <1>11, <1>12,
     <1>13, <1>14, <1>15, <1>16, <1>17, <1>18, <1>19, <1>20, <1>21, <1>22, <1>23, <1>24

LEMMA TestsRead ==
  ASSUME Truth, Control, Turns, Sets, status \in [Results -> BOOLEAN], TestPlugin
  PROVE  /\ pc = "test" /\ kid = "none" /\ Stage(pc) = 12
         /\ hit' = hit /\ fell' = fell /\ quit' = quit /\ lost' = lost
         /\ crashed' = {t \in Tested : status[t]} /\ nonrt' = [s \in Sections |-> NonRt(s)]
BY Stages DEF TestPlugin, Turns, Calls

LEMMA CrashStep ==
  ASSUME Truth, Control, Turns, Sets, status \in [Results -> BOOLEAN], Falls,
         CrashReported, Next
  PROVE  CrashReported'
<1>1. CASE TestPlugin
  <2>1. \A c \in fell : Test(c) \in Tested => status[Test(c)]
    BY <1>1, TestsRead DEF Falls
  <2> QED
    BY <1>1, <2>1, TestsRead DEF CrashReported
<1>2. CASE ~TestPlugin
  <2> SUFFICES ASSUME Reported' PROVE {Test(call) : call \in fell'} \cap Tested \subseteq crashed'
    BY DEF CrashReported
  <2>1. /\ {Test(call) : call \in fell} \cap Tested \subseteq crashed
        /\ crashed' = crashed /\ fell' \subseteq fell \cup {"cleanup"}
    BY <1>2, AfterTheReport DEF CrashReported
  <2>2. Test("cleanup") \notin Tested
    BY DEF Test, Tested
  <2> QED
    BY <2>1, <2>2
<1> QED
  BY <1>1, <1>2

LEMMA NonRtStep ==
  ASSUME Truth, Control, Turns, Sets, status \in [Results -> BOOLEAN], ResultsAreWhole,
         NonRtReported, Next
  PROVE  NonRtReported'
<1>1. CASE TestPlugin
  <2> SUFFICES ASSUME NEW s \in {"connect_port", "run"}, NEW h \in hit \ lost, h[1] = s
               PROVE  s \in crashed' \/ h[2] \in nonrt'[s]
    BY <1>1, TestsRead DEF NonRtReported, NonRtReportedIn
  <2>1. s \in Sections /\ s \in Tested
    BY SectionsAre DEF Tested
  <2>2. instance /\ Over("run")
    BY <1>1, TestsRead, Stages DEF ResultsAreWhole, Over
  <2>3. status[s] \/ h[2] \in forbidden[s]
    BY <1>1, <2>2, TestsRead DEF ResultsAreWhole, InSection
  <2> QED
    BY <1>1, <2>1, <2>2, <2>3, TestsRead DEF NonRt
<1>2. CASE ~TestPlugin
  BY <1>2, AfterTheReport DEF NonRtReported, NonRtReportedIn
<1> QED
  BY <1>1, <1>2

LEMMA VerdictStep ==
  ASSUME Truth, Control, Turns, Sets, status \in [Results -> BOOLEAN], ResultsAreOwn,
         NonRtVerdictIsOwn, Next
  PROVE  NonRtVerdictIsOwn'
<1>1. CASE TestPlugin
  <2> SUFFICES ASSUME NEW s \in Sections, NEW f \in nonrt'[s]
               PROVE  <<s, f>> \in hit \/ Deserted(s)
    BY <1>1, TestsRead DEF NonRtVerdictIsOwn, Deserted
  <2>1. f \in forbidden[s] /\ ~status[s] /\ instance
    BY <1>1, TestsRead DEF NonRt
  <2>2. Over("prepare") /\ Over("run") /\ Over("work_response_2")
    BY <1>1, <2>1, TestsRead, Stages DEF Over
  <2>3. CASE s = "connect_port"
    BY <2>1, <2>2, <2>3 DEF ResultsAreOwn, OwnCalls
  <2>4. CASE s = "run"
    BY <2>1, <2>2, <2>4, TestIs DEF ResultsAreOwn, OwnCalls, Deserted
  <2>5. CASE s = "work_response"
    BY <2>1, <2>2, <2>5, TestIs DEF ResultsAreOwn, OwnCalls, Deserted
  <2> QED
    BY <2>3, <2>4, <2>5, SectionsAre
<1>2. CASE Pick
  BY <1>2 DEF Pick, NonRtVerdictIsOwn
<1>3. CASE ~TestPlugin /\ ~Pick
  BY <1>3, HitGrows DEF NonRtVerdictIsOwn, Deserted
<1> QED
  BY <1>1, <1>2, <1>3
-----------------------------------------------------------------------------
LEMMA InitInvariant == Init => IInv
<1> SUFFICES ASSUME Init PROVE IInv
  OBVIOUS
<1> USE DEF Init
<1>1. Truth /\ Control /\ Masks /\ Sets /\ Queues
  <2>1. Truth
    BY DEF Truth
  <2>2. Control
    BY DEF Control
  <2>3. Masks /\ Sets
    BY DEF Masks, Sets
  <2>4. to_worker = <<>> /\ from_worker = <<>> /\ <<>> \in Seq(1 .. n) /\ Len(<<>>) = 0
    OBVIOUS
  <2>5. Queues
    <3> HIDE DEF Init
    <3> SUFFICES ASSUME NEW q \in {to_worker, from_worker}
                 PROVE  q \in Seq(1 .. n) /\ Len(q) <= QueueCap
      BY DEF Queues
    <3>1. q = <<>> /\ Len(q) = 0 /\ q \in Seq(1 .. n)
      BY <2>4
    <3> QED
      BY <3>1
  <2> QED
    BY <2>1, <2>2, <2>3, <2>5
<1>2. status \in [Results -> BOOLEAN]
  BY ResultsAre
<1>3. TypeOK
  BY <1>1, <1>2, TypeParts
<1>4. Turns /\ Falls /\ Watched /\ ResultsAreOwn /\ ResultsAreWhole
  BY Stages DEF Turns, Falls, Watched, InSection, ResultsAreOwn, Over, Ended, ResultsAreWhole,
     Calls
<1>5. CrashReported /\ NonRtReported /\ NonRtVerdictIsOwn /\ WorkIsOwn
  BY DEF CrashReported, NonRtReported, NonRtReportedIn, NonRtVerdictIsOwn, WorkIsOwn
<1>6. Spills
  BY DEF Spills, Has
<1> QED
  BY <1>3, <1>4, <1>5, <1>6 DEF IInv

LEMMA StepInvariant == IInv /\ [Next]_vars => IInv'
<1> SUFFICES ASSUME IInv, [Next]_vars PROVE IInv'
  OBVIOUS
<1>1. CASE Next
  <2>1. /\ Truth /\ Control /\ Masks /\ Sets /\ Queues /\ status \in [Results -> BOOLEAN]
        /\ Turns /\ Falls /\ CrashReported /\ Watched /\ ResultsAreOwn /\ ResultsAreWhole
        /\ NonRtReported /\ NonRtVerdictIsOwn /\ Spills /\ WorkIsOwn
    BY TypeParts, Zenon DEF IInv
  <2>2. Truth' /\ Control' /\ Turns'
    BY <1>1, <2>1, TruthStep, ControlStep, TurnsStep
  <2>3. Masks' /\ Sets' /\ Queues' /\ status' \in [Results -> BOOLEAN]
    BY <1>1, <2>1, MasksStep, SetsStep, QueuesStep, StatusStep
  <2>4. TypeOK'
    BY <2>2, <2>3, TypePartsNext, Zenon
  <2>5. Falls' /\ CrashReported' /\ Watched'
    BY <1>1, <2>1, FallsStep, CrashStep, WatchedStep
  <2>6. ResultsAreOwn' /\ ResultsAreWhole' /\ NonRtReported' /\ NonRtVerdictIsOwn'
    BY <1>1, <2>1, OwnStep, WholeStep, NonRtStep, VerdictStep
  <2>7. Spills' /\ WorkIsOwn'
    BY <1>1, <2>1, SpillsStep
  <2> QED
    BY <2>2, <2>4, <2>5, <2>6, <2>7, Zenon DEF IInv
<1>2. CASE UNCHANGED vars
  <2>1. UNCHANGED <<pc, n, ret, iface, restores, ports, instance, status, forbidden, syscall,
                    enabled, mask, to_worker, from_worker, kid, bad, logging, crashed, nonrt,
                    fell, unwell, quit, hit, lost, foreign, spilled, left>>
    BY <1>2 DEF vars, mainVars, results, shmVars, queues, report, history
  <2>2. TypeOK' /\ Turns' /\ Falls' /\ CrashReported' /\ Watched'
    <3>1. TypeOK'
      BY <2>1 DEF IInv, TypeOK
    <3>2. Turns' /\ Falls'
      BY <2>1 DEF IInv, Turns, Falls, Working, Responding, Queue
    <3>3. CrashReported' /\ Watched'
      BY <2>1 DEF IInv, CrashReported, Reported, Watched, InSection
    <3> QED
      BY <3>1, <3>2, <3>3
  <2>3. ResultsAreOwn' /\ ResultsAreWhole'
    BY <2>1 DEF IInv, ResultsAreOwn, ResultsAreWhole, OwnCalls, Over, Ended, InSection
  <2>4. NonRtReported' /\ NonRtVerdictIsOwn'
    BY <2>1 DEF IInv, NonRtReported, NonRtReportedIn, Reported, NonRtVerdictIsOwn, Deserted
  <2>5. Spills' /\ WorkIsOwn'
    BY <2>1 DEF IInv, Spills, WorkIsOwn, Has, Over, Ended
  <2> QED
    BY <2>2, <2>3, <2>4, <2>5 DEF IInv
<1> QED
  BY <1>1, <1>2

(* In every reachable state of a session, whatever the plugins do in their *)
(* callbacks and whichever of them crash or exit, what main and its        *)
(* children share is in order: the inductive invariant that the theorems   *)
(* below rest on.                                                          *)
THEOREM SessionInvariant == Spec => []IInv
BY InitInvariant, StepInvariant, PTL DEF Spec

(* A child that was killed in a callback which has a test is reported as a *)
(* crash of its plugin, in whichever pass or port it happened.             *)
THEOREM SessionCrashReported == Spec => []CrashReported
<1>1. IInv => CrashReported
  BY DEF IInv
<1> QED
  BY <1>1, SessionInvariant, PTL

(* The non-realtime functions that connect_port and run call are reported, *)
(* on any port, unless the callback is reported as a crash or the child    *)
(* that made the call has left by exit(0).                                 *)
THEOREM SessionNonRtReported == Spec => []NonRtReported
<1>1. IInv => NonRtReported
  BY DEF IInv
<1> QED
  BY <1>1, SessionInvariant, PTL

(* No plugin is reported for a function that it did not call itself in     *)
(* that section, although crashes and messages leave the watch on, unless  *)
(* each of its calls of run, or of work_response, has left by exit(0).     *)
THEOREM SessionNonRtVerdictIsOwn == Spec => []NonRtVerdictIsOwn
<1>1. IInv => NonRtVerdictIsOwn
  BY DEF IInv
<1> QED
  BY <1>1, SessionInvariant, PTL

(* A plugin is given the work of another only if that one's last worker    *)
(* pass was killed, never made or left by exit(0), if work was scheduled   *)
(* after it, or if its plugin never came to life.                          *)
THEOREM SessionWorkIsOwn == Spec => []WorkIsOwn
<1>1. IInv => WorkIsOwn
  BY DEF IInv
<1> QED
  BY <1>1, SessionInvariant, PTL
================================================================================
