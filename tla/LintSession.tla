----------------------------- MODULE LintSession ------------------------------
(***************************************************************************)
(* main's loop over the plugins named on the command line.  Each plugin is *)
(* instantiated and taken through the life of a plugin in a host, one      *)
(* callback at a time, and every callback runs in a child of its own that  *)
(* shares lv2lint's memory (clone with CLONE_VM), so that a plugin which   *)
(* crashes kills only that child.  What the child had stored by then stays:*)
(* the worker queues, the shared mask of non-realtime functions and the    *)
(* results of earlier callbacks live on in the parent, and all of them are *)
(* used again for the next plugin.                                         *)
(*                                                                         *)
(* While a child runs, main waits for it: the steps of the two alternate.  *)
(* The build modelled has ENABLE_WRAP_TESTS and ENABLE_PTRACE_TESTS.       *)
(***************************************************************************)
EXTENDS Integers, Sequences, FiniteSets

CONSTANTS NPlugins,    \* plugin URIs on the command line
          NPorts,      \* at most so many ports per plugin
          Ifaces,      \* the worker interfaces plugins have: sets of functions
          Functions,   \* the interposed non-realtime functions (shift_t)
          QueueCap,    \* chunks a worker queue holds (64 KiB in the code)
          Budget       \* bound: notable things that plugins do in one session

ASSUME SessionAssumption ==
  /\ NPlugins \in Nat \ {0} /\ NPorts \in Nat
  /\ QueueCap \in Nat /\ Budget \in Nat
  /\ Ifaces \subseteq SUBSET {"work", "work_response", "end_run"}

(* the callbacks in the order main makes them, passes told apart by name *)
Calls == {"instantiate", "restore", "connect_port", "activate",
          "work", "work_response", "run", "work_2", "work_response_2",
          "deactivate", "cleanup"}

(* the result a callback's outcome goes into *)
Test(call) == CASE call = "work_2" -> "work"
                [] call = "work_response_2" -> "work_response"
                [] OTHER -> call

(* callbacks made between shm_enable and shm_disable, and traced *)
Realtime == {"connect_port", "run", "work_response", "work_response_2"}
Sections == {Test(call) : call \in Realtime}

(* the tests of lv2lint_plugin.c that look at a callback's outcome *)
Tested == {"restore", "connect_port", "activate", "work", "work_response",
           "run", "deactivate"}

VARIABLES
  (* main *)
  pc,            \* pick, prepare, test, exit, or the callback being made
  n,             \* plugins taken from the command line so far
  ret,           \* main's return value
  instance,      \* app.instance is not NULL
  iface,         \* the functions of app.work_iface
  restores,      \* the plugin has a default state and asks for it
  ports,         \* ports left to connect
  (* shared with the children *)
  status,        \* app.status, by test: not 0
  forbidden,     \* app.forbidden, by realtime section
  syscall,       \* some element of app.syscall is set
  enabled, mask, \* shm
  to_worker,     \* the plugins that queued the chunks of the two queues
  from_worker,
  (* the child *)
  kid,           \* none start plugin chunk loop advance store exited failed killed
  bad,           \* the worker status it has gathered is not a success
  logging,       \* it is inside log_vprintf with a Trace message
  (* the report, and what really happened *)
  crashed,       \* tests reported as "crashed"
  nonrt,         \* functions reported as non-realtime, by section
  fell,          \* history: calls in which a child of this plugin was killed
  unwell,        \* history: calls whose child failed in whatever way
  quit,          \* history: calls whose child has left by exit(0)
  hit,           \* history: <<section, f>>, f called by this plugin in section
  lost,          \* history: what of it was in the mask of a child that left so
  foreign,       \* history: plugins whose chunks were given to another plugin
  spilled,       \* history: plugins that may have left something in the queues
  left           \* what remains of Budget

mainVars == <<n, ret, iface, restores, ports>>
shmVars == <<enabled, mask>>
queues == <<to_worker, from_worker>>
results == <<status, forbidden, syscall>>
history == <<fell, unwell, quit, hit, lost, foreign, spilled>>
report == <<crashed, nonrt>>
vars == <<pc, mainVars, instance, results, shmVars, queues, kid, bad, logging,
          report, history, left>>
-----------------------------------------------------------------------------
(***************************************************************************)
(* lv2lint_shm.c                                                           *)
(***************************************************************************)
shm_enableKeep == enabled' = TRUE /\ UNCHANGED mask     \* variant: mask kept
shm_enable == enabled' = TRUE /\ mask' = {}

(* shm_disable, whose value the caller stores in forbidden *)
shm_disable == enabled' = FALSE /\ UNCHANGED mask

Init ==
  /\ pc = "pick" /\ n = 0 /\ ret = 0
  /\ instance = FALSE /\ iface = {} /\ restores = FALSE /\ ports = 0
  /\ status = [t \in {Test(call) : call \in Calls} |-> FALSE]
  /\ forbidden = [s \in Sections |-> {}]
  /\ syscall = FALSE
  /\ enabled = FALSE /\ mask = {}
  /\ to_worker = <<>> /\ from_worker = <<>>
  /\ kid = "none" /\ bad = FALSE /\ logging = FALSE
  /\ crashed = {} /\ nonrt = [s \in Sections |-> {}]
  /\ fell = {} /\ unwell = {} /\ quit = {} /\ hit = {} /\ lost = {}
  /\ foreign = {} /\ spilled = {}
  /\ left = Budget
-----------------------------------------------------------------------------
(***************************************************************************)
(* main                                                                    *)
(***************************************************************************)
UnknownPlugin ==
  /\ pc = "pick" /\ n < NPlugins
  /\ n' = n + 1 /\ ret' = ret + 1
  /\ UNCHANGED <<pc, instance, iface, restores, ports, results, shmVars, queues,
                 kid, bad, logging, report, history, left>>

Pick ==
  /\ pc = "pick" /\ n < NPlugins
  /\ n' = n + 1
  /\ pc' = "instantiate"
  /\ restores' \in BOOLEAN /\ ports' \in 0 .. NPorts
  /\ crashed' = {} /\ nonrt' = [s \in Sections |-> {}]
  /\ fell' = {} /\ unwell' = {} /\ quit' = {} /\ hit' = {} /\ lost' = {}
  /\ UNCHANGED <<ret, instance, iface, results, shmVars, queues,
                 kid, bad, logging, foreign, spilled, left>>

(* the two results that are cleared for each plugin, and the system calls *)
Prepare ==
  /\ pc = "prepare"
  /\ status' = [status EXCEPT !["connect_port"] = FALSE]
  /\ forbidden' = [forbidden EXCEPT !["connect_port"] = {}]
  /\ syscall' = FALSE
  /\ pc' = IF ports > 0 THEN "connect_port" ELSE "activate"
  /\ UNCHANGED <<mainVars, instance, shmVars, queues, kid, bad, logging,
                 report, history, left>>

(* what main does when the callback is over, given app.instance *)
Follow(alive, portsLeft) ==
  CASE pc = "instantiate" -> IF ~alive THEN "test"
                             ELSE IF restores THEN "restore" ELSE "prepare"
    [] pc = "restore" -> "prepare"
    [] pc = "connect_port" -> IF portsLeft > 0 THEN "connect_port" ELSE "activate"
    [] pc = "activate" -> "work"
    [] pc = "work" -> "work_response"
    [] pc = "work_response" -> "run"
    [] pc = "run" -> "work_2"
    [] pc = "work_2" -> "work_response_2"
    [] pc = "work_response_2" -> "deactivate"
    [] pc = "deactivate" -> "test"
    [] pc = "cleanup" -> "pick"

(* connect_port and the second passes add to the result, the others set it *)
RecordAll(failed) ==          \* variant: all of them set it
  status' = [status EXCEPT ![Test(pc)] = failed]
Record(failed) ==
  status' = [status EXCEPT ![Test(pc)] =
               IF pc \in {"connect_port", "work_2", "work_response_2"}
               THEN @ \/ failed ELSE failed]

(* back in main after a callback: _wrap returned 0 or 1.  The worker       *)
(* interface is asked of a fresh instance; cleanup forgets the instance,   *)
(* whatever became of it.                                                  *)
Continue(failed) ==
  /\ Record(failed)
  /\ unwell' = IF failed THEN unwell \cup {pc} ELSE unwell
  /\ spilled' = IF /\ pc \in {"work_2", "work_response_2"}
                   /\ kid \in {"none", "killed"} \/ pc \in quit
                THEN spilled \cup {n} ELSE spilled
  /\ ports' = IF pc = "connect_port" THEN ports - 1 ELSE ports
  /\ pc' = Follow(instance, ports')
  /\ IF pc = "instantiate" /\ instance THEN iface' \in Ifaces
     ELSE iface' = IF pc = "cleanup" THEN {} ELSE iface
  /\ instance' = (instance /\ pc # "cleanup")
  /\ kid' = "none" /\ bad' = FALSE /\ logging' = FALSE
  /\ UNCHANGED <<n, ret, restores, forbidden, syscall, shmVars, queues, report>>

(* _wrap: there is no stack, or clone fails *)
SpawnFails ==
  /\ pc \in Calls /\ kid = "none" /\ left > 0
  /\ left' = left - 1
  /\ Continue(TRUE)
  /\ UNCHANGED <<fell, quit, hit, lost, foreign>>

Spawn ==
  /\ pc \in Calls /\ kid = "none"
  /\ kid' = "start"
  /\ UNCHANGED <<pc, mainVars, instance, results, shmVars, queues, bad, logging,
                 report, history, left>>

(* waitpid, in _wrap_parent and _trace_parent *)
Reap ==
  /\ kid \in {"exited", "failed", "killed"}
  /\ Continue(kid # "exited")
  /\ UNCHANGED <<fell, quit, hit, lost, foreign, left>>

(* main allocates too, through the same interposed functions *)
MainAllocates ==
  /\ kid = "none" /\ enabled
  /\ \E f \in Functions : mask' = mask \cup {f}
  /\ UNCHANGED <<pc, mainVars, instance, results, enabled, queues, kid, bad,
                 logging, report, history, left>>

(***************************************************************************)
(* test_plugin, for the tests that look at what happened in the callbacks. *)
(* Any of them fails the plugin, and so may the tests not modelled here.   *)
(***************************************************************************)
NonRtUnguarded(s) ==          \* variant: app->instance is not asked for
  IF status[s] THEN {} ELSE forbidden[s]
NonRt(s) == IF status[s] \/ ~instance THEN {} ELSE forbidden[s]

TestPlugin ==
  /\ pc = "test"
  /\ crashed' = {t \in Tested : status[t]}
  /\ nonrt' = [s \in Sections |-> NonRt(s)]
  /\ IF \/ ~instance \/ crashed' # {}
        \/ \E s \in Sections : nonrt'[s] # {}
        \/ syscall
     THEN ret' = ret + 1
     ELSE ret' \in {ret, ret + 1}
  /\ pc' = IF instance THEN "cleanup" ELSE "pick"
  /\ spilled' = IF instance THEN spilled ELSE spilled \cup {n}
  /\ UNCHANGED <<n, iface, restores, ports, instance, results, shmVars, queues,
                 kid, bad, logging, fell, unwell, quit, hit, lost, foreign, left>>

Exit ==
  /\ pc = "pick" /\ n = NPlugins
  /\ pc' = "exit"
  /\ UNCHANGED <<mainVars, instance, results, shmVars, queues, kid, bad, logging,
                 report, history, left>>

Main == \/ UnknownPlugin
        \/ Pick
        \/ Prepare
        \/ SpawnFails
        \/ Spawn
        \/ Reap
        \/ MainAllocates
        \/ TestPlugin
        \/ Exit
-----------------------------------------------------------------------------
(***************************************************************************)
(* The child: lv2lint's own code in it                                     *)
(***************************************************************************)
Outcome == IF bad THEN "failed" ELSE "exited"

Working == pc \in {"work", "work_2"}
Responding == pc \in {"work_response", "work_response_2"}

Start ==
  /\ kid = "start"
  /\ IF pc \in Realtime THEN shm_enable ELSE UNCHANGED shmVars
  /\ kid' = IF Working \/ Responding THEN "loop" ELSE "plugin"
  /\ UNCHANGED <<pc, mainVars, instance, results, queues, bad, logging, report,
                 history, left>>

(* _wrap_work and _wrap_work_response: the next chunk of the queue, or the *)
(* end of the loop.  The chunk stays in the queue until the plugin is done *)
(* with it; without a function to take it, it is thrown away.              *)
Queue == IF Working THEN to_worker ELSE from_worker
Consumer == IF Working THEN "work" ELSE "work_response"

Foreign == IF Consumer \in iface /\ Head(Queue) # n THEN foreign \cup {Head(Queue)}
           ELSE foreign

NextChunkKeep ==              \* variant: without a function, nothing is read
  /\ kid = "loop" /\ Queue # <<>>
  /\ kid' = IF Consumer \in iface THEN "chunk"
            ELSE IF Working THEN Outcome ELSE "store"
  /\ foreign' = Foreign
  /\ UNCHANGED <<pc, mainVars, instance, results, shmVars, queues, bad, logging,
                 report, fell, unwell, quit, hit, lost, spilled, left>>
NextChunk ==
  /\ kid = "loop" /\ Queue # <<>>
  /\ kid' = IF Consumer \in iface THEN "chunk" ELSE "advance"
  /\ foreign' = Foreign
  /\ UNCHANGED <<pc, mainVars, instance, results, shmVars, queues, bad, logging,
                 report, fell, unwell, quit, hit, lost, spilled, left>>

QueueEmpty ==
  /\ kid = "loop" /\ Queue = <<>>
  /\ kid' = IF Working THEN Outcome
            ELSE IF "end_run" \in iface THEN "plugin" ELSE "store"
  /\ UNCHANGED <<pc, mainVars, instance, results, shmVars, queues, bad, logging,
                 report, history, left>>

AdvanceNot ==                 \* variant: the chunk is not released
  /\ kid = "advance"
  /\ UNCHANGED queues
  /\ kid' = "loop"
  /\ UNCHANGED <<pc, mainVars, instance, results, shmVars, bad, logging, report,
                 history, left>>
Advance ==
  /\ kid = "advance"
  /\ IF Working THEN to_worker' = Tail(to_worker) /\ UNCHANGED from_worker
     ELSE from_worker' = Tail(from_worker) /\ UNCHANGED to_worker
  /\ kid' = "loop"
  /\ UNCHANGED <<pc, mainVars, instance, results, shmVars, bad, logging, report,
                 history, left>>

(* the end of a realtime section: connect_port adds to its mask, run and   *)
(* work_response store theirs                                              *)
StoreLast ==                  \* variant: connect_port stores it as well
  /\ kid = "store"
  /\ shm_disable
  /\ forbidden' = [forbidden EXCEPT ![Test(pc)] = mask]
  /\ kid' = Outcome
  /\ UNCHANGED <<pc, mainVars, instance, status, syscall, queues, bad, logging,
                 report, history, left>>
Store ==
  /\ kid = "store"
  /\ shm_disable
  /\ forbidden' = [forbidden EXCEPT ![Test(pc)] =
                     IF pc = "connect_port" THEN @ \cup mask ELSE mask]
  /\ kid' = Outcome
  /\ UNCHANGED <<pc, mainVars, instance, status, syscall, queues, bad, logging,
                 report, history, left>>
-----------------------------------------------------------------------------
(***************************************************************************)
(* The child: the plugin's code, and what it calls back                    *)
(***************************************************************************)
InPlugin == kid \in {"plugin", "chunk"} /\ ~logging
Acts == InPlugin /\ left > 0 /\ left' = left - 1

(* an interposed function: _mask *)
CallFunction ==
  /\ Acts
  /\ \E f \in Functions :
       /\ mask' = IF enabled THEN mask \cup {f} ELSE mask
       /\ hit' = IF pc \in Realtime THEN hit \cup {<<Test(pc), f>>} ELSE hit
  /\ UNCHANGED <<pc, mainVars, instance, results, enabled, queues, kid, bad,
                 logging, report, fell, unwell, quit, lost, foreign, spilled>>

(* a system call: _trace_parent sees it in the traced callbacks *)
SystemCall ==
  /\ Acts
  /\ syscall' = (syscall \/ (pc \in Realtime /\ enabled))
  /\ UNCHANGED <<pc, mainVars, instance, status, forbidden, shmVars, queues, kid,
                 bad, logging, report, history>>

(* log_vprintf of a Trace message pauses the watch and resumes it after    *)
(* the message, whether or not it was on before.                           *)
LogBegin ==
  /\ Acts
  /\ logging' = TRUE /\ enabled' = FALSE
  /\ UNCHANGED <<pc, mainVars, instance, results, mask, queues, kid, bad, report,
                 history>>

LogEnd ==
  /\ logging
  /\ kid \in {"plugin", "chunk"}
  /\ logging' = FALSE /\ enabled' = TRUE
  /\ UNCHANGED <<pc, mainVars, instance, results, mask, queues, kid, bad, report,
                 history, left>>

(* _sched and _respond: a full queue refuses the chunk.  Work may be       *)
(* scheduled from everywhere; _respond is handed to the work function only.*)
ScheduleAnyway ==             \* variant: nothing is refused
  /\ Acts
  /\ to_worker' = Append(to_worker, n)
  /\ spilled' = IF pc \in {"work_response_2", "deactivate", "cleanup"}
                THEN spilled \cup {n} ELSE spilled
  /\ UNCHANGED <<pc, mainVars, instance, results, shmVars, from_worker, kid, bad,
                 logging, report, fell, unwell, quit, hit, lost, foreign>>
Schedule ==
  /\ Acts
  /\ to_worker' = IF Len(to_worker) < QueueCap THEN Append(to_worker, n) ELSE to_worker
  /\ spilled' = IF pc \in {"work_response_2", "deactivate", "cleanup"}
                THEN spilled \cup {n} ELSE spilled
  /\ UNCHANGED <<pc, mainVars, instance, results, shmVars, from_worker, kid, bad,
                 logging, report, fell, unwell, quit, hit, lost, foreign>>

Respond ==
  /\ Acts
  /\ kid = "chunk" /\ Working
  /\ from_worker' = IF Len(from_worker) < QueueCap THEN Append(from_worker, n)
                    ELSE from_worker
  /\ UNCHANGED <<pc, mainVars, instance, results, shmVars, to_worker, kid, bad,
                 logging, report, history>>

(* the callback returns: an instance or none, and for the three worker     *)
(* functions a status that may be an error                                 *)
Return ==
  /\ InPlugin
  /\ instance' \in IF pc = "instantiate" THEN BOOLEAN ELSE {instance}
  /\ kid' = IF kid = "chunk" THEN "advance"
            ELSE IF pc \in Realtime THEN "store" ELSE Outcome
  /\ UNCHANGED <<pc, mainVars, results, shmVars, queues, bad, logging, report,
                 history, left>>

ReturnError ==
  /\ Acts
  /\ Working \/ Responding
  /\ bad' = TRUE
  /\ kid' = IF kid = "chunk" THEN "advance" ELSE "store"
  /\ UNCHANGED <<pc, mainVars, instance, results, shmVars, queues, logging, report,
                 history>>

(* A signal, or exit with another status than 0, ends the child inside the *)
(* plugin's code; everything it has stored in the shared memory stays as   *)
(* it is.                                                                  *)
Crash ==
  /\ kid \in {"plugin", "chunk"} /\ left > 0
  /\ left' = left - 1
  /\ kid' = "killed"
  /\ fell' = fell \cup {pc}
  /\ UNCHANGED <<pc, mainVars, instance, results, shmVars, queues, bad, logging,
                 report, unwell, quit, hit, lost, foreign, spilled>>

(* The plugin's code leaves by exit(0) or _exit(0): main takes the callback *)
(* for a success, although what comes after it in the child never happens. *)
(* (What exit runs of atexit handlers, in lv2lint's memory, is left out.)  *)
Quit ==
  /\ InPlugin /\ left > 0
  /\ left' = left - 1
  /\ kid' = "exited"
  /\ quit' = quit \cup {pc}
  /\ lost' = IF pc \in Realtime THEN lost \cup {<<Test(pc), f>> : f \in mask} ELSE lost
  /\ UNCHANGED <<pc, mainVars, instance, results, shmVars, queues, bad, logging,
                 report, fell, unwell, hit, foreign, spilled>>

Child == \/ Start
         \/ NextChunk
         \/ QueueEmpty
         \/ Advance
         \/ Store
         \/ CallFunction
         \/ SystemCall
         \/ LogBegin
         \/ LogEnd
         \/ Schedule
         \/ Respond
         \/ Return
         \/ ReturnError
         \/ Crash
         \/ Quit

Next == Main \/ Child

Spec == Init /\ [][Next]_vars

(* main and the child keep running, and a plugin's callbacks return or     *)
(* crash: the linter has no timeout for one that does not.                 *)
FairSpec == Spec /\ WF_vars(Next)
-----------------------------------------------------------------------------
TypeOK ==
  /\ pc \in Calls \cup {"pick", "prepare", "test", "exit"}
  /\ n \in 0 .. NPlugins /\ ret \in 0 .. n
  /\ instance \in BOOLEAN /\ restores \in BOOLEAN
  /\ iface \in Ifaces \cup {{}} /\ ports \in 0 .. NPorts
  /\ status \in [{Test(call) : call \in Calls} -> BOOLEAN]
  /\ forbidden \in [Sections -> SUBSET Functions] /\ syscall \in BOOLEAN
  /\ enabled \in BOOLEAN /\ mask \subseteq Functions
  /\ \A q \in {to_worker, from_worker} : q \in Seq(1 .. n) /\ Len(q) <= QueueCap
  /\ kid \in {"none", "start", "plugin", "chunk", "loop", "advance", "store",
              "exited", "failed", "killed"}
  /\ bad \in BOOLEAN /\ logging \in BOOLEAN
  /\ crashed \subseteq Tested /\ nonrt \in [Sections -> SUBSET Functions]
  /\ fell \subseteq Calls /\ unwell \subseteq Calls /\ quit \subseteq Calls
  /\ hit \subseteq Sections \X Functions /\ lost \subseteq Sections \X Functions
  /\ foreign \subseteq 1 .. n /\ spilled \subseteq 1 .. n
  /\ left \in 0 .. Budget

Reported == pc \in {"cleanup", "pick", "exit"}

(* A child killed in any callback that has a test is reported as a crash   *)
(* of its plugin, in whichever of several passes or ports it happened.     *)
CrashReported ==
  Reported => {Test(call) : call \in fell} \cap Tested \subseteq crashed

(* Whatever connect_port and run call of the non-realtime functions is     *)
(* reported, on any of the ports, unless the callback is reported as a     *)
(* crash or the child that made the call has left by exit(0), which counts *)
(* as success: the watch is on, and its result kept.                       *)
NonRtReportedIn(s) ==
  Reported => \A h \in hit : h[1] = s => s \in crashed \/ h[2] \in nonrt[s] \/ h \in lost
NonRtReported == NonRtReportedIn("connect_port") /\ NonRtReportedIn("run")

(* The functions a plugin is reported for are those that it called in that *)
(* section itself: not in work, not an earlier plugin's, not lv2lint's own,*)
(* although the mask is left on by crashes and by Trace messages.  Only if *)
(* each of its calls of run, or of work_response, has left by exit(0) is   *)
(* it taken for the plugin before it.                                      *)
Deserted(s) == s # "connect_port" /\ {c \in Calls : Test(c) = s} \subseteq quit
NonRtVerdictIsOwn ==
  \A s \in Sections : \A f \in nonrt[s] : <<s, f>> \in hit \/ Deserted(s)

(* The queues are never emptied between plugins.  Still, a plugin's work   *)
(* goes to another plugin only if its last worker pass was killed or left  *)
(* by exit(0), if it was scheduled after that pass, or by a plugin that    *)
(* never came to life.                                                     *)
WorkIsOwn == foreign \subseteq spilled

-----------------------------------------------------------------------------
(* What the invariants above rest on.  A plugin goes through its stages in *)
(* order, and with an instance from the second to the tests and in the     *)
(* last.                                                                   *)
Stage(c) == CASE c = "instantiate" -> 1 [] c = "restore" -> 2 [] c = "prepare" -> 3
              [] c = "connect_port" -> 4 [] c = "activate" -> 5 [] c = "work" -> 6
              [] c = "work_response" -> 7 [] c = "run" -> 8 [] c = "work_2" -> 9
              [] c = "work_response_2" -> 10 [] c = "deactivate" -> 11
              [] c = "test" -> 12 [] c = "cleanup" -> 13 [] OTHER -> 14
Over(c) == Stage(c) < Stage(pc) /\ Stage(pc) <= 12 /\ instance
Ended == kid \in {"exited", "failed"}

Turns ==
  /\ kid # "none" => pc \in Calls
  /\ kid = "plugin" => ~Working
  /\ kid \in {"loop", "chunk", "advance"} => Working \/ Responding
  /\ kid \in {"chunk", "advance"} => Queue # <<>>
  /\ kid = "store" => pc \in Realtime
  /\ kid \notin {"plugin", "chunk", "killed"} => ~logging
  /\ pc = "connect_port" => ports > 0
  /\ Stage(pc) \in (2..11) \cup {13} => instance
  /\ Stage(pc) <= 12 => n > ret
  /\ pc \in Calls => n > 0

(* A call in which a child was killed is over, and its result says so, or  *)
(* will when the child is reaped.                                          *)
Falls ==
  /\ \A c \in fell : \/ Stage(c) < Stage(pc)
                     \/ c = pc /\ (kid = "killed" \/ pc = "connect_port")
  /\ Stage(pc) <= 12 =>
       \A c \in fell : Test(c) \in Tested => status[Test(c)] \/ (c = pc /\ kid = "killed")

(* In a realtime section the watch is on but for messages, and the mask is *)
(* the plugin's own.                                                       *)
InSection == pc \in Realtime /\ kid \in {"plugin", "chunk", "loop", "advance", "store"}
Watched ==
  InSection => /\ enabled \/ logging
               /\ \A f \in mask : <<Test(pc), f>> \in hit

(* Unless it is a crash or the child has left by exit(0), a result holds   *)
(* nothing but the plugin's own calls once the section is over ...         *)
OwnCalls(s) == \A f \in forbidden[s] : <<s, f>> \in hit
ResultsAreOwn ==
  /\ Over("prepare") => OwnCalls("connect_port")
  /\ (Over("run") /\ ~status["run"]) \/ (pc = "run" /\ Ended)
     => OwnCalls("run") \/ "run" \in quit
  /\ \/ Over("work_response") /\ ~status["work_response"]
     \/ pc = "work_response" /\ Ended
     => OwnCalls("work_response") \/ "work_response" \in quit
  /\ Over("work_response_2") \/ (pc = "work_response_2" /\ Ended)
     => \/ status["work_response"]
        \/ OwnCalls("work_response")
        \/ {"work_response", "work_response_2"} \subseteq quit

(* ... and all of them but the lost ones, for the two sections whose result *)
(* is not replaced.                                                        *)
ResultsAreWhole ==
  \A h \in hit \ lost :
    /\ Stage(pc) >= 4 /\ (Stage(pc) <= 12 => instance)
    /\ h[1] = "connect_port" /\ Stage(pc) <= 12 =>
         \/ status["connect_port"]
         \/ h[2] \in forbidden["connect_port"]
         \/ pc = "connect_port" /\ (kid = "killed" \/ (InSection /\ h[2] \in mask))
    /\ h[1] = "run" => Stage(pc) >= 8
    /\ h[1] = "run" /\ Over("run") => status["run"] \/ h[2] \in forbidden["run"]
    /\ h[1] = "run" /\ pc = "run" =>
         \/ kid = "killed"
         \/ Ended /\ h[2] \in forbidden["run"]
         \/ InSection /\ h[2] \in mask

(* The chunks of earlier plugins that are still queued have spilled, and   *)
(* the plugin's own are gone when its last worker passes have ended well.  *)
Has(q, p) == \E i \in 1 .. Len(q) : q[i] = p
Spills ==
  /\ \A q \in {to_worker, from_worker} : \A i \in 1 .. Len(q) :
       q[i] = n \/ q[i] \in spilled
  /\ n \notin spilled =>
       /\ \/ Over("work_2") \/ Stage(pc) >= 13
          \/ pc = "work_2" /\ Ended /\ pc \notin quit
          => ~Has(to_worker, n)
       /\ \/ Over("work_response_2") \/ Stage(pc) >= 13
          \/ pc = "work_response_2" /\ Ended /\ pc \notin quit
          \/ pc = "work_response_2" /\ kid \in {"plugin", "store"}
          => ~Has(from_worker, n)

(* the inductive invariant *)
IInv == /\ TypeOK
        /\ Turns
        /\ Falls
        /\ CrashReported
        /\ Watched
        /\ ResultsAreOwn
        /\ ResultsAreWhole
        /\ NonRtReported
        /\ NonRtVerdictIsOwn
        /\ Spills
        /\ WorkIsOwn

(* The session comes to its end, whichever callbacks crash: no chunk makes *)
(* a worker loop go round for ever, and no killed child is waited for.     *)
SessionEnds == <>(pc = "exit")

(* What the code does not keep: the non-realtime calls of the first        *)
(* work_response are reported as well ...                                  *)
ResponseReported == NonRtReportedIn("work_response")

(* ... and "crashed" is said of a plugin whose own callback did not end    *)
(* well.                                                                   *)
CrashVerdictIsOwn ==
  Reported => crashed \subseteq {Test(call) : call \in unwell}
=============================================================================
