------------------------------ MODULE LintTrace -------------------------------
(***************************************************************************)
(* A traced callback (_trace), stop by stop.  connect_port, run and        *)
(* work_response are called in a child that lets itself be traced; lv2lint *)
(* waits in _trace_parent, and in each stop of the child _show_info looks  *)
(* whether the watch in shared memory is on and which system call begins   *)
(* or has ended.  The call that began is kept in a static variable, which  *)
(* outlives the child.                                                     *)
(*                                                                         *)
(* The kernel's part is modelled as far as the code relies on it: a child  *)
(* stops when a system call begins, when it ends, and before a signal is   *)
(* delivered; a call that ends it has no end to stop at.  Only the first   *)
(* thread of the child is traced.  A plugin may start a second one (a      *)
(* helper) inside a callback.  What clone was given to run ends only its   *)
(* own thread when it returns, so lv2lint waits for the helper to end too; *)
(* exit and a fatal signal end both.                                       *)
(***************************************************************************)
EXTENDS Integers, Sequences

CONSTANTS
  Tables,       \* syscall_ids of each machine
  Numbers,      \* the numbers a plugin calls the kernel with
  Exit,         \* the place of exit_group in the tables
  NoCall,       \* not a number: the child is in no system call
  Kids,         \* bound on the callbacks made, by machine
  Budget        \* bound on what plugins do that is worth noting, by machine

Machines == DOMAIN Tables
Calls(m) == DOMAIN Tables[m]
NONE == 0       \* SYSCALL_NONE; a call is its place in the table, from 1

ASSUME TraceAssumption ==
  /\ \A m \in Machines : /\ Tables[m] \in Seq(Int)
                         /\ Exit[m] \in Calls(m)
                         /\ Numbers[m] \subseteq Int
                         /\ Budget[m] \in Nat /\ Kids[m] \in Nat
  /\ NoCall \notin Int

VARIABLES
  machine,      \* the table that was linked
  call,         \* the static variable of _show_info
  syscall,      \* app->syscall: the calls that were seen
  enabled,      \* the watch, in shared memory
  at,           \* where the first thread of the child is
  nr,           \* the number of the system call it is in
  stop,         \* the stop lv2lint is to handle
  code,         \* what the child exits with
  logging,      \* whether it is in log_vprintf with a Trace message
  helper,       \* the second thread
  result,       \* what _trace returned last
  made,         \* history: the calls made under an undisturbed watch
  fell,         \* history: this child failed: a fault, a kill, or status 1
  quit,         \* history: the plugin has ended this child by itself
  disturbed,    \* history: this child has had a helper
  kids, left    \* the bounds

kidVars == <<at, nr, stop, code, logging, helper>>
shmVars == <<enabled>>
appVars == <<call, syscall, result>>
history == <<made, fell, quit, disturbed>>
bounds == <<kids, left>>
vars == <<machine, kidVars, shmVars, appVars, history, bounds>>

-----------------------------------------------------------------------------
(* syscall_from_id: the first place with this number, whether it is the    *)
(* number of a call or the -1 of a call that there is not                  *)
Least(set) == CHOOSE c \in set : \A d \in set : c <= d
syscall_from_id_next(m, id) ==  \* variant: one place too far
  LET found == {c \in Calls(m) : Tables[m][c] = id}
  IN IF found = {} THEN NONE ELSE Least(found) + 1
syscall_from_id(m, id) ==
  LET found == {c \in Calls(m) : Tables[m][c] = id}
  IN IF found = {} THEN NONE ELSE Least(found)

Init ==
  /\ machine \in Machines
  /\ call = NONE /\ syscall = {} /\ result = "none"
  /\ enabled = FALSE
  /\ at = "none" /\ nr = NoCall /\ stop = "none" /\ code = 0
  /\ logging = FALSE /\ helper = "none"
  /\ made = {} /\ fell = FALSE /\ quit = FALSE /\ disturbed = FALSE
  /\ kids = 0 /\ left = Budget[machine]

Acts == left > 0 /\ left' = left - 1
Running == stop = "none"
InPlugin == at = "plugin" /\ Running /\ nr = NoCall
-----------------------------------------------------------------------------
(* main: the callbacks of one plugin, then of the next, for which          *)
(* app->syscall is cleared                                                 *)
NextPlugin ==
  /\ at = "none"
  /\ syscall # {} \/ made # {}
  /\ syscall' = {} /\ made' = {}
  /\ UNCHANGED <<machine, call, result, kidVars, shmVars, fell, quit, disturbed, bounds>>

Clone ==
  /\ at = "none" /\ kids < Kids[machine]
  /\ kids' = kids + 1
  /\ at' = "attach" /\ code' = 0
  /\ result' = "none" /\ fell' = FALSE /\ quit' = FALSE /\ disturbed' = FALSE
  /\ UNCHANGED <<machine, call, syscall, shmVars, nr, stop, logging, helper, made, left>>

(* _trace_child: PTRACE_TRACEME, and a SIGSTOP to itself *)
Attach ==
  /\ at = "attach"
  /\ at' = "ready" /\ stop' = "sigstop"
  /\ UNCHANGED <<machine, appVars, shmVars, nr, code, logging, helper, history, bounds>>

AttachFails ==
  /\ at = "attach" /\ Acts
  /\ at' = "dead" /\ code' = 1 /\ fell' = TRUE
  /\ UNCHANGED <<machine, appVars, shmVars, nr, stop, logging, helper, made, quit,
                 disturbed, kids>>
-----------------------------------------------------------------------------
(* _show_info, for what PTRACE_GET_SYSCALL_INFO says of the stop *)
ShowInfoKeeps(op) ==          \* variant: an unknown call leaves the last one
  IF ~enabled THEN UNCHANGED <<call, syscall>>
  ELSE CASE op = "entry" -> /\ LET begun == syscall_from_id(machine, nr)
                               IN call' = IF begun # NONE THEN begun ELSE call
                            /\ UNCHANGED syscall
         [] op = "exit"  -> /\ syscall' = IF call # NONE THEN syscall \cup {call} ELSE syscall
                            /\ UNCHANGED call
         [] op = "none"  -> call' = NONE /\ UNCHANGED syscall
ShowInfo(op) ==
  IF ~enabled THEN UNCHANGED <<call, syscall>>
  ELSE CASE op = "entry" -> call' = syscall_from_id(machine, nr) /\ UNCHANGED syscall
         [] op = "exit"  -> /\ syscall' = IF call # NONE THEN syscall \cup {call} ELSE syscall
                            /\ UNCHANGED call
         [] op = "none"  -> call' = NONE /\ UNCHANGED syscall

(* _trace_parent, for each stop it expects, and PTRACE_SYSCALL *)
OnSigstopWaits ==             \* variant: no PTRACE_SYSCALL after the first stop
  /\ stop = "sigstop"
  /\ ShowInfo("none")
  /\ UNCHANGED <<machine, result, shmVars, at, nr, stop, code, logging, helper, history,
                 bounds>>
OnSigstop ==
  /\ stop = "sigstop"
  /\ ShowInfo("none")
  /\ stop' = "none"
  /\ UNCHANGED <<machine, result, shmVars, at, nr, code, logging, helper, history, bounds>>

OnEntry ==
  /\ stop = "entry"
  /\ ShowInfo("entry")
  /\ stop' = "none"
  /\ UNCHANGED <<machine, result, shmVars, at, nr, code, logging, helper, history, bounds>>

OnExit ==
  /\ stop = "exit"
  /\ ShowInfo("exit")
  /\ stop' = "none" /\ nr' = NoCall
  /\ made' = IF at = "plugin" /\ ~logging /\ ~disturbed THEN made \cup {nr} ELSE made
  /\ UNCHANGED <<machine, result, shmVars, at, code, logging, helper, fell, quit,
                 disturbed, bounds>>

(* any other signal: the child is killed, and the loop goes on *)
OnSignal ==
  /\ stop = "signal"
  /\ stop' = "none" /\ at' = "killed"
  /\ logging' = FALSE /\ helper' = "none"
  /\ UNCHANGED <<machine, appVars, shmVars, nr, code, history, bounds>>

(* A ptrace request fails, since the child has been killed in its stop or  *)
(* the kernel has no such request: _trace_parent returns 1 at once.        *)
GiveUp ==
  /\ stop \in {"sigstop", "entry", "exit"} /\ Acts
  /\ result' = "failed" /\ fell' = TRUE
  /\ at' = "none" /\ nr' = NoCall /\ stop' = "none"
  /\ logging' = FALSE /\ helper' = "none"
  /\ UNCHANGED <<machine, call, syscall, shmVars, code, made, quit, disturbed, kids>>

(* waitpid says that the kid is no more: _trace_parent returns *)
ReapAnything ==               \* variant: however it ended
  /\ at \in {"dead", "killed"} /\ helper = "none"
  /\ result' = "ok"
  /\ at' = "none" /\ nr' = NoCall
  /\ UNCHANGED <<machine, call, syscall, shmVars, stop, code, logging, helper, history,
                 bounds>>
Reap ==
  /\ at \in {"dead", "killed"} /\ helper = "none"
  /\ result' = IF at = "dead" /\ code = 0 THEN "ok" ELSE "failed"
  /\ at' = "none" /\ nr' = NoCall
  /\ UNCHANGED <<machine, call, syscall, shmVars, stop, code, logging, helper, history,
                 bounds>>

Wait == \/ OnSigstop
        \/ OnEntry
        \/ OnExit
        \/ OnSignal
        \/ Reap

Parent == \/ NextPlugin
          \/ Clone
          \/ Wait
          \/ GiveUp
-----------------------------------------------------------------------------
(* The kernel: the call that the child is in ends, or has ended it *)
CallEnds ==
  /\ Running /\ nr # NoCall /\ at \notin {"exit", "dead", "killed"}
  /\ stop' = "exit"
  /\ UNCHANGED <<machine, appVars, shmVars, at, nr, code, logging, helper, history, bounds>>

Dies ==
  /\ Running /\ nr # NoCall /\ at = "exit"
  /\ at' = "dead" /\ logging' = FALSE
  /\ helper' = IF quit THEN "none" ELSE helper
  /\ UNCHANGED <<machine, appVars, shmVars, nr, stop, code, history, bounds>>

(* a kill from outside *)
Kill ==
  /\ Running /\ at \notin {"none", "dead", "killed"} /\ Acts
  /\ at' = "killed" /\ fell' = TRUE
  /\ logging' = FALSE /\ helper' = "none"
  /\ UNCHANGED <<machine, appVars, shmVars, nr, stop, code, made, quit, disturbed, kids>>

(* a signal: the plugin's own fault, or one from outside that it may even  *)
(* ignore, like SIGWINCH, or SIGSTOP                                       *)
Signal ==
  /\ Running /\ nr = NoCall /\ at \in {"ready", "plugin", "leave"} /\ Acts
  /\ \/ stop' = "sigstop" /\ UNCHANGED fell
     \/ stop' = "signal" /\ UNCHANGED fell
     \/ stop' = "signal" /\ at = "plugin" /\ fell' = TRUE
  /\ UNCHANGED <<machine, appVars, shmVars, at, nr, code, logging, helper, made, quit,
                 disturbed, kids>>
-----------------------------------------------------------------------------
(* The child: _wrap_connect_port and the like, around the plugin's code *)
EnableNot ==                  \* variant: the watch is not switched on
  /\ at = "ready" /\ Running /\ nr = NoCall
  /\ at' = "plugin"
  /\ UNCHANGED <<machine, appVars, shmVars, nr, stop, code, logging, helper, history, bounds>>
Enable ==
  /\ at = "ready" /\ Running /\ nr = NoCall
  /\ enabled' = TRUE
  /\ at' = "plugin"
  /\ UNCHANGED <<machine, appVars, nr, stop, code, logging, helper, history, bounds>>

DisableNot ==                 \* variant: the watch is not switched off
  /\ InPlugin /\ ~logging
  /\ \E c \in {0, 1} : code' = c /\ fell' = (fell \/ c = 1)
  /\ at' = "leave"
  /\ UNCHANGED <<machine, appVars, shmVars, nr, stop, logging, helper, made, quit,
                 disturbed, bounds>>
Disable ==
  /\ InPlugin /\ ~logging
  /\ enabled' = FALSE
  /\ \E c \in {0, 1} : code' = c /\ fell' = (fell \/ c = 1)
  /\ at' = "leave"
  /\ UNCHANGED <<machine, appVars, nr, stop, logging, helper, made, quit, disturbed, bounds>>

(* the function has returned: libc ends the thread *)
Leave ==
  /\ at = "leave" /\ Running /\ nr = NoCall
  /\ at' = "exit" /\ nr' = Tables[machine][Exit[machine]] /\ stop' = "entry"
  /\ UNCHANGED <<machine, appVars, shmVars, code, logging, helper, history, bounds>>

(* the plugin: a system call, exit, a message, a second thread *)
SystemCall ==
  /\ InPlugin /\ Acts
  /\ \E number \in Numbers[machine] : nr' = number
  /\ stop' = "entry"
  /\ UNCHANGED <<machine, appVars, shmVars, at, code, logging, helper, history, kids>>

Quit ==
  /\ InPlugin /\ Acts
  /\ at' = "exit" /\ nr' = Tables[machine][Exit[machine]] /\ stop' = "entry"
  /\ quit' = TRUE
  /\ \E c \in {0, 1} : code' = c /\ fell' = (fell \/ c = 1)
  /\ UNCHANGED <<machine, appVars, shmVars, logging, helper, made, disturbed, kids>>

LogBegin ==
  /\ InPlugin /\ ~logging /\ Acts
  /\ logging' = TRUE /\ enabled' = FALSE
  /\ UNCHANGED <<machine, appVars, at, nr, stop, code, helper, history, kids>>

LogEnd ==
  /\ InPlugin /\ logging
  /\ logging' = FALSE /\ enabled' = TRUE
  /\ UNCHANGED <<machine, appVars, at, nr, stop, code, helper, history, bounds>>

(* the system call the child is in creates the helper *)
StartHelper ==
  /\ at = "plugin" /\ nr # NoCall /\ Running /\ helper = "none" /\ ~logging /\ Acts
  /\ helper' = "runs" /\ disturbed' = TRUE
  /\ UNCHANGED <<machine, appVars, shmVars, at, nr, stop, code, logging, made, fell, quit,
                 kids>>

HelperLogs ==
  /\ helper = "runs" /\ Acts
  /\ helper' = "logs" /\ enabled' = FALSE
  /\ UNCHANGED <<machine, appVars, at, nr, stop, code, logging, history, kids>>

HelperEnds ==
  /\ helper = "runs"
  /\ helper' = "none"
  /\ UNCHANGED <<machine, appVars, shmVars, at, nr, stop, code, logging, history, bounds>>

HelperDone ==
  /\ helper = "logs"
  /\ helper' = "runs" /\ enabled' = TRUE
  /\ UNCHANGED <<machine, appVars, at, nr, stop, code, logging, history, bounds>>

Child == \/ Attach
         \/ AttachFails
         \/ CallEnds
         \/ Dies
         \/ Kill
         \/ Signal
         \/ Enable
         \/ Disable
         \/ Leave
         \/ SystemCall
         \/ Quit
         \/ LogBegin
         \/ LogEnd
         \/ StartHelper
         \/ HelperLogs
         \/ HelperEnds
         \/ HelperDone

Next == Parent \/ Child

Spec == Init /\ [][Next]_vars

(* The kernel schedules both sides, waitpid reports every stop, and a      *)
(* plugin's callback returns: lv2lint has no time limit.  Nothing is       *)
(* assumed of a helper.                                                    *)
FairSpec == Spec /\ WF_vars(Wait)
                 /\ WF_vars(Attach \/ CallEnds \/ Dies \/ Enable \/ LogEnd \/ Leave)
                 /\ WF_vars(Disable)
-----------------------------------------------------------------------------
TypeOK ==
  /\ machine \in Machines
  /\ call \in Calls(machine) \cup {NONE} /\ syscall \subseteq Calls(machine)
  /\ enabled \in BOOLEAN /\ logging \in BOOLEAN
  /\ at \in {"none", "attach", "ready", "plugin", "leave", "exit", "dead", "killed"}
  /\ nr \in Int \cup {NoCall}
  /\ stop \in {"none", "sigstop", "entry", "exit", "signal"}
  /\ code \in {0, 1} /\ helper \in {"none", "runs", "logs"}
  /\ result \in {"none", "ok", "failed"}
  /\ made \subseteq Int
  /\ fell \in BOOLEAN /\ quit \in BOOLEAN /\ disturbed \in BOOLEAN
  /\ kids \in 0..Kids[machine] /\ left \in 0..Budget[machine]

(* Unless a helper has switched the watch off and on, what lv2lint adds to *)
(* its list when a call ends is a name of that very call, made by the      *)
(* plugin: not one that an earlier child, which died in it, had begun.     *)
RecordsWhatEnded ==
  [][ (syscall' \ syscall # {} /\ ~disturbed) =>
        /\ at = "plugin" /\ ~logging
        /\ \A c \in syscall' \ syscall : Tables[machine][c] = nr ]_vars

(* Every call made under the watch that the table has is in the list.      *)
MadeIsRecorded ==
  \A number \in made :
    syscall_from_id(machine, number) # NONE =>
      \E c \in syscall : Tables[machine][c] = number

(* A callback that succeeded has come to its end and has left the watch    *)
(* switched off - or the plugin has called exit(0) in it, which passes for *)
(* success, or a helper has switched the watch on again.                   *)
SuccessIsClean ==
  (at = "none" /\ result = "ok") => ~fell /\ (quit \/ disturbed \/ ~enabled)

(* Where the child is decides what else there may be.                      *)
Places ==
  /\ logging => at \in {"plugin", "exit"}
  /\ nr # NoCall => at \in {"plugin", "exit", "dead", "killed"}
  /\ stop = "sigstop" => nr = NoCall
  /\ stop = "entry" => nr # NoCall
  /\ stop = "exit" => nr # NoCall /\ at = "plugin"
  /\ at \in {"none", "attach", "dead", "killed"} => stop = "none"
  /\ quit => at \in {"exit", "dead", "killed", "none"}
  /\ helper # "none" => disturbed /\ at # "none"

(* The watch is on in the plugin's code but not while it logs, and off     *)
(* when a callback has returned.                                           *)
Watch ==
  /\ (at = "plugin" /\ ~disturbed) => (enabled <=> ~logging)
  /\ (at \in {"leave", "exit", "dead"} /\ code = 0 /\ ~disturbed /\ ~quit) => ~enabled

(* In a watched system call the static variable is its place.              *)
Begun ==
  (at = "plugin" /\ nr # NoCall /\ stop # "entry" /\ ~disturbed /\ ~logging) =>
    call = syscall_from_id(machine, nr)

(* A child that has failed is on its way to an end that says so.           *)
Failure ==
  fell => \/ at \in {"none", "killed"}
          \/ stop = "signal"
          \/ at \in {"leave", "exit", "dead"} /\ code = 1

(* the inductive invariant *)
IInv == /\ TypeOK
        /\ Places
        /\ Watch
        /\ Begun
        /\ Failure
        /\ MadeIsRecorded
        /\ SuccessIsClean

(* Every traced callback returns to main, whatever becomes of the child -  *)
(* unless the plugin has started a thread in it, for which lv2lint waits   *)
(* without end.                                                            *)
TraceReturns == (at # "none") ~> (at = "none" \/ helper # "none")

(* "crashed" is said of a callback that did: it met a fault, was killed,   *)
(* or was not successful.                                                  *)
CrashedMeansCrashed == (at = "none" /\ result = "failed") => fell
=============================================================================
