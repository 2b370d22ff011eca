----------------------------- MODULE MCLintTrace ------------------------------
(* Every number of every table a build can link, called once; and a small   *)
(* table with two names for one number and a call the machine does not      *)
(* have, for longer stories with several children and a helper.             *)
EXTENDS LintTrace, SyscallTables, TLC

Small == <<-1, 1, 60, 2, 62, 2>>
MCTables == ("small" :> Small) @@ syscall_ids

Unknown == 5000000
MCNumbers ==
  ("small" :> {1, 2, -1, Unknown}) @@
  [m \in DOMAIN syscall_ids |-> {syscall_ids[m][c] : c \in 1..SYSCALL_MAX} \cup {Unknown}]
MCExit == ("small" :> 3) @@ [m \in DOMAIN syscall_ids |-> SYSCALL_exit_group]
MCKids == ("small" :> 3) @@ [m \in DOMAIN syscall_ids |-> 1]
MCBudget == ("small" :> 4) @@ [m \in DOMAIN syscall_ids |-> 1]
===============================================================================
