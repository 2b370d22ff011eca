----------------------------- MODULE MCLintSession ----------------------------
(***************************************************************************)
(* Sessions of one or two plugins, with a complete worker interface, one   *)
(* that lacks work_response and end_run, or none.                          *)
(***************************************************************************)
EXTENDS LintSession

Full == {"work", "work_response", "end_run"}
MCIfaces == {Full, {"work"}, {}}
OnlyFull == {Full}
=============================================================================
