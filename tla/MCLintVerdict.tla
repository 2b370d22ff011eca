----------------------------- MODULE MCLintVerdict ----------------------------
(***************************************************************************)
(* A plugin with one UI, two tests in each; one of the findings is a       *)
(* warning only when not packaging, as those of _test_linking are.         *)
(***************************************************************************)
EXTENDS LintVerdict

Find(lnt, p) == [lnt |-> lnt, pck |-> p]
MCFindings == {Find("note", "none"), Find("warn", "none"), Find("fail", "none"),
               Find("warn", "note")}
MCGroups == <<"plugin", "ui">>
=============================================================================
