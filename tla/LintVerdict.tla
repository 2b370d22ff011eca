----------------------------- MODULE LintVerdict ------------------------------
(***************************************************************************)
(* How findings become a verdict: the options that choose which levels are *)
(* shown and which are errors, the whitelist, and the loops of test_plugin,*)
(* test_port, test_parameter and test_ui that run their tests, report the  *)
(* results and combine their flags.  What a single test finds is an input. *)
(***************************************************************************)
EXTENDS Integers, Sequences, FiniteSets

CONSTANTS Tests,       \* how many tests a group has: their ids are 1 .. Tests
          Groups,      \* the groups of one plugin, as the URI each is checked
                       \*   under: its own for itself, its ports, its parameters
          UiUris,      \* the URIs among them that are UIs
          Any,         \* the pattern that matches everything, or no pattern
          Findings,    \* what a test may find: [lnt, pck], pck "none" mostly
          MaxWhite,    \* bound: whitelist entries on the command line
          MaxOptions   \* bound: other options on the command line

Levels == {"note", "warn", "fail"}

ASSUME VerdictAssumption ==
  /\ Tests \in Nat \ {0} /\ MaxWhite \in Nat /\ MaxOptions \in Nat
  /\ Groups \in Seq(STRING) /\ Groups # <<>> /\ UiUris \subseteq STRING
  /\ Findings \subseteq [lnt : Levels, pck : Levels \cup {"none"}]
  /\ Any \notin STRING \cup Nat

VARIABLES
  phase,         \* options, tests, report, done
  show, mask,    \* app.show, app.mask
  pck,           \* app.pck
  prefix,        \* the URI pattern of the last -u
  white,         \* app.whitelist_tests: <<URI pattern, test pattern>>
  g,             \* the group being tested
  rets,          \* its results so far: [finds, white]
  msg,           \* one of them is at a level that is shown
  at,            \* results of the group reported so far
  flag,          \* the group is still good
  good,          \* test_plugin's own flag: no group was bad
  noptions,      \* options so far
  hidden,        \* history: an option took a level out of app.show by itself
  culprit,       \* history: a result at an error level, not whitelisted
  failed,        \* history: a result of level "fail", not whitelisted
  named          \* history: a result at an error level was printed as such

optionVars == <<show, mask, pck, prefix, white, noptions, hidden>>
groupVars == <<g, rets, msg, at, flag, good>>
history == <<culprit, failed, named>>
vars == <<phase, optionVars, groupVars, history>>
-----------------------------------------------------------------------------
NoFinding == [lnt |-> "none", pck |-> "none"]

(* lv2lint_extract *)
Extract(finding) ==
  IF pck /\ finding.pck # "none" THEN finding.pck ELSE finding.lnt

(* _white_match *)
Matches(pattern, x) == pattern = Any \/ pattern = x
TestMatches(uri, id) == \E w \in white : Matches(w[2], id)    \* variant
IsWhitelisted(uri, id) ==
  \E w \in white : Matches(w[1], uri) /\ Matches(w[2], id)

Init ==
  /\ phase = "options"
  /\ show = {"fail", "warn"} /\ mask = {"fail"} /\ pck = TRUE
  /\ prefix = Any /\ white = {}
  /\ g = 1 /\ rets = <<>> /\ msg = FALSE /\ at = 0
  /\ flag = TRUE /\ good = TRUE
  /\ noptions = 0 /\ hidden = FALSE
  /\ culprit = FALSE /\ failed = FALSE /\ named = FALSE
-----------------------------------------------------------------------------
(***************************************************************************)
(* The options, in any order and number                                    *)
(***************************************************************************)
Option ==
  /\ phase = "options" /\ noptions < MaxOptions
  /\ noptions' = noptions + 1
  /\ UNCHANGED <<phase, groupVars, history>>

(* -S warn, note, pass, all and -E warn, note, all *)
Shown == {{"warn"}, {"note"}, {"pass"}, {"warn", "note", "pass"}}
Errors == {{"warn"}, {"note"}, {"warn", "note"}}

OptionShow ==
  /\ Option
  /\ \E levels \in Shown : show' = show \cup levels
  /\ UNCHANGED <<mask, pck, prefix, white, hidden>>

OptionShowNo ==
  /\ Option
  /\ \E levels \in Shown : show' = show \ levels
  /\ hidden' = TRUE
  /\ UNCHANGED <<mask, pck, prefix, white>>

OptionErrorMaskOnly ==        \* variant: what is an error is not also shown
  /\ Option
  /\ \E levels \in Errors : mask' = mask \cup levels
  /\ UNCHANGED <<show, pck, prefix, white, hidden>>
OptionError ==
  /\ Option
  /\ \E levels \in Errors : show' = show \cup levels /\ mask' = mask \cup levels
  /\ UNCHANGED <<pck, prefix, white, hidden>>

OptionErrorNoAll ==           \* variant: noall means every level
  /\ Option
  /\ \E levels \in Errors \cup {Levels} : show' = show \ levels /\ mask' = mask \ levels
  /\ UNCHANGED <<pck, prefix, white, hidden>>
OptionErrorNo ==
  /\ Option
  /\ \E levels \in Errors : show' = show \ levels /\ mask' = mask \ levels
  /\ UNCHANGED <<pck, prefix, white, hidden>>

OptionMode ==
  /\ Option
  /\ pck' \in BOOLEAN
  /\ UNCHANGED <<show, mask, prefix, white, hidden>>

(* -u only takes effect in the -t options after it *)
OptionUri ==
  /\ phase = "options"
  /\ prefix' \in {Groups[i] : i \in DOMAIN Groups}
  /\ UNCHANGED <<phase, show, mask, pck, white, noptions, hidden, groupVars, history>>

OptionTest ==
  /\ phase = "options" /\ Cardinality(white) < MaxWhite
  /\ \E id \in 1 .. Tests : white' = white \cup {<<prefix, id>>}
  /\ UNCHANGED <<phase, show, mask, pck, prefix, noptions, hidden, groupVars, history>>

Lint ==
  /\ phase = "options"
  /\ phase' = "tests"
  /\ UNCHANGED <<optionVars, groupVars, history>>
-----------------------------------------------------------------------------
(***************************************************************************)
(* A group of tests                                                        *)
(***************************************************************************)
NextGroupPastEnd(ok) ==       \* variant: one group too many
  /\ good' = (good /\ ok)
  /\ rets' = <<>> /\ msg' = FALSE /\ at' = 0 /\ flag' = TRUE
  /\ IF g <= Len(Groups) THEN g' = g + 1 /\ phase' = "tests"
     ELSE g' = g /\ phase' = "done"
NextGroup(ok) ==
  /\ good' = (good /\ ok)
  /\ rets' = <<>> /\ msg' = FALSE /\ at' = 0 /\ flag' = TRUE
  /\ IF g < Len(Groups) THEN g' = g + 1 /\ phase' = "tests"
     ELSE g' = g /\ phase' = "done"

RunTest ==
  /\ phase = "tests" /\ Len(rets) < Tests
  /\ \E finds \in Findings \cup {NoFinding} :
       LET excused == IsWhitelisted(Groups[g], Len(rets) + 1)
           lnt == Extract(finds)
       IN /\ rets' = Append(rets, [finds |-> finds, white |-> excused])
          /\ msg' = (msg \/ lnt \in show)
          /\ culprit' = (culprit \/ (lnt \in mask /\ ~excused))
          /\ failed' = (failed \/ (lnt = "fail" /\ ~excused))
  /\ UNCHANGED <<phase, optionVars, g, at, flag, good, named>>

(* The results are looked at again only if there is something to print,    *)
(* and it is here that they count.                                         *)
Summarise ==
  /\ phase = "tests" /\ Len(rets) = Tests
  /\ IF msg \/ "pass" \in show
     THEN phase' = "report" /\ UNCHANGED groupVars
     ELSE NextGroup(flag)
  /\ UNCHANGED <<optionVars, history>>

(* A UI whose library, discovery function or descriptor is missing is left *)
(* with a message on stderr and a flag that is still true.                 *)
UiMissing ==
  /\ phase = "tests" /\ rets = <<>>
  /\ Groups[g] \in UiUris
  /\ NextGroup(flag)
  /\ UNCHANGED <<optionVars, history>>

(* lv2lint_report *)
ReportLast ==                 \* variant: the last result decides
  /\ phase = "report" /\ at < Tests
  /\ LET res == rets[at + 1]
         lnt == Extract(res.finds)
         counts == res.finds # NoFinding /\ ~res.white
     IN /\ flag' = IF counts THEN lnt \notin mask ELSE flag
        /\ named' = (named \/ (counts /\ lnt \in show \cap mask))
  /\ at' = at + 1
  /\ UNCHANGED <<phase, optionVars, g, rets, msg, good, culprit, failed>>
ReportSkips ==                \* variant: a whitelisted result counts as well
  /\ phase = "report" /\ at < Tests
  /\ LET res == rets[at + 1]
         lnt == Extract(res.finds)
     IN /\ flag' = IF res.finds # NoFinding /\ flag THEN lnt \notin mask ELSE flag
        /\ named' = (named \/ (~res.white /\ lnt \in show \cap mask))
  /\ at' = at + 1
  /\ UNCHANGED <<phase, optionVars, g, rets, msg, good, culprit, failed>>
Report ==
  /\ phase = "report" /\ at < Tests
  /\ LET res == rets[at + 1]
         lnt == Extract(res.finds)
         counts == res.finds # NoFinding /\ ~res.white
     IN /\ flag' = IF counts /\ flag THEN lnt \notin mask ELSE flag
        /\ named' = (named \/ (counts /\ lnt \in show \cap mask))
  /\ at' = at + 1
  /\ UNCHANGED <<phase, optionVars, g, rets, msg, good, culprit, failed>>

GroupDone ==
  /\ phase = "report" /\ at = Tests
  /\ NextGroup(flag)
  /\ UNCHANGED <<optionVars, history>>

Next ==
  \/ OptionShow
  \/ OptionShowNo
  \/ OptionError
  \/ OptionErrorNo
  \/ OptionMode
  \/ OptionUri
  \/ OptionTest
  \/ Lint
  \/ RunTest
  \/ Summarise
  \/ UiMissing
  \/ Report
  \/ GroupDone

Spec == Init /\ [][Next]_vars
-----------------------------------------------------------------------------
Lints == Levels \cup {"pass"}
TypeOK ==
  /\ phase \in {"options", "tests", "report", "done"}
  /\ show \subseteq Lints /\ mask \subseteq Levels /\ pck \in BOOLEAN
  /\ prefix \in {Groups[i] : i \in DOMAIN Groups} \cup {Any}
  /\ white \subseteq ({Groups[i] : i \in DOMAIN Groups} \cup {Any}) \X (1 .. Tests)
  /\ g \in 1 .. Len(Groups) /\ at \in 0 .. Len(rets) /\ Len(rets) <= Tests
  /\ rets \in Seq([finds : Findings \cup {NoFinding}, white : BOOLEAN])
  /\ msg \in BOOLEAN /\ flag \in BOOLEAN /\ good \in BOOLEAN
  /\ noptions \in 0 .. MaxOptions /\ hidden \in BOOLEAN
  /\ culprit \in BOOLEAN /\ failed \in BOOLEAN /\ named \in BOOLEAN

(* "always fail at failed tests": whatever the options, a result of level  *)
(* fail that is not whitelisted fails the plugin.                          *)
FailAlwaysCounts == phase = "done" /\ failed => ~good

(* A plugin fails only for a result at an error level that no whitelist    *)
(* entry for that very URI and test excuses; no sequence of -u, -t, -S and *)
(* -E options makes a shown or excused result count.                       *)
OnlyErrorsCount == phase = "done" /\ ~good => culprit

(* As long as no -S option hides a level, what is an error is shown: the   *)
(* verdict is then exact, and a plugin that fails has been told why.       *)
ExactUnlessHidden ==
  phase = "done" /\ ~hidden => /\ good <=> ~culprit
                               /\ ~good => named

(* "-E: ... also treat warnings (warn), notes (note) or all (all) as       *)
(* errors", whatever -S says of showing them.                              *)
ErrorLevelsCount == phase = "done" /\ culprit => ~good
-----------------------------------------------------------------------------
(***************************************************************************)
(* Why it holds.  A result of the group at hand is at an error level:      *)
(***************************************************************************)
Offends(res) == ~res.white /\ Extract(res.finds) \in mask
Fails(res) == ~res.white /\ Extract(res.finds) = "fail"
Bad == ~good \/ ~flag

(* no option takes "fail" out of either set, and only -S can part the two  *)
Options ==
  /\ "fail" \in show /\ "fail" \in mask
  /\ ~hidden => mask \subseteq show

(* where a group stands in its phases *)
Progress ==
  /\ phase # "report" => flag /\ at = 0
  /\ phase \in {"options", "done"} => rets = <<>>
  /\ phase = "options" => good /\ ~culprit /\ ~failed
  /\ phase = "report" => Len(rets) = Tests

(* a result at a shown level is one to look at again *)
Noticed == \A i \in DOMAIN rets : Extract(rets[i].finds) \in show => msg

(* what counts is an error that was found, and one that is shown is named  *)
Blamed ==
  /\ \A i \in DOMAIN rets : Offends(rets[i]) => culprit
  /\ Bad => culprit
  /\ ~hidden /\ Bad => named

(* what was found has counted or is still to be reported *)
Kept ==
  /\ failed => Bad \/ \E i \in at + 1 .. Len(rets) : Fails(rets[i])
  /\ ~hidden /\ culprit => Bad \/ \E i \in at + 1 .. Len(rets) : Offends(rets[i])

(* The inductive invariant of LintVerdict: what the three verdict          *)
(* properties rest on, in the middle of every group.                       *)
IInv ==
  /\ TypeOK
  /\ Options
  /\ Progress
  /\ Noticed
  /\ Blamed
  /\ Kept
=============================================================================
