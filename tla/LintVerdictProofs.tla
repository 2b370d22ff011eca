-------------------------- MODULE LintVerdictProofs ---------------------------
(***************************************************************************)
(* Theorems about LintVerdict: for every number of tests and groups, every *)
(* whitelist, every sequence of options and whatever the tests find.       *)
(***************************************************************************)
EXTENDS LintVerdict, TLAPS

USE VerdictAssumption

Result == [finds : Findings \cup {NoFinding}, white : BOOLEAN]

(* a test that has found nothing is at no level *)
LEMMA NothingFound == Extract(NoFinding) = "none"
BY DEF Extract, NoFinding

(* before the first option *)
LEMMA InitIInv == Init => IInv
<1> SUFFICES ASSUME Init PROVE IInv
  OBVIOUS
<1>1. TypeOK
  <2>1. 1 \in 1 .. Len(Groups)
    OBVIOUS
  <2>2. /\ show \subseteq Lints /\ mask \subseteq Levels
        /\ phase \in {"options", "tests", "report", "done"}
    BY DEF Init, Lints, Levels
  <2>3. rets = <<>> /\ Len(rets) = 0 /\ rets \in Seq(Result)
    BY DEF Init
  <2>4. prefix \in {Groups[i] : i \in DOMAIN Groups} \cup {Any}
    BY DEF Init
  <2>5. noptions \in 0 .. MaxOptions /\ at \in 0 .. Len(rets) /\ Len(rets) <= Tests
    BY <2>3 DEF Init
  <2> QED
    BY <2>1, <2>2, <2>3, <2>4, <2>5 DEF Init, TypeOK, Result
<1>2. Options /\ Progress
  BY DEF Init, Options, Progress
<1>3. Noticed /\ Blamed /\ Kept
  BY DEF Init, Noticed, Blamed, Kept, Bad
<1> QED
  BY <1>1, <1>2, <1>3 DEF IInv
-----------------------------------------------------------------------------
(***************************************************************************)
(* The options: there are no results yet                                   *)
(***************************************************************************)
(* what an option may do: anything to the sets that keeps Options *)
LEMMA OptionsKeep ==
  ASSUME IInv, phase = "options", UNCHANGED <<groupVars, history>>,
         phase' \in {"options", "tests"}, TypeOK', Options'
  PROVE  IInv'
<1>1. rets = <<>> /\ flag /\ good /\ at = 0 /\ ~culprit /\ ~failed
  BY DEF IInv, Progress
<1>2. rets' = <<>> /\ flag' /\ good' /\ at' = 0 /\ ~culprit' /\ ~failed'
  BY <1>1 DEF groupVars, history
<1>3. Progress'
  BY <1>2 DEF Progress
<1>4. Noticed' /\ Blamed' /\ Kept'
  BY <1>2 DEF Noticed, Blamed, Kept, Bad
<1> QED
  BY <1>3, <1>4 DEF IInv

(* what -S names never includes fail *)
LEMMA ShownLevels ==
  ASSUME NEW levels \in Shown
  PROVE  levels \subseteq Lints /\ "fail" \notin levels
BY DEF Shown, Lints, Levels

(* nor does what -E names *)
LEMMA ErrorLevels ==
  ASSUME NEW levels \in Errors
  PROVE  levels \subseteq Levels /\ "fail" \notin levels
BY DEF Errors, Levels

(* -S warn, note, pass, all *)
LEMMA OptionShowKeeps == IInv /\ OptionShow => IInv'
<1> SUFFICES ASSUME IInv, OptionShow PROVE IInv'
  OBVIOUS
<1>1. PICK levels \in Shown : show' = show \cup levels
  BY DEF OptionShow
<1>2. TypeOK'
  BY <1>1, ShownLevels DEF IInv, TypeOK, OptionShow, Option, groupVars, history
<1>3. Options'
  BY <1>1 DEF IInv, Options, OptionShow
<1> QED
  BY <1>2, <1>3, OptionsKeep DEF OptionShow, Option, groupVars, history

(* -S nowarn, nonote, nopass, noall: the only ones to hide an error *)
LEMMA OptionShowNoKeeps == IInv /\ OptionShowNo => IInv'
<1> SUFFICES ASSUME IInv, OptionShowNo PROVE IInv'
  OBVIOUS
<1>1. PICK levels \in Shown : show' = show \ levels
  BY DEF OptionShowNo
<1>2. TypeOK'
  BY <1>1 DEF IInv, TypeOK, OptionShowNo, Option, groupVars, history
<1>3. Options'
  BY <1>1, ShownLevels DEF IInv, Options, OptionShowNo
<1> QED
  BY <1>2, <1>3, OptionsKeep DEF OptionShowNo, Option, groupVars, history

(* -E warn, note, all: shown as well *)
LEMMA OptionErrorKeeps == IInv /\ OptionError => IInv'
<1> SUFFICES ASSUME IInv, OptionError PROVE IInv'
  OBVIOUS
<1>1. PICK levels \in Errors : show' = show \cup levels /\ mask' = mask \cup levels
  BY DEF OptionError
<1>2. TypeOK'
  BY <1>1, ErrorLevels DEF IInv, TypeOK, Lints, OptionError, Option, groupVars, history
<1>3. Options'
  BY <1>1 DEF IInv, Options, OptionError
<1> QED
  BY <1>2, <1>3, OptionsKeep DEF OptionError, Option, groupVars, history

(* -E nowarn, nonote, noall: gone from both *)
LEMMA OptionErrorNoKeeps == IInv /\ OptionErrorNo => IInv'
<1> SUFFICES ASSUME IInv, OptionErrorNo PROVE IInv'
  OBVIOUS
<1>1. PICK levels \in Errors : show' = show \ levels /\ mask' = mask \ levels
  BY DEF OptionErrorNo
<1>2. TypeOK'
  BY <1>1 DEF IInv, TypeOK, OptionErrorNo, Option, groupVars, history
<1>3. Options'
  BY <1>1, ErrorLevels DEF IInv, Options, OptionErrorNo
<1> QED
  BY <1>2, <1>3, OptionsKeep DEF OptionErrorNo, Option, groupVars, history

(* -M, -u, -t and the end of the options *)
LEMMA OtherOptionsKeep ==
  IInv /\ (OptionMode \/ OptionUri \/ OptionTest \/ Lint) => IInv'
<1> SUFFICES ASSUME IInv, OptionMode \/ OptionUri \/ OptionTest \/ Lint PROVE IInv'
  OBVIOUS
<1>1. Options'
  BY DEF IInv, Options, OptionMode, OptionUri, OptionTest, Lint, optionVars
<1>2. CASE OptionMode
  <2>1. TypeOK'
    BY <1>2 DEF IInv, TypeOK, OptionMode, Option, groupVars, history
  <2> QED
    BY <1>1, <1>2, <2>1, OptionsKeep DEF OptionMode, Option, groupVars, history
<1>3. CASE OptionUri
  <2>1. TypeOK'
    BY <1>3 DEF IInv, TypeOK, OptionUri, groupVars, history
  <2> QED
    BY <1>1, <1>3, <2>1, OptionsKeep DEF OptionUri
<1>4. CASE OptionTest
  <2>1. TypeOK'
    BY <1>4 DEF IInv, TypeOK, OptionTest, groupVars, history
  <2> QED
    BY <1>1, <1>4, <2>1, OptionsKeep DEF OptionTest
<1>5. CASE Lint
  <2>1. TypeOK'
    BY <1>5 DEF IInv, TypeOK, Lint, optionVars, groupVars, history
  <2> QED
    BY <1>1, <1>5, <2>1, OptionsKeep DEF Lint
<1> QED
  BY <1>2, <1>3, <1>4, <1>5
-----------------------------------------------------------------------------
(***************************************************************************)
(* The groups of tests                                                     *)
(***************************************************************************)

(* A group may be left as soon as what was found in it has counted.        *)
LEMMA GroupKeeps ==
  ASSUME IInv, NextGroup(flag), UNCHANGED <<optionVars, history>>,
         failed => Bad, ~hidden /\ culprit => Bad
  PROVE  IInv'
<1>1. /\ rets' = <<>> /\ at' = 0 /\ flag' = TRUE /\ msg' = FALSE
      /\ phase' \in {"tests", "done"}
      /\ good' = (good /\ flag)
  BY DEF NextGroup
<1>2. TypeOK'
  <2>1. g' \in 1 .. Len(Groups)
    BY DEF IInv, TypeOK, NextGroup
  <2>2. /\ at' \in 0 .. Len(rets') /\ Len(rets') <= Tests
        /\ rets' \in Seq([finds : Findings \cup {NoFinding}, white : BOOLEAN])
    BY <1>1
  <2>3. phase' \in {"options", "tests", "report", "done"} /\ good' \in BOOLEAN
    BY <1>1
  <2> QED
    BY <1>1, <2>1, <2>2, <2>3 DEF IInv, TypeOK, optionVars, history
<1>3. Options' /\ Progress'
  BY <1>1 DEF IInv, Options, Progress, optionVars
<1>4. Bad' = Bad
  BY <1>1 DEF Bad, IInv, TypeOK
<1>5. Noticed' /\ Blamed' /\ Kept'
  BY <1>1, <1>4 DEF IInv, Noticed, Blamed, Kept, optionVars, history
<1> QED
  BY <1>2, <1>3, <1>5 DEF IInv

(* A result that is shown sets msg, and one that counts is remembered.     *)
LEMMA RunTestKeeps == IInv /\ RunTest => IInv'
<1> SUFFICES ASSUME IInv, RunTest PROVE IInv'
  OBVIOUS
<1>0. PICK k \in Nat \ {0} : k = Len(rets) + 1
  BY DEF IInv, TypeOK
<1> DEFINE excused == IsWhitelisted(Groups[g], Len(rets) + 1)
<1>1. PICK finds \in Findings \cup {NoFinding} :
        /\ rets' = Append(rets, [finds |-> finds, white |-> excused])
        /\ msg' = (msg \/ Extract(finds) \in show)
        /\ culprit' = (culprit \/ (Extract(finds) \in mask /\ ~excused))
        /\ failed' = (failed \/ (Extract(finds) = "fail" /\ ~excused))
  BY DEF RunTest
<1>2. /\ phase = "tests" /\ phase' = "tests" /\ Len(rets) < Tests
      /\ at = 0 /\ at' = 0 /\ flag /\ flag' /\ good' = good /\ g' = g
      /\ UNCHANGED <<show, mask, pck, hidden, named>>
  BY DEF RunTest, IInv, Progress, optionVars
<1> DEFINE res == [finds |-> finds, white |-> excused]
<1>3. res \in Result /\ excused \in BOOLEAN
  BY DEF Result, IsWhitelisted
<1>4. rets \in Seq(Result)
  BY DEF IInv, TypeOK, Result
<1>5. /\ rets' \in Seq(Result) /\ Len(rets') = k /\ k \in Nat \ {0}
      /\ rets'[k] = res
      /\ \A i \in 1 .. Len(rets) : rets'[i] = rets[i]
  <2> HIDE DEF res
  <2> QED
    BY <1>0, <1>1, <1>3, <1>4 DEF res
<1>6. /\ DOMAIN rets = 1 .. Len(rets) /\ DOMAIN rets' = 1 .. k
      /\ \A i \in 1 .. k : i \in 1 .. Len(rets) \/ i = k
  BY <1>0, <1>4, <1>5
<1>7. res.finds = finds /\ res.white = excused
  OBVIOUS
<1> HIDE DEF res, excused
<1>8. \A x : Extract(x)' = Extract(x)
  BY <1>2 DEF Extract
<1>9. Bad' = Bad
  BY <1>2 DEF Bad, IInv, TypeOK
<1>10. TypeOK'
  <2>1. msg' \in BOOLEAN /\ culprit' \in BOOLEAN /\ failed' \in BOOLEAN
    BY <1>1, <1>3 DEF IInv, TypeOK
  <2>2. at' \in 0 .. Len(rets') /\ Len(rets') <= Tests
    BY <1>0, <1>2, <1>4, <1>5
  <2> QED
    BY <1>2, <1>5, <2>1, <2>2 DEF IInv, TypeOK, RunTest, optionVars, Result
<1>11. Options' /\ Progress'
  BY <1>2 DEF IInv, Options, Progress
<1>12. Noticed'
  BY <1>1, <1>2, <1>5, <1>6, <1>7, <1>8 DEF IInv, Noticed
<1>13. Blamed'
  <2>1. ASSUME NEW i \in DOMAIN rets', Offends(rets[i])' PROVE culprit'
    <3>1. CASE i = k
      BY <1>1, <1>2, <1>5, <1>7, <1>8, <2>1, <3>1 DEF Offends
    <3>2. CASE i \in 1 .. Len(rets)
      <4>1. Offends(rets[i])
        BY <1>2, <1>5, <1>8, <2>1, <3>2 DEF Offends
      <4> QED
        BY <1>1, <1>6, <3>2, <4>1 DEF IInv, Blamed
    <3> QED
      BY <1>6, <3>1, <3>2
  <2>2. Bad' => culprit'
    BY <1>1, <1>9 DEF IInv, Blamed
  <2>3. ~hidden' /\ Bad' => named'
    BY <1>2, <1>9 DEF IInv, Blamed
  <2> QED
    BY <2>1, <2>2, <2>3 DEF Blamed
<1>14. Kept'
  <2>1. k \in at' + 1 .. Len(rets')
    BY <1>2, <1>5
  <2>2. \A i \in at + 1 .. Len(rets) : i \in at' + 1 .. Len(rets') /\ rets'[i] = rets[i]
    BY <1>0, <1>2, <1>4, <1>5
  <2>3. ASSUME failed'
        PROVE  Bad' \/ \E i \in at' + 1 .. Len(rets') : Fails(rets[i])'
    <3>1. CASE failed
      BY <1>8, <1>9, <2>2, <3>1 DEF IInv, Kept, Fails
    <3>2. CASE ~failed
      <4>1. Fails(rets[k])'
        BY <1>1, <1>5, <1>7, <1>8, <2>3, <3>2 DEF Fails
      <4> QED
        BY <2>1, <4>1
    <3> QED
      BY <3>1, <3>2
  <2>4. ASSUME ~hidden', culprit'
        PROVE  Bad' \/ \E i \in at' + 1 .. Len(rets') : Offends(rets[i])'
    <3>1. CASE culprit
      BY <1>2, <1>8, <1>9, <2>2, <2>4, <3>1 DEF IInv, Kept, Offends
    <3>2. CASE ~culprit
      <4>1. Offends(rets[k])'
        BY <1>1, <1>2, <1>5, <1>7, <1>8, <2>4, <3>2 DEF Offends
      <4> QED
        BY <2>1, <4>1
    <3> QED
      BY <3>1, <3>2
  <2> QED
    BY <2>3, <2>4 DEF Kept
<1> QED
  BY <1>10, <1>11, <1>12, <1>13, <1>14 DEF IInv

(* Without anything to print the results are not looked at again; as       *)
(* "fail" is always shown, none of them can be a failure then.             *)
LEMMA SummariseKeeps == IInv /\ Summarise => IInv'
<1> SUFFICES ASSUME IInv, Summarise PROVE IInv'
  OBVIOUS
<1>1. CASE msg \/ "pass" \in show
  <2>1. phase' = "report" /\ UNCHANGED <<groupVars, optionVars, history>>
        /\ Len(rets) = Tests
    BY <1>1 DEF Summarise
  <2>2. TypeOK' /\ Options'
    BY <2>1 DEF IInv, TypeOK, Options, groupVars, optionVars, history
  <2>3. Progress'
    BY <2>1 DEF IInv, Progress, groupVars
  <2>4. Noticed' /\ Blamed' /\ Kept'
    BY <2>1 DEF IInv, Noticed, Blamed, Kept, Bad, Offends, Fails, Extract,
                groupVars, optionVars, history
  <2> QED
    BY <2>2, <2>3, <2>4 DEF IInv
<1>2. CASE ~(msg \/ "pass" \in show)
  <2>1. NextGroup(flag) /\ UNCHANGED <<optionVars, history>>
    BY <1>2 DEF Summarise
  <2>2. at \in Nat /\ \A i \in at + 1 .. Len(rets) : i \in DOMAIN rets
    BY DEF IInv, TypeOK
  <2>3. \A i \in DOMAIN rets : Extract(rets[i].finds) \notin show
    BY <1>2 DEF IInv, Noticed
  <2>4. failed => Bad
    BY <2>2, <2>3 DEF IInv, Kept, Options, Fails
  <2>5. ~hidden /\ culprit => Bad
    BY <2>2, <2>3 DEF IInv, Kept, Options, Offends
  <2> QED
    BY <2>1, <2>4, <2>5, GroupKeeps
<1> QED
  BY <1>1, <1>2

(* a UI given up before its tests has no results *)
LEMMA UiMissingKeeps == IInv /\ UiMissing => IInv'
<1> SUFFICES ASSUME IInv, UiMissing PROVE IInv'
  OBVIOUS
<1>1. rets = <<>> /\ NextGroup(flag) /\ UNCHANGED <<optionVars, history>>
  BY DEF UiMissing
<1>2. at + 1 .. Len(rets) = {}
  BY <1>1 DEF IInv, TypeOK
<1> QED
  BY <1>1, <1>2, GroupKeeps DEF IInv, Kept

(* every result of the group has been reported *)
LEMMA GroupDoneKeeps == IInv /\ GroupDone => IInv'
<1> SUFFICES ASSUME IInv, GroupDone PROVE IInv'
  OBVIOUS
<1>1. at = Tests /\ Len(rets) = Tests /\ NextGroup(flag) /\ UNCHANGED <<optionVars, history>>
  BY DEF GroupDone, IInv, Progress
<1>2. at + 1 .. Len(rets) = {}
  BY <1>1
<1> QED
  BY <1>1, <1>2, GroupKeeps DEF IInv, Kept

(* The result that is reported counts if it must, and then turns the flag; *)
(* the ones behind it are still to come.                                   *)
LEMMA ReportKeeps == IInv /\ Report => IInv'
<1> SUFFICES ASSUME IInv, Report PROVE IInv'
  OBVIOUS
<1> DEFINE res == rets[at + 1]
           counts == res.finds # NoFinding /\ ~res.white
           lnt == Extract(res.finds)
<1>1. /\ phase = "report" /\ at < Tests /\ Len(rets) = Tests
      /\ flag' = IF counts /\ flag THEN lnt \notin mask ELSE flag
      /\ named' = (named \/ (counts /\ lnt \in show \cap mask))
      /\ at' = at + 1
      /\ UNCHANGED <<phase, show, mask, pck, prefix, white, noptions, hidden,
                     g, rets, msg, good, culprit, failed>>
  BY DEF Report, IInv, Progress, optionVars
<1>2. /\ at \in Nat /\ at + 1 \in 1 .. Len(rets) /\ rets \in Seq(Result)
      /\ DOMAIN rets = 1 .. Len(rets) /\ Tests \in Nat
      /\ \A i \in at + 1 .. Len(rets) : i = at + 1 \/ i \in at' + 1 .. Len(rets)
  BY <1>1 DEF IInv, TypeOK, Result
<1>3. res \in Result
  BY <1>2
<1>4. \A x : Extract(x)' = Extract(x)
  BY <1>1 DEF Extract
<1>5. flag \in BOOLEAN /\ named \in BOOLEAN /\ good \in BOOLEAN
  BY DEF IInv, TypeOK
<1>6. Offends(res) \/ Fails(res) => counts
  BY NothingFound DEF Offends, Fails, IInv, TypeOK, Options, Levels
<1>7. Fails(res) => Offends(res)
  BY DEF Fails, Offends, IInv, Options
<1>8. Offends(res) => ~flag'
  BY <1>1, <1>5, <1>6 DEF Offends
<1>9. flag /\ ~flag' => Offends(res) /\ counts
  BY <1>1 DEF Offends
<1>10. TypeOK'
  <2>1. at' \in 0 .. Len(rets')
    BY <1>1, <1>2
  <2>2. flag' \in BOOLEAN /\ named' \in BOOLEAN
    BY <1>1, <1>5
  <2> QED
    BY <1>1, <2>1, <2>2 DEF IInv, TypeOK
<1>11. Options' /\ Progress' /\ Noticed'
  BY <1>1, <1>4 DEF IInv, Options, Progress, Noticed
<1>12. Bad => Bad'
  BY <1>1, <1>5 DEF Bad
<1>13. Blamed'
  <2>1. \A i \in DOMAIN rets : Offends(rets[i])' <=> Offends(rets[i])
    BY <1>1, <1>4 DEF Offends
  <2>2. Bad' => Bad \/ (Offends(res) /\ counts)
    BY <1>1, <1>9 DEF Bad
  <2>3. Offends(res) => culprit
    BY <1>2 DEF IInv, Blamed
  <2>4. Bad' => culprit'
    BY <1>1, <2>2, <2>3 DEF IInv, Blamed
  <2>5. ~hidden' /\ Bad' => named'
    BY <1>1, <2>2 DEF IInv, Blamed, Options, Offends
  <2> QED
    BY <1>1, <2>1, <2>4, <2>5 DEF IInv, Blamed
<1>14. Kept'
  <2>1. \A i \in DOMAIN rets : /\ Offends(rets[i])' <=> Offends(rets[i])
                               /\ Fails(rets[i])' <=> Fails(rets[i])
    BY <1>1, <1>4 DEF Offends, Fails
  <2>2. Offends(res) \/ Fails(res) => Bad'
    BY <1>7, <1>8 DEF Bad
  <2>3. \A i \in at + 1 .. Len(rets) : i \in DOMAIN rets
    BY <1>2
  <2>4. failed' => Bad' \/ \E i \in at' + 1 .. Len(rets') : Fails(rets[i])'
    BY <1>1, <1>2, <1>12, <2>1, <2>2, <2>3 DEF IInv, Kept
  <2>5. ~hidden' /\ culprit' => Bad' \/ \E i \in at' + 1 .. Len(rets') : Offends(rets[i])'
    BY <1>1, <1>2, <1>12, <2>1, <2>2, <2>3 DEF IInv, Kept
  <2> QED
    BY <2>4, <2>5 DEF Kept
<1> QED
  BY <1>10, <1>11, <1>13, <1>14 DEF IInv
-----------------------------------------------------------------------------
(* a step of nothing *)
LEMMA StutterKeeps == IInv /\ UNCHANGED vars => IInv'
BY DEF vars, optionVars, groupVars, history, IInv, TypeOK, Options, Progress, Noticed,
       Blamed, Kept, Bad, Offends, Fails, Extract

(* What holds in the middle of every group, whatever the options, the      *)
(* whitelist and the findings are.                                         *)
THEOREM VerdictInvariant == Spec => []IInv
<1>1. IInv /\ [Next]_vars => IInv'
  <2> SUFFICES ASSUME IInv, [Next]_vars PROVE IInv'
    OBVIOUS
  <2>1. CASE OptionShow
    BY <2>1, OptionShowKeeps
  <2>2. CASE OptionShowNo
    BY <2>2, OptionShowNoKeeps
  <2>3. CASE OptionError
    BY <2>3, OptionErrorKeeps
  <2>4. CASE OptionErrorNo
    BY <2>4, OptionErrorNoKeeps
  <2>5. CASE OptionMode \/ OptionUri \/ OptionTest \/ Lint
    BY <2>5, OtherOptionsKeep
  <2>6. CASE RunTest
    BY <2>6, RunTestKeeps
  <2>7. CASE Summarise
    BY <2>7, SummariseKeeps
  <2>8. CASE UiMissing
    BY <2>8, UiMissingKeeps
  <2>9. CASE Report
    BY <2>9, ReportKeeps
  <2>10. CASE GroupDone
    BY <2>10, GroupDoneKeeps
  <2>11. CASE UNCHANGED vars
    BY <2>11, StutterKeeps
  <2> QED
    BY <2>1, <2>2, <2>3, <2>4, <2>5, <2>6, <2>7, <2>8, <2>9, <2>10, <2>11 DEF Next
<1> QED
  BY <1>1, InitIInv, PTL DEF Spec

(* when a plugin is done, nothing is left to report *)
LEMMA NothingLeft ==
  ASSUME IInv, phase = "done"
  PROVE  flag /\ at + 1 .. Len(rets) = {}
BY DEF IInv, Progress

(* lv2lint -E, -S, -M, -u and -t in any number and order, any number of    *)
(* tests: a test that fails and is not whitelisted fails the plugin.       *)
THEOREM VerdictFailAlwaysCounts == Spec => []FailAlwaysCounts
<1>1. IInv => FailAlwaysCounts
  BY NothingLeft DEF FailAlwaysCounts, IInv, Kept, Bad
<1> QED
  BY <1>1, VerdictInvariant, PTL

(* Nothing but a result at an error level that no whitelist entry for that *)
(* URI and test excuses ever fails a plugin.                               *)
THEOREM VerdictOnlyErrorsCount == Spec => []OnlyErrorsCount
<1>1. IInv => OnlyErrorsCount
  BY DEF OnlyErrorsCount, IInv, Blamed, Bad
<1> QED
  BY <1>1, VerdictInvariant, PTL

(* As long as no level is hidden with -S, the verdict is exact, and a      *)
(* plugin that fails has been told why.                                    *)
THEOREM VerdictExactUnlessHidden == Spec => []ExactUnlessHidden
<1>1. IInv => ExactUnlessHidden
  <2> SUFFICES ASSUME IInv, phase = "done", ~hidden
               PROVE  (good <=> ~culprit) /\ (~good => named)
    BY DEF ExactUnlessHidden
  <2>1. good \in BOOLEAN /\ culprit \in BOOLEAN
    BY DEF IInv, TypeOK
  <2>2. culprit => ~good
    BY NothingLeft DEF IInv, Kept, Bad
  <2>3. ~good => culprit /\ named
    BY DEF IInv, Blamed, Bad
  <2> QED
    BY <2>1, <2>2, <2>3
<1> QED
  BY <1>1, VerdictInvariant, PTL
=============================================================================
