----------------------------- MODULE LintUIProofs -------------------------------
(***************************************************************************)
(* Theorems about LintHost and LintUI: the lists fit whatever plugins      *)
(* require, and the tests of UIs keep their books for any number of        *)
(* plugins and UIs.                                                        *)
(***************************************************************************)
EXTENDS LintUI, FiniteSetTheorems, TLAPS

USE HostAssumption

(* a list has no more elements than places *)
LEMMA ElementsBound ==
  ASSUME NEW n \in Nat, NEW list, Len(list) = n
  PROVE  /\ IsFiniteSet(Elements(list))
         /\ Cardinality(Elements(list)) <= n
<1> DEFINE f == [i \in 1..n |-> list[i]]
<1>1. Elements(list) = {f[i] : i \in 1..n}
  BY DEF Elements
<1>2. f \in Surjection(1..n, Elements(list))
  BY <1>1 DEF Surjection
<1>3. IsFiniteSet(1..n) /\ Cardinality(1..n) = n
  BY FS_Interval
<1> HIDE DEF f
<1> QED
  BY <1>2, <1>3, FS_Surjection

LEMMA Known ==
  /\ IsFiniteSet(PluginFeatures) /\ Cardinality(PluginFeatures) <= 20
  /\ IsFiniteSet(PluginOptions) /\ Cardinality(PluginOptions) <= 6
<1>1. IsFiniteSet(PluginFeatures) /\ Cardinality(PluginFeatures) <= 20
  BY ElementsBound DEF PluginFeatures
<1>2. IsFiniteSet(PluginOptions) /\ Cardinality(PluginOptions) <= 6
  BY ElementsBound DEF PluginOptions
<1> QED
  BY <1>1, <1>2

(* Whatever a plugin requires, the lists fit their arrays: what a bounded  *)
(* block length implies is counted once, required or not.                  *)
THEOREM EveryListFits ==
  ASSUME NEW features, NEW options
  PROVE  /\ FeatureEntries(features) <= MAX_FEATURES
         /\ OptionEntries(features, options) <= MAX_OPTS
<1> DEFINE asked == options \cap PluginOptions
           more == Implied(features, options)
<1>1. FeatureEntries(features) <= MAX_FEATURES
  <2>1. /\ Cardinality(features \cap PluginFeatures) <= 20
        /\ Cardinality(features \cap PluginFeatures) \in Nat
    <3>1. /\ IsFiniteSet(features \cap PluginFeatures)
          /\ Cardinality(features \cap PluginFeatures) <= Cardinality(PluginFeatures)
      BY Known, FS_Intersection, Zenon
    <3>2. /\ Cardinality(features \cap PluginFeatures) \in Nat
          /\ Cardinality(PluginFeatures) \in Nat
      BY <3>1, Known, FS_CardinalityType, Zenon
    <3> QED
      BY <3>1, <3>2, Known
  <2> QED
    BY <2>1 DEF FeatureEntries, MAX_FEATURES
<1>2. more \subseteq PluginOptions
  BY DEF Implied, BlockLengths, PluginOptions, Elements
<1>3. asked \cap more = {}
  BY DEF Implied
<1>4. /\ IsFiniteSet(asked) /\ IsFiniteSet(more)
      /\ Cardinality(asked) \in Nat /\ Cardinality(more) \in Nat
  BY <1>2, Known, FS_Subset, FS_CardinalityType
<1>5. Cardinality(asked \cup more) = Cardinality(asked) + Cardinality(more)
  <2>1. Cardinality(asked \cup more) =
          Cardinality(asked) + Cardinality(more) - Cardinality(asked \cap more)
    BY <1>4, FS_Union, Zenon
  <2>2. Cardinality(asked \cap more) = 0
    BY <1>3, FS_EmptySet
  <2> QED
    BY <1>4, <2>1, <2>2
<1>6. Cardinality(asked \cup more) <= 6
  BY <1>2, Known, FS_Subset, FS_CardinalityType
<1> QED
  BY <1>1, <1>4, <1>5, <1>6 DEF OptionEntries, MAX_OPTS

(* No plugin makes lv2lint write behind its lists.                         *)
THEOREM HostListsFit == Spec => []ListsFit
<1>1. ListsFit
  BY EveryListFits DEF ListsFit
<1> QED
  BY <1>1, PTL DEF Spec
-----------------------------------------------------------------------------
(* the three parts of TypeOK: truth values, records with one, the rest *)
Truth ==
  /\ instance \in BOOLEAN /\ display \in BOOLEAN /\ stale \in BOOLEAN
  /\ {missed, astray} \subseteq BOOLEAN
  /\ returned \in [instance : BOOLEAN, widget : BOOLEAN]
Rest ==
  /\ pc \in {"main", "uis", "library", "tests", "window", "x11tests", "cleanup", "jump",
             "crashed", "aborted"}
  /\ plugin \in 0..Plugins /\ ui \in 0..Uis
  /\ required \in Requirements \cup {NoRequirement}
  /\ lib \in Libraries \cup {"none"}
  /\ handles \in [Libraries -> Nat] /\ orphans \in Nat
  /\ broken \subseteq Libraries
  /\ {ui_descriptor, ui_instance, ui_widget} \subseteq Ui \cup {Nobody}
  /\ ui_instantiate \in {0, 1}
  /\ verdict.instantiation \in {"none", "pass", "failed", "crashed"}
  /\ verdict.widget \in {"none", "pass", "failed"}
  /\ alive \subseteq Ui
  /\ pc \in {"library", "tests", "window", "x11tests", "cleanup"} => lib \in Libraries

LEMMA NothingIsTyped == NothingYet \in [instance : BOOLEAN, widget : BOOLEAN]
BY DEF NothingYet

LEMMA TruthStep == ASSUME TypeOK, Next PROVE Truth'
<1>1. instance' \in BOOLEAN /\ display' \in BOOLEAN
  BY DEF TypeOK, Next, Instantiate, Free, OpenUi, BrokenUi, FindDescriptor, NoX11, OpenDisplay,
         NoInstantiate, InstantiateUi, TestX11, Cleanup, Jump, Crash, uiVars
<1>2. {missed', astray'} \subseteq BOOLEAN
  BY DEF TypeOK, Next, Instantiate, Free, OpenUi, BrokenUi, FindDescriptor, NoX11, OpenDisplay,
         NoInstantiate, InstantiateUi, TestX11, Cleanup, Jump, Crash, history
<1>3. returned' \in [instance : BOOLEAN, widget : BOOLEAN]
  <2>1. CASE InstantiateUi
    <3>1. PICK made, widget \in BOOLEAN : returned' = [instance |-> made, widget |-> widget]
      BY <2>1 DEF InstantiateUi
    <3>2. [instance |-> made, widget |-> widget] \in [instance : BOOLEAN, widget : BOOLEAN]
      OBVIOUS
    <3> QED
      BY <3>1, <3>2, Zenon
  <2>2. CASE OpenUi
    BY <2>2, NothingIsTyped DEF OpenUi
  <2>3. CASE UNCHANGED returned
    BY <2>3 DEF TypeOK
  <2> QED
    BY <2>1, <2>2, <2>3
       DEF Next, Instantiate, Free, BrokenUi, FindDescriptor, NoX11, OpenDisplay,
           NoInstantiate, TestX11, Cleanup, Jump, Crash, history
<1>4. stale' \in BOOLEAN
  BY DEF TypeOK, Next, Instantiate, Free, OpenUi, BrokenUi, FindDescriptor, NoX11, OpenDisplay,
         NoInstantiate, InstantiateUi, TestX11, Cleanup, Jump, Crash, Close, libraries
<1> QED
  BY <1>1, <1>2, <1>3, <1>4 DEF Truth

LEMMA RestStep == ASSUME TypeOK, Places, Handles, Next PROVE Rest'
<1> USE DEF TypeOK, Rest, Places, Handles, Users, Libraries, Ui, Nobody
<1>1. CASE Instantiate
  BY <1>1 DEF Instantiate, Open, libraries, uiVars, appVars, history
<1>2. CASE Free
  BY <1>2 DEF Free, Close, NoRequirement, libraries, uiVars, appVars, history
<1>3. CASE OpenUi
  BY <1>3 DEF OpenUi, Open, NoVerdict, libraries, uiVars, appVars, history
<1>4. CASE BrokenUi
  <2>1. lib \in Libraries /\ handles' \in [Libraries -> Nat]
    BY <1>4 DEF BrokenUi, Close
  <2> QED
    BY <1>4, <2>1 DEF BrokenUi, libraries, uiVars, appVars, history
<1>5. CASE FindDescriptor
  BY <1>5 DEF FindDescriptor, libraries, uiVars, appVars, history
<1>6. CASE NoX11
  BY <1>6 DEF NoX11, libraries, uiVars, appVars, history
<1>7. CASE OpenDisplay
  BY <1>7 DEF OpenDisplay, libraries, uiVars, appVars, history
<1>8. CASE NoInstantiate
  BY <1>8 DEF NoInstantiate, libraries, uiVars, appVars, history
<1>9. CASE InstantiateUi
  BY <1>9 DEF InstantiateUi, libraries, uiVars, appVars, history
<1>10. CASE TestX11
  BY <1>10 DEF TestX11, NoVerdict, libraries, uiVars, appVars, history
<1>11. CASE Cleanup
  BY <1>11 DEF Cleanup, libraries, uiVars, appVars, history
<1>12. CASE Jump
  BY <1>12 DEF Jump, Close, libraries, uiVars, appVars, history
<1>13. CASE Crash
  BY <1>13 DEF Crash, libraries, uiVars, appVars, history
<1> QED
  BY <1>1, <1>2, <1>3, <1>4, <1>5, <1>6, <1>7, <1>8, <1>9, <1>10, <1>11, <1>12, <1>13 DEF Next

LEMMA BooksStep ==
  ASSUME TypeOK, Places, Handles, Next
  PROVE  Places' /\ Handles' /\ LibrariesBalanced'
<1> USE DEF TypeOK, Places, Handles, LibrariesBalanced, Users, Libraries, Ui
<1>1. CASE Instantiate
  BY <1>1 DEF Instantiate, Open, libraries, uiVars, appVars, history
<1>2. CASE Free
  BY <1>2 DEF Free, Close, libraries, uiVars, appVars, history
<1>3. CASE OpenUi
  BY <1>3 DEF OpenUi, Open, libraries, uiVars, appVars, history
<1>4. CASE BrokenUi
  <2>1. /\ pc' = "jump" /\ broken' = broken \cup {lib}
        /\ UNCHANGED <<lib, instance, ui, orphans>>
    BY <1>4 DEF BrokenUi, uiVars
  <2>2. lib \in Libraries /\ handles[lib] > 0
    BY <1>4 DEF BrokenUi
  <2>3. handles' = [handles EXCEPT ![lib] = @ - 1] /\ stale' = stale
    BY <1>4, <2>2 DEF BrokenUi, Close
  <2>4. \A b \in Libraries \ {lib} : handles'[b] = handles[b]
    BY <2>3
  <2>5. handles'["ui"] <= handles["ui"] /\ handles'["ui"] \in Int
    BY <2>2, <2>3
  <2>6. \A b \in Libraries : Users(b)' = Users(b)
    BY <2>1
  <2>7. Handles'
    <3>1. \A b \in Libraries \ broken' : handles'[b] = Users(b)'
      BY <2>1, <2>4, <2>6
    <3>2. handles'["ui"] <= Users("ui")'
      BY <2>1, <2>5
    <3> QED
      BY <2>1, <2>3, <3>1, <3>2
  <2>8. LibrariesBalanced'
    <3>1. instance' /\ "dsp" \notin broken' => handles'["dsp"] > 0
      BY <2>1, <2>4
    <3> QED
      BY <2>1, <2>3, <3>1
  <2>9. Places'
    BY <1>4, <2>1 DEF BrokenUi
  <2> HIDE DEF Places, Handles, LibrariesBalanced
  <2> QED
    BY <2>7, <2>8, <2>9
<1>5. CASE FindDescriptor
  BY <1>5 DEF FindDescriptor, libraries, uiVars, appVars, history
<1>6. CASE NoX11
  BY <1>6 DEF NoX11, libraries, uiVars, appVars, history
<1>7. CASE OpenDisplay
  BY <1>7 DEF OpenDisplay, libraries, uiVars, appVars, history
<1>8. CASE NoInstantiate
  BY <1>8 DEF NoInstantiate, libraries, uiVars, appVars, history
<1>9. CASE InstantiateUi
  BY <1>9 DEF InstantiateUi, libraries, uiVars, appVars, history
<1>10. CASE TestX11
  BY <1>10 DEF TestX11, libraries, uiVars, appVars, history
<1>11. CASE Cleanup
  BY <1>11 DEF Cleanup, libraries, uiVars, appVars, history
<1>12. CASE Jump
  BY <1>12 DEF Jump, Close, libraries, uiVars, appVars, history
<1>13. CASE Crash
  BY <1>13 DEF Crash, libraries, uiVars, appVars, history
<1> QED
  BY <1>1, <1>2, <1>3, <1>4, <1>5, <1>6, <1>7, <1>8, <1>9, <1>10, <1>11, <1>12, <1>13 DEF Next

LEMMA OwnStep ==
  ASSUME TypeOK, Places, Fresh, VerdictIsOwn, CleanupIsOwn, Next
  PROVE  Fresh' /\ VerdictIsOwn' /\ CleanupIsOwn'
<1> USE DEF TypeOK, Places, Fresh, VerdictIsOwn, CleanupIsOwn, Ui, Nobody, NoVerdict, NothingYet
<1>1. CASE Instantiate
  BY <1>1 DEF Instantiate, libraries, uiVars, appVars, history
<1>2. CASE Free
  BY <1>2 DEF Free, libraries, uiVars, appVars, history
<1>3. CASE OpenUi
  BY <1>3 DEF OpenUi, libraries, uiVars, appVars, history
<1>4. CASE BrokenUi
  BY <1>4 DEF BrokenUi, libraries, uiVars, appVars, history
<1>5. CASE FindDescriptor
  BY <1>5 DEF FindDescriptor, libraries, uiVars, appVars, history
<1>6. CASE NoX11
  BY <1>6 DEF NoX11, libraries, uiVars, appVars, history
<1>7. CASE OpenDisplay
  BY <1>7 DEF OpenDisplay, libraries, uiVars, appVars, history
<1>8. CASE NoInstantiate
  BY <1>8 DEF NoInstantiate, libraries, uiVars, appVars, history
<1>9. CASE InstantiateUi
  BY <1>9 DEF InstantiateUi, libraries, uiVars, appVars, history
<1>10. CASE TestX11
  BY <1>10 DEF TestX11, libraries, uiVars, appVars, history
<1>11. CASE Cleanup
  BY <1>11 DEF Cleanup, libraries, uiVars, appVars, history
<1>12. CASE Jump
  BY <1>12 DEF Jump, libraries, uiVars, appVars, history
<1>13. CASE Crash
  BY <1>13 DEF Crash, libraries, uiVars, appVars, history
<1> QED
  BY <1>1, <1>2, <1>3, <1>4, <1>5, <1>6, <1>7, <1>8, <1>9, <1>10, <1>11, <1>12, <1>13 DEF Next
-----------------------------------------------------------------------------
(* The inductive invariant holds in every reachable state.                 *)
THEOREM UIInvariant == Spec => []IInv
<1>1. Init => IInv
  <2>1. Init => Truth
    BY NothingIsTyped DEF Init, Truth
  <2>2. Init => Rest
    BY DEF Init, Rest, Libraries, Ui, Nobody, NoVerdict, NoRequirement
  <2>3. Init => Places /\ Handles /\ Fresh
    BY DEF Init, Places, Handles, Users, Fresh, Libraries, Nobody, NoVerdict, NothingYet
  <2>4. Init => LibrariesBalanced /\ VerdictIsOwn /\ CleanupIsOwn
    BY DEF Init, LibrariesBalanced, VerdictIsOwn, CleanupIsOwn, Libraries, NoVerdict
  <2> QED
    BY <2>1, <2>2, <2>3, <2>4 DEF IInv, TypeOK, Truth, Rest
<1>2. IInv /\ [Next]_vars => IInv'
  <2> SUFFICES ASSUME IInv, [Next]_vars PROVE IInv'
    OBVIOUS
  <2>1. CASE Next
    <3>1. TypeOK'
      BY <2>1, TruthStep, RestStep DEF IInv, TypeOK, Truth, Rest
    <3> QED
      BY <2>1, <3>1, BooksStep, OwnStep DEF IInv
  <2>2. CASE UNCHANGED vars
    BY <2>2 DEF IInv, TypeOK, Places, Handles, Users, Fresh, LibrariesBalanced, VerdictIsOwn,
                CleanupIsOwn, vars, libraries, uiVars, appVars, history
  <2> QED
    BY <2>1, <2>2
<1> QED
  BY <1>1, <1>2, PTL DEF Spec

(* Between two UIs no UI's library is open, and the plugins' own is held   *)
(* by the instance and by those whose child ended in instantiate or        *)
(* cleanup, unless a broken UI was in it; only then is a library closed    *)
(* that is not open.                                                       *)
THEOREM UILibrariesBalanced == Spec => []LibrariesBalanced
BY UIInvariant, PTL DEF IInv

(* The verdict on a UI speaks of that UI.                                  *)
THEOREM UIVerdictIsOwn == Spec => []VerdictIsOwn
BY UIInvariant, PTL DEF IInv

(* A UI's cleanup gets the UI's own instance, unless the UI had none.      *)
THEOREM UICleanupIsOwn == Spec => []CleanupIsOwn
BY UIInvariant, PTL DEF IInv
================================================================================
