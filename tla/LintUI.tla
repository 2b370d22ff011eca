-------------------------------- MODULE LintUI --------------------------------
(***************************************************************************)
(* The tests of a plugin's UIs (test_ui, test_x11), between the plugin's   *)
(* instantiation and its end.  A UI's library is opened, its descriptor    *)
(* looked up, its interfaces asked for; an X11 UI is instantiated and      *)
(* destroyed if there is a display.  All of this runs in lv2lint's own     *)
(* process: a UI that crashes ends lv2lint.                                *)
(*                                                                         *)
(* What a UI is like is chosen at the step where it first matters.  The    *)
(* pointers in app that outlive a UI name the UI they came from.           *)
(***************************************************************************)
EXTENDS LintHost

CONSTANTS
  Requirements,   \* [features, options] that plugins require
  UiRequirements, \* the same of UIs
  Plugins, Uis    \* bounds: plugins, and UIs of all of them

Nobody == 0
Ui == 1..Uis
Libraries == {"dsp", "ui"}   \* the plugin's own library, and another

ASSUME HostAssumption ==
  /\ Requirements # {} /\ UiRequirements # {}
  /\ Plugins \in Nat /\ Uis \in Nat

VARIABLES
  pc,             \* where main, test_ui or test_x11 is
  plugin, ui,     \* how many there have been
  instance,       \* app->instance, of the plugin
  required,       \* what the plugin requires
  lib,            \* the library test_ui has opened, or "none"
  handles,        \* how often each library is open
  orphans,        \* history: holds on the plugins' library never given back
  broken,         \* history: the libraries in which a UI was broken
  stale,          \* history: a library that was not open has been closed
  ui_descriptor, ui_instance, ui_widget,  \* app's: whose each is
  ui_instantiate, \* app->status.ui_instantiate
  display,        \* the _display the hints test uses
  verdict,        \* what the tests of test_x11 found
  alive,          \* history: the UIs that have an instance
  returned,       \* history: what this UI's instantiate gave: instance, widget
  missed,         \* history: this UI could not be instantiated
  astray          \* history: its cleanup got something else than its instance

appVars == <<ui_descriptor, ui_instance, ui_widget, ui_instantiate>>
history == <<alive, returned, missed, astray>>
libraries == <<handles, orphans, broken, stale>>
uiVars == <<lib, display, verdict>>
vars == <<pc, plugin, ui, instance, required, libraries, uiVars, appVars, history>>

NoVerdict == [instantiation |-> "none", widget |-> "none"]
NothingYet == [instance |-> FALSE, widget |-> FALSE]
NoRequirement == [features |-> {}, options |-> {}]

Init ==
  /\ pc = "main" /\ plugin = 0 /\ ui = 0
  /\ instance = FALSE /\ required = NoRequirement
  /\ lib = "none" /\ handles = [b \in Libraries |-> 0]
  /\ ui_descriptor = Nobody
  /\ ui_instance = Nobody /\ ui_widget = Nobody /\ ui_instantiate = 0
  /\ display = FALSE /\ verdict = NoVerdict
  /\ orphans = 0 /\ broken = {} /\ stale = FALSE
  /\ alive = {} /\ returned = NothingYet
  /\ missed = FALSE /\ astray = FALSE

Open(b) == handles' = [handles EXCEPT ![b] = @ + 1]
(* dlclose refuses a library that is not open, or crashes (see Jump)       *)
Close(b) ==
  IF handles[b] > 0
  THEN handles' = [handles EXCEPT ![b] = @ - 1] /\ UNCHANGED stale
  ELSE stale' = TRUE /\ UNCHANGED handles
-----------------------------------------------------------------------------
(* main: the next plugin.  It may not let itself be instantiated; or the   *)
(* child ends inside its code, and then the library stays open although    *)
(* app.instance is NULL.                                                   *)
Instantiate ==
  /\ pc = "main" /\ plugin < Plugins
  /\ plugin' = plugin + 1
  /\ required' \in Requirements
  /\ \/ instance' = TRUE /\ Open("dsp") /\ UNCHANGED orphans
     \/ instance' = FALSE /\ UNCHANGED <<handles, orphans>>
     \/ instance' = FALSE /\ Open("dsp") /\ orphans' = orphans + 1
  /\ pc' = "uis"
  /\ UNCHANGED <<ui, broken, stale, uiVars, appVars, history>>

(* _wrap_free in a child, which may end in the plugin's cleanup or not be  *)
(* spawned at all: app.instance is forgotten even so, the library is not   *)
(* closed.                                                                 *)
Free ==
  /\ pc = "uis"
  /\ instance' = FALSE
  /\ \/ ~instance /\ UNCHANGED <<handles, orphans, stale>>
     \/ instance /\ Close("dsp") /\ UNCHANGED orphans
     \/ instance /\ orphans' = orphans + 1 /\ UNCHANGED <<handles, stale>>
  /\ required' = NoRequirement
  /\ pc' = "main"
  /\ UNCHANGED <<plugin, ui, broken, uiVars, appVars, history>>
-----------------------------------------------------------------------------
(* test_ui: dlopen *)
OpenUi ==
  /\ pc = "uis" /\ ui < Uis
  /\ ui' = ui + 1 /\ ui_descriptor' = Nobody
  /\ returned' = NothingYet /\ missed' = FALSE /\ astray' = FALSE
  /\ verdict' = NoVerdict
  /\ \/ \E b \in Libraries : lib' = b /\ Open(b) /\ pc' = "library"
     \/ lib' = "none" /\ UNCHANGED handles /\ pc' = "jump"
  /\ UNCHANGED <<plugin, instance, required, orphans, broken, stale, display,
                 ui_instance, ui_widget, ui_instantiate, alive>>

(* no lv2ui_descriptor in it, or no descriptor with the UI's URI: the      *)
(* library is closed here, and once more after the jump                    *)
BrokenUi ==
  /\ pc = "library"
  /\ Close(lib)
  /\ broken' = broken \cup {lib}
  /\ pc' = "jump"
  /\ UNCHANGED <<plugin, ui, instance, required, orphans, uiVars, appVars, history>>

(* the descriptor, its interfaces, and the tests that look at them *)
FindDescriptor ==
  /\ pc = "library"
  /\ ui_descriptor' = ui
  /\ pc' = "tests"
  /\ UNCHANGED <<plugin, ui, instance, required, libraries, uiVars, ui_instance, ui_widget,
                 ui_instantiate, history>>

(* not an X11 UI, or no display or window for it; else the lists, of which *)
(* the one of the features may be overrun unseen                           *)
NoX11 ==
  /\ pc = "tests"
  /\ pc' = "jump"
  /\ UNCHANGED <<plugin, ui, instance, required, libraries, uiVars, appVars, history>>

OpenDisplay ==
  /\ pc = "tests"
  /\ display' = TRUE
  /\ \E r \in UiRequirements :
       \/ /\ UiOptionEntries(r.options) <= UI_MAX_OPTS
          /\ pc' = "window"
       \/ /\ UiOptionEntries(r.options) > UI_MAX_OPTS
          /\ pc' = "aborted"
       \/ /\ UiFeatureEntries(r.features) > UI_MAX_FEATURES
          /\ pc' = "crashed"
  /\ UNCHANGED <<plugin, ui, instance, required, libraries, lib, verdict, appVars, history>>

(* _wrap_instantiate: the UI has no such function, or its bundle no path *)
NoInstantiateFine ==          \* variant: the result is 0 all the same
  /\ pc = "window"
  /\ ui_instantiate' = 0 /\ missed' = TRUE
  /\ pc' = "x11tests"
  /\ UNCHANGED <<plugin, ui, instance, required, libraries, uiVars, ui_descriptor,
                 ui_instance, ui_widget, alive, returned, astray>>
NoInstantiate ==
  /\ pc = "window"
  /\ ui_instantiate' = 1 /\ missed' = TRUE
  /\ pc' = "x11tests"
  /\ UNCHANGED <<plugin, ui, instance, required, libraries, uiVars, ui_descriptor,
                 ui_instance, ui_widget, alive, returned, astray>>

(* what it returns, and whether it has set the widget *)
InstantiateUiKeeps ==         \* variant: NULL leaves the last instance
  /\ pc = "window"
  /\ ui_instantiate' = 0
  /\ \E made, widget \in BOOLEAN :
       /\ ui_instance' = IF made THEN ui ELSE ui_instance
       /\ ui_widget' = IF widget THEN ui ELSE ui_widget
       /\ alive' = IF made THEN alive \cup {ui} ELSE alive
       /\ returned' = [instance |-> made, widget |-> widget]
  /\ pc' = "x11tests"
  /\ UNCHANGED <<plugin, ui, instance, required, libraries, uiVars, ui_descriptor,
                 missed, astray>>
InstantiateUi ==
  /\ pc = "window"
  /\ ui_instantiate' = 0
  /\ \E made, widget \in BOOLEAN :
       /\ ui_instance' = IF made THEN ui ELSE Nobody
       /\ ui_widget' = IF widget THEN ui ELSE ui_widget
       /\ alive' = IF made THEN alive \cup {ui} ELSE alive
       /\ returned' = [instance |-> made, widget |-> widget]
  /\ pc' = "x11tests"
  /\ UNCHANGED <<plugin, ui, instance, required, libraries, uiVars, ui_descriptor,
                 missed, astray>>

(* _test_ui_instantiation, _test_ui_widget *)
TestX11 ==
  /\ pc = "x11tests"
  /\ verdict' = [instantiation |-> IF ui_instantiate # 0 THEN "crashed"
                                   ELSE IF ui_instance = Nobody THEN "failed" ELSE "pass",
                 widget |-> IF ui_widget = Nobody THEN "failed" ELSE "pass"]
  /\ pc' = "cleanup"
  /\ UNCHANGED <<plugin, ui, instance, required, libraries, lib, display, appVars, history>>

(* _wrap_cleanup: the instance goes to this UI's cleanup, if it has one;   *)
(* the widget is forgotten, the instance is not                            *)
CleanupKeepsWidget ==         \* variant: neither is
  /\ pc = "cleanup"
  /\ \E called \in BOOLEAN :
       /\ called => ui_instance # Nobody
       /\ alive' = IF called THEN alive \ {ui_instance} ELSE alive
       /\ astray' = (called /\ (ui_instance # ui \/ ui_instance \notin alive))
  /\ display' = FALSE
  /\ pc' = "jump"
  /\ UNCHANGED <<plugin, ui, instance, required, libraries, lib, verdict, appVars, returned,
                 missed>>
Cleanup ==
  /\ pc = "cleanup"
  /\ \E called \in BOOLEAN :
       /\ called => ui_instance # Nobody
       /\ alive' = IF called THEN alive \ {ui_instance} ELSE alive
       /\ astray' = (called /\ (ui_instance # ui \/ ui_instance \notin alive))
  /\ ui_widget' = Nobody /\ display' = FALSE
  /\ pc' = "jump"
  /\ UNCHANGED <<plugin, ui, instance, required, libraries, lib, verdict, ui_descriptor,
                 ui_instance, ui_instantiate, returned, missed>>

(* after a broken UI the handle is stale, unless its library has another   *)
(* user: dlclose then takes what is that user's                            *)
JumpKeeps ==                  \* variant: the library stays open
  /\ pc = "jump"
  /\ lib' = "none"
  /\ pc' = "uis"
  /\ UNCHANGED <<plugin, ui, instance, required, libraries, display, verdict, appVars, history>>
Jump ==
  /\ pc = "jump"
  /\ IF lib # "none" THEN Close(lib) ELSE UNCHANGED <<handles, stale>>
  /\ \/ pc' = "uis"
     \/ lib # "none" /\ handles[lib] = 0 /\ pc' = "crashed"
  /\ lib' = "none"
  /\ UNCHANGED <<plugin, ui, instance, required, orphans, broken, display, verdict,
                 appVars, history>>

(* the UI's code is at fault, or leaves by exit *)
Crash ==
  /\ pc \in {"library", "tests", "window", "cleanup"}
  /\ pc' = "crashed"
  /\ UNCHANGED <<plugin, ui, instance, required, libraries, uiVars, appVars, history>>

Next == \/ Instantiate
        \/ Free
        \/ OpenUi
        \/ BrokenUi
        \/ FindDescriptor
        \/ NoX11
        \/ OpenDisplay
        \/ NoInstantiate
        \/ InstantiateUi
        \/ TestX11
        \/ Cleanup
        \/ Jump
        \/ Crash

Spec == Init /\ [][Next]_vars
-----------------------------------------------------------------------------
TypeOK ==
  /\ pc \in {"main", "uis", "library", "tests", "window", "x11tests", "cleanup", "jump",
             "crashed", "aborted"}
  /\ plugin \in 0..Plugins /\ ui \in 0..Uis
  /\ instance \in BOOLEAN /\ display \in BOOLEAN
  /\ required \in Requirements \cup {NoRequirement}
  /\ lib \in Libraries \cup {"none"}
  /\ handles \in [Libraries -> Nat] /\ orphans \in Nat
  /\ broken \subseteq Libraries /\ stale \in BOOLEAN
  /\ {ui_descriptor, ui_instance, ui_widget} \subseteq Ui \cup {Nobody}
  /\ ui_instantiate \in {0, 1}
  /\ verdict.instantiation \in {"none", "pass", "failed", "crashed"}
  /\ verdict.widget \in {"none", "pass", "failed"}
  /\ alive \subseteq Ui
  /\ returned \in [instance : BOOLEAN, widget : BOOLEAN]
  /\ {missed, astray} \subseteq BOOLEAN
  /\ pc \in {"library", "tests", "window", "x11tests", "cleanup"} => lib \in Libraries

(* What is written into the plugin's lists ends within the arrays: there   *)
(* is room for every feature and option lv2lint knows, for the options     *)
(* that a bounded block length implies, and for the sentinels.             *)
ListsFit ==
  /\ FeatureEntries(required.features) <= MAX_FEATURES
  /\ OptionEntries(required.features, required.options) <= MAX_OPTS

(* Between two UIs no UI's library is open, and the plugins' own is held   *)
(* by the instance and by those whose child ended in instantiate or        *)
(* cleanup, so that its code does not go away under an instance - unless   *)
(* it was tried as a UI's and has no usable descriptor: then it is closed  *)
(* once too often.  Only a broken UI makes lv2lint close what is not open. *)
LibrariesBalanced ==
  /\ pc \in {"main", "uis"} =>
       /\ handles["ui"] = 0
       /\ "dsp" \notin broken => handles["dsp"] = orphans + IF instance THEN 1 ELSE 0
  /\ instance /\ "dsp" \notin broken => handles["dsp"] > 0
  /\ stale => broken # {}

(* What test_x11 says of a UI is about this UI, whatever those before it   *)
(* have left in app.                                                       *)
VerdictIsOwn ==
  verdict # NoVerdict =>
    /\ verdict.instantiation = IF missed THEN "crashed"
                               ELSE IF returned.instance THEN "pass" ELSE "failed"
    /\ verdict.widget = IF returned.widget THEN "pass" ELSE "failed"

(* A UI's cleanup is given the instance this UI has made - unless it could *)
(* not be instantiated: then it gets what an earlier UI has left.          *)
CleanupIsOwn == astray => missed

(* One UI at a time: what may be open or made where main is.               *)
Places ==
  /\ pc \in {"main", "uis"} => lib = "none"
  /\ pc = "main" => ~instance
  /\ pc \notin {"main", "uis"} => ui \in Ui

(* A library is open as often as there are users of it, except that the    *)
(* one of a broken UI is closed already.                                   *)
Users(b) == (IF b = "dsp" THEN orphans + (IF instance THEN 1 ELSE 0) ELSE 0)
            + (IF lib = b THEN 1 ELSE 0)
Handles ==
  /\ \A b \in Libraries \ broken : handles[b] = Users(b)
  /\ handles["ui"] <= Users("ui")
  /\ pc = "library" => handles[lib] > 0
  /\ stale => broken # {}

(* What app holds of a UI is known from the time it is instantiated to its *)
(* cleanup, and there is no widget outside of it.                          *)
Fresh ==
  /\ pc \in {"main", "uis", "library", "tests", "window", "jump"} => ui_widget = Nobody
  /\ pc \in {"library", "tests", "window"} =>
       verdict = NoVerdict /\ returned = NothingYet /\ ~missed
  /\ pc \in {"x11tests", "cleanup"} =>
       /\ missed <=> ui_instantiate # 0
       /\ ~missed => ui_instance = IF returned.instance THEN ui ELSE Nobody
       /\ ui_widget = IF returned.widget THEN ui ELSE Nobody
       /\ returned.instance => ui \in alive

(* the inductive invariant *)
IInv == /\ TypeOK
        /\ Places
        /\ Handles
        /\ Fresh
        /\ LibrariesBalanced
        /\ VerdictIsOwn
        /\ CleanupIsOwn

(* A plugin is given every feature it requires that lv2lint offers.        *)
RequiredAreGiven ==
  \A uri \in required.features :
    uri \in {FeatureUri(case) : case \in PluginFeatures} => uri \in Given(required.features)

(* assert(n_opts <= MAX_OPTS): no UI has lv2lint write more.               *)
UiOptionsFit == pc # "aborted"
=============================================================================
