------------------------------- MODULE LintHost -------------------------------
(***************************************************************************)
(* The lists of features and options that lv2lint hands to plugins (main)  *)
(* and to X11 UIs (test_x11).  Each is an array of fixed size on the       *)
(* stack, filled by a loop over what the plugin or UI requires, with one   *)
(* case for each feature or option lv2lint knows, and ended by a sentinel. *)
(***************************************************************************)
EXTENDS Integers, Sequences, FiniteSets

Elements(list) == {list[i] : i \in 1..Len(list)}

(* main: the cases of its two loops *)
PluginFeatures == Elements(<<
  "urid:map", "urid:unmap", "work:schedule", "log:log", "state:makePath",
  "state:freePath", "ui:resize", "opts:options", "uri-map", "lv2:isLive",
  "lv2:inPlaceBroken", "lv2:hardRTCapable", "pprop:supportsStrictBounds",
  "bufsz:boundedBlockLength", "bufsz:fixedBlockLength", "bufsz:powerOf2BlockLength",
  "bufsz:coarseBlockLength", "state:loadDefaultState", "state:threadSafeRestore",
  "idisp:queue_draw">>)
PluginOptions == Elements(<<
  "param:sampleRate", "bufsz:minBlockLength", "bufsz:maxBlockLength",
  "bufsz:nominalBlockLength", "bufsz:sequenceSize", "ui:updateRate">>)
MAX_FEATURES == 21
MAX_OPTS == 7

(* the URI of the feature that a case adds *)
FeatureUri(case) == IF case = "ui:resize" THEN "rsz:resize" ELSE case
Given(required) == {FeatureUri(case) : case \in required \cap PluginFeatures}

(* bufsz:boundedBlockLength brings two options that need not be required *)
BlockLengths(required) ==
  IF "bufsz:boundedBlockLength" \in required
  THEN {"bufsz:minBlockLength", "bufsz:maxBlockLength"} ELSE {}
ImpliedAlways(required, options) == BlockLengths(required)  \* variant: though they were
Implied(required, options) == BlockLengths(required) \ options

(* the entries written, sentinel and all *)
FeatureEntries(required) == Cardinality(required \cap PluginFeatures) + 1
OptionEntries(required, options) ==
  Cardinality(options \cap PluginOptions) + Cardinality(Implied(required, options)) + 1

(* test_x11: the same for a UI *)
UiFeatures == Elements(<<
  "urid:map", "urid:unmap", "ui:parent", "log:log", "ui:portMap", "ui:portSubscribe",
  "ui:touch", "ui:requestValue", "ui:resize", "instance-access", "data-access",
  "uri-map", "opts:options">>)
UiOptions == {"param:sampleRate", "ui:updateRate"}
UI_MAX_FEATURES == 13
UI_MAX_OPTS == 2
UiFeatureEntries(required) == Cardinality(required \cap UiFeatures) + 1
UiOptionEntries(options) == Cardinality(options \cap UiOptions) + 1
=============================================================================
