------------------------------- MODULE MCLintUI -------------------------------
(* Plugins that require nothing, one feature, or all of them or the bounded *)
(* block length with every set of options; UIs that require none, all or    *)
(* all but one of the features, with every set of options.                  *)
EXTENDS LintUI

Bounded == "bufsz:boundedBlockLength"
MCRequirements ==
  {[features |-> f, options |-> o] :
     f \in {{Bounded}, PluginFeatures}, o \in SUBSET PluginOptions}
  \cup {[features |-> {f}, options |-> {}] : f \in PluginFeatures \cup {"rsz:resize"}}
  \cup {NoRequirement}
MCUiRequirements ==
  {[features |-> f, options |-> o] :
     f \in {{}, UiFeatures, UiFeatures \ {"urid:map"}}, o \in SUBSET UiOptions}
===============================================================================
