---------------------------- MODULE MetadataTests -----------------------------
(***************************************************************************)
(* The tests of plugins, UIs, ports and parameters that look at nothing    *)
(* but what the plugin says of itself in its RDF files and what its        *)
(* extension_data returns.  Each maps facts to at most one finding: a      *)
(* level, a message and, for some, a URI that the message names.  The      *)
(* facts are those that one test asks for; the order of its questions      *)
(* decides which of several findings is reported.                          *)
(***************************************************************************)
EXTENDS Integers, Sequences, FiniteSets

CONSTANT Facts(_)     \* the facts there may be, by test

(* What lilv promises of them: a collection can be gone through from its   *)
(* first element to its last, a count is none below zero, the port that is *)
(* looked at is one of the plugin's, and the class of a UI is one of its   *)
(* types, "none" if it has no type.                                        *)
ListTests == {"Plugin Features", "Plugin Extension Data", "Port Class", "Port Properties"}
ASSUME FactsAssumption ==
  /\ \A t \in ListTests : \A d \in Facts(t) : d.list \in Seq({d.list[i] : i \in DOMAIN d.list})
  /\ \A d \in Facts("Plugin Patch") : d.writables \in Nat /\ d.readables \in Nat
  /\ \A d \in Facts("Port Symbol") : d.port \in DOMAIN d.symbols
  /\ \A d \in Facts("UI Toolkit") :
       IF d.types = {} THEN d.class = "none" ELSE d.class \in d.types \ {"none"}

VARIABLES
  test, facts,        \* the test that runs, and what it finds
  finding             \* what it reports

metadataVars == <<test, facts, finding>>

Pending == [level |-> "pending", msg |-> "", urn |-> ""]
Pass == [level |-> "pass", msg |-> "", urn |-> ""]
Fail(msg) == [level |-> "fail", msg |-> msg, urn |-> ""]
Warn(msg) == [level |-> "warn", msg |-> msg, urn |-> ""]
Note(msg) == [level |-> "note", msg |-> msg, urn |-> ""]
Of(f, uri) == [f EXCEPT !.urn = uri]

(* a chain of else-ifs: the first condition that holds decides *)
Cascade(rules) ==
  LET holds == {i \in 1..Len(rules) : rules[i][1]}
  IN IF holds = {} THEN Pass
     ELSE rules[CHOOSE i \in holds : \A j \in holds : i <= j][2]
-----------------------------------------------------------------------------
(* A node is absent, a string (perhaps empty), a URI, a number, a blank    *)
(* node with the type of a unit, or another one.  lilv gives no string and *)
(* no URI as NULL, so that the branches for empty ones are never taken.    *)
NodeKinds == {"absent", "string", "empty", "uri", "number", "unit", "blank"}
IsString(node) == node \in {"string", "empty"}
TextRules(node, level) ==
  << <<node = "absent", level>>,
     <<~IsString(node), Fail("not_a_string")>> >>
UriRules(node, level) ==
  << <<node = "absent", level>>,
     <<node # "uri", Fail("not_a_URI")>> >>

TestName(d) == Cascade(TextRules(d.node, Fail("not_found")))
TestAuthorName(d) == Cascade(TextRules(d.node, Warn("not_found")))
TestShortdesc(d) == Cascade(TextRules(d.node, Note("not_found")))
TestPortComment(d) == Cascade(TextRules(d.node, Note("not_found")))
TestLabel(d) == Cascade(TextRules(d.node, Fail("not_found")))
TestParameterComment(d) == Cascade(TextRules(d.node, Note("not_found")))
TestEmail(d) == Cascade(UriRules(d.node, Warn("not_found")))
TestHomepage(d) == Cascade(UriRules(d.node, Warn("not_found")))
TestGroup(d) == Cascade(UriRules(d.node, Note("not_found")))

UnitRules(node) ==
  << <<node = "absent", Note("not_found")>>,
     <<node \notin {"uri", "unit"}, Fail("not_a_URI_or_object")>> >>
TestPortUnit(d) == IF d.control THEN Cascade(UnitRules(d.node)) ELSE Pass
TestParameterUnit(d) == Cascade(UnitRules(d.node))

(* the license of the plugin, or else of its project *)
TestLicense(d) ==
  Cascade(UriRules(IF d.node = "absent" /\ d.project THEN d.projects ELSE d.node,
                   Warn("not_found")))
TestProject(d) ==
  Cascade(<< <<~d.project, Note("project_not_found")>> >>
          \o TextRules(d.node, Warn("not_found")))
(* a comment or, failing that, a description *)
TestComment(d) ==
  Cascade(<< <<d.node = "absent" /\ d.description = "absent", Note("not_found")>>,
             <<d.node # "absent" /\ ~IsString(d.node), Fail("comment_not_a_string")>>,
             <<d.node = "absent" /\ ~IsString(d.description),
               Fail("description_not_a_string")>> >>)

Odd(n) == n % 2 # 0
TestVersionMinor(d) ==
  Cascade(<< <<d.node = "absent", Fail("not_found")>>,
             <<d.node # "number", Fail("not_an_integer")>>,
             <<Odd(d.version) \/ d.version = 0, Note("unstable")>> >>)
TestVersionMicro(d) ==
  Cascade(<< <<d.node = "absent", Fail("not_found")>>,
             <<d.node # "number", Fail("not_an_integer")>>,
             <<Odd(d.version), Note("unstable")>> >>)
-----------------------------------------------------------------------------
(* Classes, features, properties: is what is named defined somewhere?      *)
ClassMatchDirect(parent, base, class) ==    \* variant: no grandchildren
  base = class \/ (class \in DOMAIN parent /\ parent[class] = base)

(* Down from base, children of children, as far as the recursion gets: the *)
(* class is in every set that has base and, with a class, its children.    *)
ClassMatch(parent, base, class) ==
  \A line \in SUBSET ({base} \cup DOMAIN parent) :
    /\ base \in line
    /\ \A child \in DOMAIN parent : parent[child] \in line => child \in line
    => class \in line

TestClass(d) ==
  Cascade(<< <<d.class = "none", Fail("type_not_found")>>,
             <<d.class = "Plugin", Warn("type_is_just_lv2_Plugin")>>,
             <<~ClassMatch(d.parent, "Plugin", d.class), Of(Fail("type_not_valid"), d.class)>> >>)

(* the first URI of a list that is not in a set *)
FirstNotIn(list, defined, f) ==
  Cascade([i \in DOMAIN list |-> <<list[i] \notin defined, Of(f, list[i])>>])
TestFeatures(d) == FirstNotIn(d.list, d.defined, Fail("feature_not_valid"))
TestPortClass(d) == FirstNotIn(d.list, d.defined, Fail("port_class_not_valid"))
TestProperties(d) == FirstNotIn(d.list, d.defined, Fail("property_not_valid"))

(* The plugin is asked for an extension that there is not, then for each   *)
(* that it lists; a finding about these replaces the first.                *)
Dummy == "lv2lint#dummy"
TestExtensions(d) ==
  LET listed == Cascade([k \in 1..2 * Len(d.list) |->
                  LET uri == d.list[(k + 1) \div 2]
                  IN IF k % 2 = 1
                     THEN <<uri \notin d.defined, Of(Fail("extension_not_valid"), uri)>>
                     ELSE <<d.instance /\ uri \notin d.returned,
                            Of(Fail("extension_data_not_returned"), uri)>>])
  IN IF listed # Pass THEN listed
     ELSE IF d.instance /\ Dummy \in d.returned
     THEN Of(Fail("extension_data_not_NULL"), Dummy) ELSE Pass
-----------------------------------------------------------------------------
(* Extensions with an interface: used if listed or returned.  has is the   *)
(* set of functions in the interface.                                      *)
Missing(f) == Of(Fail("function_missing"), f)
TestWorkerListedOnly(d) ==    \* variant: what is merely returned is not looked at
  IF ~(d.feature \/ d.listed) THEN Pass
  ELSE Cascade(<< <<~d.returned, Fail("interface_not_returned")>>,
                  <<"work" \notin d.has, Missing("work")>>,
                  <<"work_response" \notin d.has, Missing("work_response")>>,
                  <<"end_run" \notin d.has, Of(Note("function_missing"), "end_run")>>,
                  <<~d.feature, Fail("feature_not_defined")>>,
                  <<~d.listed, Fail("interface_not_defined")>> >>)
TestWorker(d) ==
  IF ~(d.feature \/ d.listed \/ d.returned) THEN Pass
  ELSE Cascade(<< <<~d.returned, Fail("interface_not_returned")>>,
                  <<"work" \notin d.has, Missing("work")>>,
                  <<"work_response" \notin d.has, Missing("work_response")>>,
                  <<"end_run" \notin d.has, Of(Note("function_missing"), "end_run")>>,
                  <<~d.feature, Fail("feature_not_defined")>>,
                  <<~d.listed, Fail("interface_not_defined")>> >>)
TestOptionsIface(d) ==
  IF ~(d.listed \/ d.returned) THEN Pass
  ELSE Cascade(<< <<~d.returned, Fail("interface_not_returned")>>,
                  <<"get" \notin d.has, Missing("get")>>,
                  <<"set" \notin d.has, Missing("set")>>,
                  <<~d.listed, Fail("interface_not_defined")>> >>)
TestIdisp(d) ==
  IF ~(d.feature \/ d.listed \/ d.returned) THEN Pass
  ELSE Cascade(<< <<~d.returned, Fail("interface_not_returned")>>,
                  <<"render" \notin d.has, Missing("render")>>,
                  <<~d.feature, Fail("feature_not_defined")>>,
                  <<~d.listed, Fail("interface_not_defined")>> >>)
TestState(d) ==
  IF ~(d.feature \/ d.threadsafe \/ d.state \/ d.listed \/ d.returned) THEN Pass
  ELSE Cascade(<< <<~d.returned, Fail("interface_not_returned")>>,
                  <<"save" \notin d.has, Missing("save")>>,
                  <<"restore" \notin d.has, Missing("restore")>>,
                  <<~d.listed, Fail("interface_not_defined")>>,
                  <<d.state /\ ~d.feature, Fail("feature_not_defined")>>,
                  <<d.feature /\ ~d.state, Warn("state_not_defined")>> >>)
TestIdle(d) ==
  Cascade(<< <<(d.listed \/ d.returned) /\ ~d.feature, Fail("feature_not_defined")>>,
             <<(d.feature \/ d.returned) /\ ~d.listed, Fail("interface_not_defined")>>,
             <<(d.listed \/ d.feature) /\ ~d.returned, Fail("interface_not_returned")>> >>)
TestShow(d) ==
  Cascade(<< <<d.returned /\ ~d.listed, Fail("interface_not_defined")>>,
             <<d.listed /\ ~d.returned, Fail("interface_not_returned")>> >>)
TestResizeInterface(d) == IF d.returned \/ d.listed THEN Fail("deprecated") ELSE Pass

(* The last branch is for plugins with neither the feature nor options,    *)
(* but asks whether they require some.                                     *)
TestOptionsFeature(d) ==
  LET n == d.required + d.supported
  IN IF d.feature \/ n > 0
     THEN Cascade(<< <<~d.feature, Fail("feature_not_defined")>>,
                     <<n = 0, Warn("options_not_defined")>> >>)
     ELSE IF d.required > 0 THEN Warn("required_options_defined") ELSE Pass
-----------------------------------------------------------------------------
(* One question each *)
If(condition, f) == IF condition THEN f ELSE Pass
TestVerification(d) == If(~d.yes, Fail("failed_lilv_plugin_verify"))
TestUriMap(d) == If(d.yes, Fail("deprecated"))
TestHardRt(d) == If(~d.yes, Warn("not_advertized_as_real-time_safe"))
TestInPlaceBroken(d) == If(d.yes, Warn("cannot_process_in-place"))
TestIsLive(d) == If(~d.yes, Note("not_meant_for_live_usage"))
TestFixedBlock(d) == If(d.yes, Warn("fixed_block_length"))
TestPowerOf2Block(d) == If(d.yes, Warn("power_of_2_block_length"))
TestInstanceAccess(d) == If(d.yes, Warn("instance-access"))
TestDataAccess(d) == If(d.yes, Warn("data-access"))
TestMixed(d) == If(d.yes, Warn("mixed_DSP_and_UI_code"))
TestResident(d) == If(d.yes, Fail("deprecated"))
TestUiExtensionData(d) == If(d.yes, Of(Fail("extension_data_not_NULL"), Dummy))
TestResizeFeature(d) == If(d.yes, Fail("deprecated"))

(* a UI's class: one of the types it has, which lilv picks *)
TestToolkit(d) ==
  Cascade(<< <<d.class = "none", Fail("toolkit_not_given")>>,
             <<d.class \notin d.known \cup {"ui:UI"}, Of(Fail("toolkit_unknown"), d.class)>>,
             <<d.class = "Widget", Warn("unofficial_external_UI")>>,
             <<d.shown /\ "ui:X11UI" \notin d.types, Warn("official_external_UI")>>,
             <<"ui:X11UI" \notin d.types, Of(Warn("non-native_toolkit"), d.class)>> >>)

(* the ports for patch messages, counted by direction *)
Carries(port) == port.atom /\ port.patch
TestPatch(d) ==
  LET parameters == d.writables + d.readables
      inputs == {i \in DOMAIN d.ports : Carries(d.ports[i]) /\ d.ports[i].flow = "input"}
      outputs == {i \in DOMAIN d.ports : Carries(d.ports[i]) /\ d.ports[i].flow = "output"}
  IN IF parameters = 0 /\ inputs = {} /\ outputs = {} THEN Pass
     ELSE Cascade(<< <<parameters = 0, Note("no_parameters")>>,
                     <<inputs = {}, Fail("no_patch_Message_on_any_input")>>,
                     <<outputs = {}, Fail("no_patch_Message_on_any_output")>> >>)

(* is there another port with this port's symbol? *)
TestSymbolNext(d) ==          \* variant: only the ports after it
  If(\E i \in DOMAIN d.symbols : i > d.port /\ d.symbols[i] = d.symbols[d.port],
     Fail("not_unique"))
TestSymbol(d) ==
  If(\E i \in DOMAIN d.symbols : i # d.port /\ d.symbols[i] = d.symbols[d.port],
     Fail("not_unique"))

(* A parameter's scale points: a point knows itself by its label.          *)
TestParameterPoints(d) ==
  If(\E p, q \in d.points : p.label # q.label /\ p.val = q.val, Fail("values_not_unique"))
-----------------------------------------------------------------------------
(* the tables of tests: of the plugin, its UIs, ports and parameters *)
Result(t, d) ==
  CASE t = "Plugin Verification" -> TestVerification(d)
    [] t = "Plugin Name" -> TestName(d)
    [] t = "Plugin License" -> TestLicense(d)
    [] t = "Plugin Author Name" -> TestAuthorName(d)
    [] t = "Plugin Author Email" -> TestEmail(d)
    [] t = "Plugin Author Homepage" -> TestHomepage(d)
    [] t = "Plugin Version Minor" -> TestVersionMinor(d)
    [] t = "Plugin Version Micro" -> TestVersionMicro(d)
    [] t = "Plugin Project" -> TestProject(d)
    [] t = "Plugin Class" -> TestClass(d)
    [] t = "Plugin Features" -> TestFeatures(d)
    [] t = "Plugin Extension Data" -> TestExtensions(d)
    [] t = "Plugin Worker" -> TestWorker(d)
    [] t = "Plugin Options Iface" -> TestOptionsIface(d)
    [] t = "Plugin Options Feature" -> TestOptionsFeature(d)
    [] t = "Plugin URI-Map" -> TestUriMap(d)
    [] t = "Plugin State" -> TestState(d)
    [] t = "Plugin Comment" -> TestComment(d)
    [] t = "Plugin Shortdesc" -> TestShortdesc(d)
    [] t = "Plugin Inline Display" -> TestIdisp(d)
    [] t = "Plugin Hard RT Capable" -> TestHardRt(d)
    [] t = "Plugin In Place Broken" -> TestInPlaceBroken(d)
    [] t = "Plugin Is Live" -> TestIsLive(d)
    [] t = "Plugin Fixed Block" -> TestFixedBlock(d)
    [] t = "Plugin PowerOf2 Block" -> TestPowerOf2Block(d)
    [] t = "Plugin Patch" -> TestPatch(d)
    [] t = "UI Instance Access" -> TestInstanceAccess(d)
    [] t = "UI Data Access" -> TestDataAccess(d)
    [] t = "UI Mixed DSP/UI" -> TestMixed(d)
    [] t = "UI SOName" -> TestResident(d)
    [] t = "UI Extension Data" -> TestUiExtensionData(d)
    [] t = "UI Idle Interface" -> TestIdle(d)
    [] t = "UI Show Interface" -> TestShow(d)
    [] t = "UI Resize Interface" -> TestResizeInterface(d)
    [] t = "UI Resize Feature" -> TestResizeFeature(d)
    [] t = "UI Toolkit" -> TestToolkit(d)
    [] t = "Port Class" -> TestPortClass(d)
    [] t = "Port Properties" -> TestProperties(d)
    [] t = "Port Comment" -> TestPortComment(d)
    [] t = "Port Group" -> TestGroup(d)
    [] t = "Port Unit" -> TestPortUnit(d)
    [] t = "Port Symbol" -> TestSymbol(d)
    [] t = "Parameter Label" -> TestLabel(d)
    [] t = "Parameter Comment" -> TestParameterComment(d)
    [] t = "Parameter Unit" -> TestParameterUnit(d)
    [] t = "Parameter Scale Points" -> TestParameterPoints(d)

TestNames == {
  "Plugin Verification", "Plugin Name", "Plugin License", "Plugin Author Name",
  "Plugin Author Email", "Plugin Author Homepage", "Plugin Version Minor",
  "Plugin Version Micro", "Plugin Project", "Plugin Class", "Plugin Features",
  "Plugin Extension Data", "Plugin Worker", "Plugin Options Iface",
  "Plugin Options Feature", "Plugin URI-Map", "Plugin State", "Plugin Comment",
  "Plugin Shortdesc", "Plugin Inline Display", "Plugin Hard RT Capable",
  "Plugin In Place Broken", "Plugin Is Live", "Plugin Fixed Block",
  "Plugin PowerOf2 Block", "Plugin Patch", "UI Instance Access", "UI Data Access",
  "UI Mixed DSP/UI", "UI SOName", "UI Extension Data", "UI Idle Interface",
  "UI Show Interface", "UI Resize Interface", "UI Resize Feature", "UI Toolkit",
  "Port Class", "Port Properties", "Port Comment", "Port Group", "Port Unit",
  "Port Symbol", "Parameter Label", "Parameter Comment", "Parameter Unit",
  "Parameter Scale Points"}

InitMetadata == test = "none" /\ facts = <<>> /\ finding = Pass

(* test_plugin, test_ui, test_port, test_parameter: the next test, its result *)
Ask ==
  /\ finding # Pending
  /\ test' \in TestNames
  /\ facts' \in Facts(test')
  /\ finding' = Pending

Answer ==
  /\ finding = Pending
  /\ finding' = Result(test, facts)
  /\ UNCHANGED <<test, facts>>

MetadataSpec == InitMetadata /\ [][Ask \/ Answer]_metadataVars
-----------------------------------------------------------------------------
(* What the messages say, each as a statement about the facts, in no order *)
(* and whatever else is true: for the tests that ask several questions.    *)
Chosen(set) == {f[2] : f \in {g \in set : g[1]}}
TextTruths(node, level) ==
  Chosen({<<node = "absent", level>>, <<node = "empty", Fail("empty")>>,
          <<node # "absent" /\ ~IsString(node), Fail("not_a_string")>>})
InterfaceTruths(d, used, functions) ==
  Chosen({<<used /\ ~d.returned, Fail("interface_not_returned")>>,
          <<used /\ ~d.listed, Fail("interface_not_defined")>>}
         \cup {<<d.returned /\ f \notin d.has, Missing(f)>> : f \in functions})
FeatureTruths(d, used) == Chosen({<<used /\ ~d.feature, Fail("feature_not_defined")>>})
NotInTruths(d, f) == {Of(f, uri) : uri \in {d.list[i] : i \in DOMAIN d.list} \ d.defined}

(* the parent of a class, the parent's parent, and so on *)
ParentsOf(parent, classes) == {parent[c] : c \in classes \cap DOMAIN parent}
Ancestors(parent, class) ==
  {a \in ParentsOf(parent, DOMAIN parent) :
     \A set \in SUBSET ParentsOf(parent, DOMAIN parent) :
       ParentsOf(parent, {class} \cup set) \subseteq set => a \in set}

Several == {
  "Plugin License", "Plugin Project", "Plugin Comment", "Plugin Version Minor",
  "Plugin Class", "Plugin Features", "Plugin Extension Data", "Plugin Worker",
  "Plugin Options Iface", "Plugin Options Feature", "Plugin State",
  "Plugin Inline Display", "Plugin Patch", "UI Idle Interface", "UI Show Interface",
  "UI Toolkit", "Port Class", "Port Symbol", "Parameter Scale Points"}

Truths(t, d) ==
  CASE t = "Plugin License" ->
         LET found == {d.node} \cup (IF d.node = "absent" /\ d.project THEN {d.projects} ELSE {})
         IN Chosen({<<found = {"absent"}, Warn("not_found")>>,
                    <<found \ {"absent", "uri"} # {}, Fail("not_a_URI")>>})
    [] t = "Plugin Project" ->
         IF d.project THEN TextTruths(d.node, Warn("not_found")) ELSE {Note("project_not_found")}
    [] t = "Plugin Comment" ->
         Chosen({<<{d.node, d.description} = {"absent"}, Note("not_found")>>,
                 <<d.node \notin {"absent", "string", "empty"}, Fail("comment_not_a_string")>>,
                 <<d.description \notin {"absent", "string", "empty"},
                   Fail("description_not_a_string")>>})
    [] t = "Plugin Version Minor" ->
         Chosen({<<d.node = "absent", Fail("not_found")>>,
                 <<d.node \notin {"absent", "number"}, Fail("not_an_integer")>>,
                 <<d.node = "number" /\ (Odd(d.version) \/ d.version = 0), Note("unstable")>>})
    [] t = "Plugin Class" ->
         Chosen({<<d.class = "none", Fail("type_not_found")>>,
                 <<d.class = "Plugin", Warn("type_is_just_lv2_Plugin")>>,
                 <<"Plugin" \notin Ancestors(d.parent, d.class) /\ d.class \notin {"none", "Plugin"},
                   Of(Fail("type_not_valid"), d.class)>>})
    [] t = "Plugin Features" -> NotInTruths(d, Fail("feature_not_valid"))
    [] t = "Port Class" -> NotInTruths(d, Fail("port_class_not_valid"))
    [] t = "Plugin Extension Data" ->
         NotInTruths(d, Fail("extension_not_valid"))
         \cup (IF ~d.instance THEN {}
               ELSE {Of(Fail("extension_data_not_returned"), uri) :
                       uri \in {d.list[i] : i \in DOMAIN d.list} \ d.returned}
                    \cup {Of(Fail("extension_data_not_NULL"), uri) : uri \in {Dummy} \cap d.returned})
    [] t = "Plugin Worker" ->
         LET used == d.feature \/ d.listed \/ d.returned
         IN InterfaceTruths(d, used, {"work", "work_response"}) \cup FeatureTruths(d, used)
            \cup Chosen({<<d.returned /\ "end_run" \notin d.has,
                           Of(Note("function_missing"), "end_run")>>})
    [] t = "Plugin Options Iface" ->
         InterfaceTruths(d, d.listed \/ d.returned, {"get", "set"})
    [] t = "Plugin Inline Display" ->
         LET used == d.feature \/ d.listed \/ d.returned
         IN InterfaceTruths(d, used, {"render"}) \cup FeatureTruths(d, used)
    [] t = "Plugin State" ->
         InterfaceTruths(d, d.feature \/ d.threadsafe \/ d.state \/ d.listed \/ d.returned,
                         {"save", "restore"})
         \cup FeatureTruths(d, d.state)
         \cup Chosen({<<d.feature /\ ~d.state, Warn("state_not_defined")>>})
    [] t = "UI Idle Interface" ->
         LET used == d.feature \/ d.listed \/ d.returned
         IN InterfaceTruths(d, used, {}) \cup FeatureTruths(d, used)
    [] t = "UI Show Interface" -> InterfaceTruths(d, d.listed \/ d.returned, {})
    [] t = "Plugin Options Feature" ->
         LET n == d.required + d.supported
         IN FeatureTruths(d, n > 0)
            \cup Chosen({<<d.feature /\ n = 0, Warn("options_not_defined")>>,
                         <<d.required > 0, Warn("required_options_defined")>>})
    [] t = "Plugin Patch" ->
         LET flows == {d.ports[i].flow : i \in {j \in DOMAIN d.ports : Carries(d.ports[j])}}
             lists == d.writables + d.readables > 0
         IN Chosen({<<~lists /\ flows \cap {"input", "output"} # {}, Note("no_parameters")>>,
                    <<lists /\ "input" \notin flows, Fail("no_patch_Message_on_any_input")>>,
                    <<lists /\ "output" \notin flows, Fail("no_patch_Message_on_any_output")>>})
    [] t = "UI Toolkit" ->
         Chosen({<<d.types = {}, Fail("toolkit_not_given")>>,
                 <<d.class = "Widget", Warn("unofficial_external_UI")>>,
                 <<d.shown /\ "ui:X11UI" \notin d.types, Warn("official_external_UI")>>}
                \cup {<<c \notin d.known \cup {"ui:UI"}, Of(Fail("toolkit_unknown"), c)>> : c \in d.types}
                \cup {<<"ui:X11UI" \notin d.types, Of(Warn("non-native_toolkit"), c)>> : c \in d.types})
    [] t = "Port Symbol" ->
         Chosen({<<\E i, j \in DOMAIN d.symbols :
                     i # j /\ d.port \in {i, j} /\ d.symbols[i] = d.symbols[j], Fail("not_unique")>>})
    [] t = "Parameter Scale Points" ->
         Chosen({<<\E p, q \in d.points : p # q /\ p.val = q.val, Fail("values_not_unique")>>})

(* What the code overlooks: an empty text, which lilv does not give as     *)
(* NULL; a description next to a comment; required options; values of      *)
(* scale points with one label; types that lilv has not picked.            *)
Overlooked(t, d) ==
  {Fail("empty"), Warn("required_options_defined")}
  \cup (IF t = "Plugin Comment" /\ d.node # "absent" THEN {Fail("description_not_a_string")} ELSE {})
  \cup (IF t = "UI Toolkit" THEN {Of(Fail("toolkit_unknown"), c) : c \in d.types \ {d.class}} ELSE {})
  \cup (IF t = "Parameter Scale Points"
            /\ \A p, q \in d.points : p.val = q.val => p.label = q.label
        THEN {Fail("values_not_unique")} ELSE {})

(* What a test has reported is its result for the facts it has found.      *)
ResultOfFacts ==
  IF test = "none" THEN finding = Pass
  ELSE /\ test \in TestNames
       /\ facts \in Facts(test)
       /\ finding \in {Pending, Result(test, facts)}

Rank == [pass |-> 0, note |-> 1, warn |-> 2, fail |-> 3]
Answered == test \in Several /\ finding # Pending

(* A finding is true of the plugin, to the URI it names: whatever the      *)
(* order of the questions, no branch is taken for the wrong reason.        *)
FindingIsTrue == Answered => finding = Pass \/ finding \in Truths(test, facts)

(* Nothing worse is true of the plugin than what is reported: the order of *)
(* the questions lets no failure hide behind a lesser finding, except that *)
(* the note of a missing end_run hides what the metadata lack.             *)
WorstIsTold ==
  Answered =>
    \A f \in Truths(test, facts) \ Overlooked(test, facts) :
      \/ Rank[f.level] <= Rank[finding.level]
      \/ finding = Of(Note("function_missing"), "end_run")

(* "opts:required options defined" is said of a plugin that requires some. *)
RequiredIsReported ==
  (finding # Pending /\ test = "Plugin Options Feature" /\ facts.required > 0) => finding # Pass
=============================================================================
