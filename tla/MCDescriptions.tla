--------------------------- MODULE MCDescriptions -----------------------------
(* Every choice of three numbers for a control input, under every choice of *)
(* its properties, and the ports and parameters that the other tests are    *)
(* about, in every order; and every test that looks at metadata alone, with *)
(* every combination of the facts it asks for.  The two kinds of tests      *)
(* share no state, so a behaviour runs tests of one kind.                   *)
EXTENDS PortTests, MetadataTests

Node(kind, val) == [kind |-> kind, val |-> val]
MCNodes == {Absent, Node("int", 2), Node("float", 1), Node("float", 4),
            Node("bool", 2), Node("string", 0)}
Bounds == MCNodes \ {Node("bool", 2)}

Plain == [classes |-> {"InputPort", "ControlPort"},
          integer |-> FALSE, toggled |-> FALSE, rate |-> FALSE,
          dflt |-> Node("float", 1), min |-> Node("float", 1), max |-> Node("float", 4),
          points |-> <<>>, types |-> 0, hasMap |-> FALSE]

Numeric ==
  {[Plain EXCEPT !.dflt = d, !.min = lo, !.max = hi,
                 !.integer = f[1], !.toggled = f[2], !.rate = f[3]] :
     d \in MCNodes, lo \in Bounds, hi \in Bounds,
     f \in {<<FALSE, FALSE, FALSE>>, <<TRUE, FALSE, FALSE>>, <<FALSE, TRUE, FALSE>>,
            <<FALSE, FALSE, TRUE>>, <<TRUE, TRUE, FALSE>>}}

Pointed ==
  {[Plain EXCEPT !.points = p] :
     p \in [1..2 -> (0..1) \X (0..1)] \cup [1..3 -> {<<0, 0>>, <<1, 1>>, <<2, 0>>, <<2, 2>>}]}

Classes == {{"InputPort", "CVPort"}, {"OutputPort", "ControlPort"},
            {"InputPort", "AudioPort"}, {"InputPort", "AtomPort"},
            {"InputPort", "EventPort"}, {"InputPort", "MorphPort"},
            {"InputPort", "MorphPort", "ControlPort"},
            {"InputPort", "AutoMorphPort", "AudioPort", "CVPort"},
            {"InputPort", "MorphPort"} \cup DefaultTypes}
Classed ==
  {[Plain EXCEPT !.classes = k, !.types = n, !.hasMap = m] :
     k \in Classes, n \in 0..2, m \in BOOLEAN}

MCPorts == Numeric \cup Pointed \cup Classed
MCParameters ==
  [range : {"int", "float", "atom", "not_found", "not_a_uri", "not_an_atom"},
   min : Bounds, max : Bounds]
-----------------------------------------------------------------------------
Lists(set) == UNION {[1..n -> set] : n \in 0..2}
(* acyclic class hierarchies: a class's parent precedes it, or is unknown *)
Parents == {[Generator |-> "Plugin", Instrument |-> a, Mixer |-> b] :
              a \in {"Generator", "Foreign"}, b \in {"Plugin", "Generator", "Instrument"}}

Nodes1 == {[node |-> n] : n \in NodeKinds}
Yes == [yes : BOOLEAN]
Listed == [list : Lists({"a", "b", "x"}), defined : {{"a", "b"}, {"a"}}]
Iface(functions) ==
  {d \in [feature : BOOLEAN, listed : BOOLEAN, returned : BOOLEAN,
          threadsafe : BOOLEAN, state : BOOLEAN, has : SUBSET functions] :
     ~d.returned => d.has = {}}
PortKinds == [atom : BOOLEAN, patch : BOOLEAN, flow : {"input", "output", "none"}]

MCFacts(t) ==
  CASE t \in {"Plugin Name", "Plugin Author Name", "Plugin Author Email",
              "Plugin Author Homepage", "Plugin Shortdesc", "Port Comment", "Port Group",
              "Parameter Label", "Parameter Comment", "Parameter Unit"} -> Nodes1
    [] t \in {"Plugin License", "Plugin Project"} ->
         [node : NodeKinds, project : BOOLEAN, projects : NodeKinds]
    [] t = "Plugin Comment" -> [node : NodeKinds, description : NodeKinds]
    [] t \in {"Plugin Version Minor", "Plugin Version Micro"} ->
         [node : NodeKinds, version : -1..4]
    [] t = "Port Unit" -> [node : NodeKinds, control : BOOLEAN]
    [] t = "Plugin Class" ->
         [class : {"none", "Plugin", "Generator", "Instrument", "Mixer", "Foreign"},
          parent : Parents]
    [] t \in {"Plugin Features", "Port Class", "Port Properties"} -> Listed
    [] t = "Plugin Extension Data" ->
         [list : Lists({"a", "b", "x"}), defined : {{"a", "b"}, {"a"}},
          returned : SUBSET {"a", "b", Dummy}, instance : BOOLEAN]
    [] t = "Plugin Worker" -> Iface({"work", "work_response", "end_run"})
    [] t = "Plugin Options Iface" -> Iface({"get", "set"})
    [] t = "Plugin State" -> Iface({"save", "restore"})
    [] t = "Plugin Inline Display" -> Iface({"render"})
    [] t \in {"UI Idle Interface", "UI Show Interface", "UI Resize Interface"} -> Iface({})
    [] t = "Plugin Options Feature" ->
         [feature : BOOLEAN, required : 0..1, supported : 0..1]
    [] t = "Plugin Patch" ->
         [writables : 0..1, readables : 0..1, ports : Lists(PortKinds)]
    [] t = "UI Toolkit" ->
         {d \in [class : {"none", "ui:UI", "ui:X11UI", "ui:GtkUI", "Widget", "Odd"},
                 types : SUBSET {"ui:UI", "ui:X11UI", "ui:GtkUI", "Widget", "Odd"},
                 known : {{"ui:X11UI", "ui:GtkUI", "Widget"}}, shown : BOOLEAN] :
            IF d.types = {} THEN d.class = "none" ELSE d.class \in d.types}
    [] t = "Port Symbol" -> [symbols : [1..3 -> {"in", "out"}], port : 1..3]
    [] t = "Parameter Scale Points" ->
         [points : SUBSET [label : {"low", "high"}, val : 0..1]]
    [] OTHER -> Yes

DInit == /\ Init /\ port = CHOOSE p \in Ports : TRUE
         /\ InitMetadata
DNext ==
  \/ test = "none" /\ Next /\ UNCHANGED metadataVars
  \/ pc = "start" /\ Ask /\ UNCHANGED vars
  \/ pc = "start" /\ Answer /\ UNCHANGED vars
DSpec == DInit /\ [][DNext]_<<vars, metadataVars>>
===============================================================================
