------------------------------ MODULE PortTests -------------------------------
(***************************************************************************)
(* The tests of ports and parameters that work on numbers and pass them on *)
(* to each other: test_port and test_parameter run their tests in the      *)
(* order of a table, the earlier ones leave what they parsed in app->dflt, *)
(* app->min and app->max, and the range tests compare what they find there *)
(* - the same three fields for one port, parameter and plugin after the    *)
(* other.  Also the tests for atom, event and morph ports and scale points.*)
(*                                                                         *)
(* A number is counted in halves, so that an odd one has no whole value.   *)
(* The three fields are unions; no test reads a member that the last test  *)
(* to write the field has not written, so one integer stands for each.     *)
(***************************************************************************)
EXTENDS Integers, Sequences

CONSTANTS Nodes,       \* what lilv finds for lv2:default and the like
          Ports,       \* the ports there may be
          Parameters,  \* and the parameters: [range, min, max]
          Rate         \* 44100: the factor for lv2:sampleRate

Kinds == {"int", "float", "bool", "string"}
Absent == [kind |-> "absent", val |-> 0]

ASSUME PortAssumption ==
  /\ Absent \in Nodes
  /\ \A node \in Nodes \ {Absent} :
       /\ node \in [kind : Kinds, val : Int]
       /\ node.kind = "int" => node.val % 2 = 0
       /\ node.kind = "bool" => node.val \in {0, 2}
  /\ \A p \in Ports : /\ {p.dflt, p.min, p.max} \subseteq Nodes
                      /\ p.points \in Seq(Int \X Int)
                      /\ p.types \in Nat
  /\ \A p \in Parameters : {p.min, p.max} \subseteq Nodes
  /\ Ports \cap Parameters = {}
  /\ Rate \in Nat \ {0}

VARIABLES
  pc,                \* start, next, or the test of the current port or parameter
  dflt, min, max,    \* app->dflt, app->min, app->max
  port,              \* what is being tested
  found              \* the finding of each test that has run, by test

vars == <<pc, dflt, min, max, port, found>>

Tests == {"default", "minimum", "maximum", "range", "event", "atom", "morph",
          "points", "parameter"}
None == "none"
-----------------------------------------------------------------------------
IsA(p, class) == class \in p.classes
IsControl(p) == IsA(p, "ControlPort") \/ IsA(p, "CVPort")
HasNumbers(p) == IsControl(p) /\ IsA(p, "InputPort")

(* _test_num: the value a node leaves behind, if any, ... *)
IsNumber(node) == node.kind \in {"int", "float", "bool"}
Value(node, fallback) == IF IsNumber(node) THEN node.val ELSE fallback

(* ... and the finding.  Whatever is neither an int nor a float passes for *)
(* a boolean.                                                              *)
Whole(node) == node.val % 2 = 0
Boolean(node) == node.val \in {0, 2}
Num(node, integer, toggled) ==
  IF node = Absent THEN "not_found"
  ELSE IF integer
       THEN IF node.kind = "int" THEN None
            ELSE IF node.kind = "float" /\ ~Whole(node) THEN "not_a_whole_value"
            ELSE "not_an_int"
  ELSE IF toggled
       THEN IF node.kind \notin {"int", "float"} THEN None
            ELSE IF Boolean(node) THEN "not_a_bool" ELSE "not_a_boolean_value"
  ELSE IF node.kind = "float" THEN None ELSE "not_a_float"

Init ==
  /\ pc = "start"
  /\ dflt = 0 /\ min = 0 /\ max = 0
  /\ port \in Ports
  /\ found = [t \in Tests |-> None]

Ran(test, finding, next) ==
  /\ found' = [found EXCEPT ![test] = finding]
  /\ pc' = next
  /\ UNCHANGED port

NextPort ==
  /\ pc \in {"start", "next"}
  /\ port' \in Ports
  /\ found' = [t \in Tests |-> None]
  /\ pc' = "default"
  /\ UNCHANGED <<dflt, min, max>>

TestDefault ==
  /\ pc = "default"
  /\ dflt' = IF HasNumbers(port) THEN Value(port.dflt, 0) ELSE 0
  /\ Ran("default",
         IF HasNumbers(port) THEN Num(port.dflt, port.integer, port.toggled) ELSE None,
         "minimum")
  /\ UNCHANGED <<min, max>>

(* a toggled port needs neither bound: they are the fall-backs 0 and 1 *)
TestMinimumStale ==           \* variant: no fall-back
  /\ pc = "minimum"
  /\ min' = IF HasNumbers(port) /\ ~port.toggled THEN Value(port.min, min) ELSE min
  /\ Ran("minimum",
         IF HasNumbers(port) /\ ~port.toggled THEN Num(port.min, port.integer, FALSE)
         ELSE None,
         "maximum")
  /\ UNCHANGED <<dflt, max>>
TestMinimum ==
  /\ pc = "minimum"
  /\ min' = IF HasNumbers(port) /\ ~port.toggled THEN Value(port.min, 0) ELSE 0
  /\ Ran("minimum",
         IF HasNumbers(port) /\ ~port.toggled THEN Num(port.min, port.integer, FALSE)
         ELSE None,
         "maximum")
  /\ UNCHANGED <<dflt, max>>

TestMaximum ==
  /\ pc = "maximum"
  /\ max' = IF HasNumbers(port) /\ ~port.toggled THEN Value(port.max, 2) ELSE 2
  /\ Ran("maximum",
         IF HasNumbers(port) /\ ~port.toggled THEN Num(port.max, port.integer, FALSE)
         ELSE None,
         "range")
  /\ UNCHANGED <<dflt, min>>

TestRangeBelow ==             \* variant: only the lower bound
  /\ pc = "range"
  /\ LET scale == IF port.rate THEN Rate ELSE 1
     IN Ran("range",
            IF IsControl(port) /\ ~(min * scale <= dflt) THEN "invalid" ELSE None,
            "event")
  /\ UNCHANGED <<dflt, min, max>>
TestRangeScaled ==            \* variant: the bounds are scaled in place
  /\ pc = "range"
  /\ LET scale == IF port.rate THEN Rate ELSE 1
     IN /\ min' = min * scale /\ max' = max * scale
        /\ Ran("range",
               IF IsControl(port) /\ ~(min' <= dflt /\ dflt <= max') THEN "invalid" ELSE None,
               "event")
  /\ UNCHANGED dflt
TestRange ==
  /\ pc = "range"
  /\ LET scale == IF port.rate THEN Rate ELSE 1
     IN Ran("range",
            IF IsControl(port) /\ ~(min * scale <= dflt /\ dflt <= max * scale)
            THEN "invalid" ELSE None,
            "event")
  /\ UNCHANGED <<dflt, min, max>>

TestEvent ==
  /\ pc = "event"
  /\ Ran("event", IF IsA(port, "EventPort") THEN "deprecated" ELSE None, "atom")
  /\ UNCHANGED <<dflt, min, max>>

TestAtom ==
  /\ pc = "atom"
  /\ Ran("atom", IF IsA(port, "AtomPort") /\ ~port.hasMap THEN "requires_map" ELSE None,
         "morph")
  /\ UNCHANGED <<dflt, min, max>>

DefaultTypes == {"ControlPort", "AudioPort", "CVPort", "AtomPort", "EventPort"}
TestMorph ==
  /\ pc = "morph"
  /\ LET morph == IsA(port, "MorphPort") \/ IsA(port, "AutoMorphPort")
     IN Ran("morph",
            IF ~morph THEN IF port.types > 0 THEN "port_not_found" ELSE None
            ELSE IF port.types = 0 THEN "types_not_found"
            ELSE IF port.types < 2 THEN "types_not_enough"
            ELSE IF \E t \in DefaultTypes : ~IsA(port, t) THEN "default_not_found"
            ELSE None,
            "points")
  /\ UNCHANGED <<dflt, min, max>>

(* The first point that has a twin decides, and of its twins the first.    *)
TwinsLabelled(points, i) ==   \* variant: points of one label are not compared
  {j \in DOMAIN points : j # i /\ points[i][1] = points[j][1] /\ points[i][2] # points[j][2]}
Twins(points, i) ==
  {j \in DOMAIN points : j # i /\ (points[i][1] = points[j][1] \/ points[i][2] = points[j][2])}
Least(set) == CHOOSE i \in set : \A j \in set : i <= j
TestScalePoints ==
  /\ pc = "points"
  /\ LET points == port.points
         doubled == {i \in DOMAIN points : Twins(points, i) # {}}
     IN Ran("points",
            IF doubled = {} THEN None
            ELSE LET i == Least(doubled)
                 IN IF points[i][1] = points[Least(Twins(points, i))][1]
                    THEN "not_unique_val" ELSE "not_unique_lbl",
            "next")
  /\ UNCHANGED <<dflt, min, max>>
-----------------------------------------------------------------------------
(* A parameter: both bounds are parsed, with a fall-back for one of the    *)
(* wrong kind, then compared if both are there; the last finding stands.   *)
Bound(node, kind, fallback) == IF node.kind = kind THEN node.val ELSE fallback

NextParameter ==
  /\ pc \in {"start", "next"}
  /\ port' \in Parameters
  /\ found' = [t \in Tests |-> None]
  /\ pc' = "parameter"
  /\ UNCHANGED <<dflt, min, max>>

TestParameterUnordered ==     \* variant: the bounds are not compared
  /\ pc = "parameter"
  /\ LET numeric == port.range \in {"int", "float"}
     IN /\ min' = IF numeric /\ port.min # Absent THEN Bound(port.min, port.range, 0) ELSE min
        /\ max' = IF numeric /\ port.max # Absent THEN Bound(port.max, port.range, 2) ELSE max
        /\ Ran("parameter",
               IF port.range \notin {"int", "float", "atom"} THEN port.range
               ELSE IF ~numeric THEN None
               ELSE IF port.max = Absent THEN "maximum_not_found"
               ELSE IF port.max.kind # port.range THEN "maximum_wrong_kind"
               ELSE IF port.min = Absent THEN "minimum_not_found"
               ELSE IF port.min.kind # port.range THEN "minimum_wrong_kind"
               ELSE None,
               "next")
  /\ UNCHANGED dflt
TestParameter ==
  /\ pc = "parameter"
  /\ LET numeric == port.range \in {"int", "float"}
     IN /\ min' = IF numeric /\ port.min # Absent THEN Bound(port.min, port.range, 0) ELSE min
        /\ max' = IF numeric /\ port.max # Absent THEN Bound(port.max, port.range, 2) ELSE max
        /\ Ran("parameter",
               IF port.range \notin {"int", "float", "atom"} THEN port.range
               ELSE IF ~numeric THEN None
               ELSE IF port.min # Absent /\ port.max # Absent /\ ~(min' <= max')
               THEN "range_invalid"
               ELSE IF port.max = Absent THEN "maximum_not_found"
               ELSE IF port.max.kind # port.range THEN "maximum_wrong_kind"
               ELSE IF port.min = Absent THEN "minimum_not_found"
               ELSE IF port.min.kind # port.range THEN "minimum_wrong_kind"
               ELSE None,
               "next")
  /\ UNCHANGED dflt

Next ==
  \/ NextPort
  \/ TestDefault
  \/ TestMinimum
  \/ TestMaximum
  \/ TestRange
  \/ TestEvent
  \/ TestAtom
  \/ TestMorph
  \/ TestScalePoints
  \/ NextParameter
  \/ TestParameter

Spec == Init /\ [][Next]_vars
-----------------------------------------------------------------------------
Findings ==
  {None, "not_found", "not_a_whole_value", "not_an_int", "not_a_bool", "not_a_boolean_value",
   "not_a_float", "invalid", "deprecated", "requires_map", "port_not_found",
   "types_not_found", "types_not_enough", "default_not_found", "not_unique_val",
   "not_unique_lbl", "range_invalid", "maximum_not_found", "maximum_wrong_kind",
   "minimum_not_found", "minimum_wrong_kind"} \cup {p.range : p \in Parameters}

(* Between two tests the fields hold a number of some node or a fall-back. *)
TypeOK ==
  /\ pc \in Tests \cup {"start", "next"}
  /\ {dflt, min, max} \subseteq {node.val : node \in Nodes} \cup {0, 2}
  /\ port \in Parameters \/ port \in Ports
  /\ found \in [Tests -> Findings]

(* What is known when all tests of a port or a parameter have run.         *)
Passes(tests) == \A t \in tests : found[t] = None
PortDone == pc = "next" /\ port \notin Parameters
ParameterDone == pc = "next" /\ port \in Parameters
Scale == IF port.rate THEN Rate ELSE 1
InOrder == port.min.val * Scale <= port.dflt.val /\ port.dflt.val <= port.max.val * Scale

(* Once a test of a port has run, its number and its finding are what the  *)
(* port alone makes them, whatever was tested before it.                   *)
AfterRange == {"event", "atom", "morph", "points", "next"}
AfterMaximum == AfterRange \cup {"range"}
AfterMinimum == AfterMaximum \cup {"maximum"}
AfterDefault == AfterMinimum \cup {"minimum"}
Bounded == HasNumbers(port) /\ ~port.toggled
OwnDefault ==
  /\ dflt = IF HasNumbers(port) THEN Value(port.dflt, 0) ELSE 0
  /\ found["default"] = IF HasNumbers(port)
                        THEN Num(port.dflt, port.integer, port.toggled) ELSE None
OwnMinimum ==
  /\ min = IF Bounded THEN Value(port.min, 0) ELSE 0
  /\ found["minimum"] = IF Bounded THEN Num(port.min, port.integer, FALSE) ELSE None
OwnMaximum ==
  /\ max = IF Bounded THEN Value(port.max, 2) ELSE 2
  /\ found["maximum"] = IF Bounded THEN Num(port.max, port.integer, FALSE) ELSE None
OwnRange ==
  found["range"] = IF IsControl(port) /\ ~(min * Scale <= dflt /\ dflt <= max * Scale)
                   THEN "invalid" ELSE None
Own ==
  /\ pc = "parameter" => port \in Parameters
  /\ pc \in (AfterDefault \ {"next"}) \cup {"default"} => port \notin Parameters
  /\ port \notin Parameters =>
       /\ pc \in AfterDefault => OwnDefault
       /\ pc \in AfterMinimum => OwnMinimum
       /\ pc \in AfterMaximum => OwnMaximum
       /\ pc \in AfterRange => OwnRange

(* A port that none of the number tests complains of has the numbers it    *)
(* needs, of the right kind and in order - its own, not what an earlier    *)
(* port, parameter or plugin has left in app.                              *)
NumbersAreSound ==
  /\ PortDone
  /\ HasNumbers(port) /\ ~port.toggled
  /\ Passes({"default", "minimum", "maximum", "range"})
  => /\ Absent \notin {port.dflt, port.min, port.max}
     /\ InOrder
     /\ port.integer => \A x \in {port.dflt, port.min, port.max} : Whole(x)

(* "range invalid (min <= default <= max)" is not said of a port whose own *)
(* numbers, where it has all three, are in order, nor of any output.       *)
RangeVerdictIsOwn ==
  (PortDone /\ found["range"] # None) =>
    /\ HasNumbers(port)
    /\ ~( /\ \A x \in {port.dflt, port.min, port.max} : IsNumber(x)
          /\ ~port.toggled
          /\ InOrder )

(* Two scale points that share a value or a label are always found, in     *)
(* whatever place of the list they are.                                    *)
ScalePointsFound ==
  (PortDone /\ Passes({"points"})) =>
    \A i, j \in DOMAIN port.points :
      i # j => /\ port.points[i][1] # port.points[j][1]
               /\ port.points[i][2] # port.points[j][2]

(* A parameter of a number type that is accepted has both bounds, of that  *)
(* type and in order - its own, not what a port has left.                  *)
ParameterIsSound ==
  (ParameterDone /\ Passes({"parameter"}) /\ port.range \in {"int", "float"}) =>
    /\ port.min.kind = port.range /\ port.max.kind = port.range
    /\ port.min.val <= port.max.val

(* the inductive invariant *)
IInv == /\ TypeOK
        /\ Own
        /\ ScalePointsFound
        /\ ParameterIsSound

(* "default port type not found" is said of a morph port that has none of  *)
(* the types it may default to.                                            *)
MorphDefaultMissing ==
  (PortDone /\ found["morph"] = "default_not_found") =>
    \A t \in DefaultTypes : ~IsA(port, t)
=============================================================================
