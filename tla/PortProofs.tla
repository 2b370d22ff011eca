------------------------------ MODULE PortProofs -------------------------------
(***************************************************************************)
(* Theorems about PortTests: what the number tests say of a port or        *)
(* parameter depends on it alone, for any nodes, ports and parameters and  *)
(* however many have been tested before.                                   *)
(***************************************************************************)
EXTENDS PortTests, TLAPS

USE PortAssumption

(* _test_num finds nothing only in a node of the kind that was asked for.  *)
LEMMA NumAccepts ==
  ASSUME NEW node \in Nodes
  PROVE  /\ \A toggled \in BOOLEAN : Num(node, TRUE, toggled) = None =>
              node # Absent /\ node.kind = "int" /\ Whole(node)
         /\ Num(node, FALSE, FALSE) = None => node # Absent /\ node.kind = "float"
BY DEF Num, None, Whole

LEMMA NumIsAFinding ==
  ASSUME NEW node, NEW integer, NEW toggled
  PROVE  Num(node, integer, toggled) \in Findings
BY DEF Num, Findings

(* A test writes its own finding only. *)
LEMMA RanFound ==
  ASSUME found \in [Tests -> Findings], NEW test \in Tests, NEW finding \in Findings, NEW next,
         Ran(test, finding, next)
  PROVE  /\ found' \in [Tests -> Findings]
         /\ found'[test] = finding
         /\ \A t \in Tests \ {test} : found'[t] = found[t]
         /\ pc' = next /\ port' = port
BY DEF Ran
-----------------------------------------------------------------------------
LEMMA PortIsAPort == ASSUME TypeOK, port \notin Parameters PROVE port \in Ports
BY DEF TypeOK

(* The fields only ever take what a node holds, 0 or 2. *)
Held == {node.val : node \in Nodes} \cup {0, 2}
LEMMA ValueIsHeld ==
  ASSUME NEW node \in Nodes, NEW fallback \in {0, 2}
  PROVE  Value(node, fallback) \in Held
BY DEF Value, Held
LEMMA BoundIsHeld ==
  ASSUME NEW node \in Nodes, NEW kind, NEW fallback \in {0, 2}
  PROVE  Bound(node, kind, fallback) \in Held
BY DEF Bound, Held

LEMMA Step ==
  ASSUME IInv, Next
  PROVE  IInv'
<1> USE DEF IInv, TypeOK, Own
<1> DEFINE typed == found' \in [Tests -> Findings]
<1>1. CASE NextPort
  <2>1. port' \notin Parameters
    BY <1>1 DEF NextPort
  <2>2. TypeOK'
    BY <1>1 DEF NextPort, Tests, Findings
  <2>3. Own'
    BY <1>1, <2>1 DEF NextPort, AfterRange, AfterMaximum, AfterMinimum, AfterDefault
  <2> QED
    BY <1>1, <2>2, <2>3 DEF NextPort, ScalePointsFound, ParameterIsSound, PortDone, ParameterDone
<1>2. CASE NextParameter
  <2>1. TypeOK'
    BY <1>2 DEF NextParameter, Tests, Findings
  <2>2. Own'
    BY <1>2 DEF NextParameter, AfterRange, AfterMaximum, AfterMinimum, AfterDefault
  <2> QED
    BY <1>2, <2>1, <2>2
       DEF NextParameter, ScalePointsFound, ParameterIsSound, PortDone, ParameterDone
<1>3. CASE TestDefault
  <2> DEFINE finding == IF HasNumbers(port) THEN Num(port.dflt, port.integer, port.toggled)
                        ELSE None
  <2>1. port \notin Parameters /\ port \in Ports /\ port.dflt \in Nodes
    BY <1>3 DEF TestDefault, AfterRange, AfterMaximum, AfterMinimum, AfterDefault
  <2>2. finding \in Findings
    BY NumIsAFinding DEF Findings
  <2>3. /\ found' \in [Tests -> Findings] /\ found'["default"] = finding
        /\ pc' = "minimum" /\ port' = port
    <3> HIDE DEF finding
    <3>1. Ran("default", finding, "minimum")
      BY <1>3 DEF TestDefault, finding
    <3> QED
      BY <2>2, <3>1, RanFound DEF Tests
  <2>4. dflt' \in Held
    BY <1>3, <2>1, ValueIsHeld DEF TestDefault, Held
  <2>5. TypeOK'
    BY <1>3, <2>1, <2>3, <2>4 DEF TestDefault, Tests, Held
  <2>6. OwnDefault'
    BY <1>3, <2>3 DEF TestDefault, OwnDefault
  <2> QED
    BY <2>1, <2>3, <2>5, <2>6 DEF AfterRange, AfterMaximum, AfterMinimum, AfterDefault,
       ScalePointsFound, ParameterIsSound, PortDone, ParameterDone
<1>4. CASE TestMinimum
  <2> DEFINE finding == IF Bounded THEN Num(port.min, port.integer, FALSE) ELSE None
  <2>1. port \notin Parameters /\ port \in Ports /\ port.min \in Nodes /\ OwnDefault
    BY <1>4 DEF TestMinimum, AfterRange, AfterMaximum, AfterMinimum, AfterDefault
  <2>2. finding \in Findings
    BY NumIsAFinding DEF Findings
  <2>3. /\ found' \in [Tests -> Findings] /\ found'["minimum"] = finding
        /\ found'["default"] = found["default"]
        /\ pc' = "maximum" /\ port' = port
    <3> HIDE DEF finding
    <3>1. Ran("minimum", finding, "maximum")
      BY <1>4 DEF TestMinimum, Bounded, finding
    <3> QED
      BY <2>2, <3>1, RanFound DEF Tests
  <2>4. min' \in Held
    BY <1>4, <2>1, ValueIsHeld DEF TestMinimum, Held
  <2>5. TypeOK'
    BY <1>4, <2>1, <2>3, <2>4 DEF TestMinimum, Tests, Held
  <2>6. OwnDefault' /\ OwnMinimum'
    BY <1>4, <2>1, <2>3 DEF TestMinimum, OwnDefault, OwnMinimum, Bounded
  <2> QED
    BY <2>1, <2>3, <2>5, <2>6 DEF AfterRange, AfterMaximum, AfterMinimum, AfterDefault,
       ScalePointsFound, ParameterIsSound, PortDone, ParameterDone
<1>5. CASE TestMaximum
  <2> DEFINE finding == IF Bounded THEN Num(port.max, port.integer, FALSE) ELSE None
  <2>1. /\ port \notin Parameters /\ port \in Ports /\ port.max \in Nodes
        /\ OwnDefault /\ OwnMinimum
    BY <1>5 DEF TestMaximum, AfterRange, AfterMaximum, AfterMinimum, AfterDefault
  <2>2. finding \in Findings
    BY NumIsAFinding DEF Findings
  <2>3. /\ found' \in [Tests -> Findings] /\ found'["maximum"] = finding
        /\ found'["default"] = found["default"] /\ found'["minimum"] = found["minimum"]
        /\ pc' = "range" /\ port' = port
    <3> HIDE DEF finding
    <3>1. Ran("maximum", finding, "range")
      BY <1>5 DEF TestMaximum, Bounded, finding
    <3> QED
      BY <2>2, <3>1, RanFound DEF Tests
  <2>4. max' \in Held
    BY <1>5, <2>1, ValueIsHeld DEF TestMaximum, Held
  <2>5. TypeOK'
    BY <1>5, <2>1, <2>3, <2>4 DEF TestMaximum, Tests, Held
  <2>6. OwnDefault' /\ OwnMinimum' /\ OwnMaximum'
    BY <1>5, <2>1, <2>3 DEF TestMaximum, OwnDefault, OwnMinimum, OwnMaximum, Bounded
  <2> QED
    BY <2>1, <2>3, <2>5, <2>6 DEF AfterRange, AfterMaximum, AfterMinimum, AfterDefault,
       ScalePointsFound, ParameterIsSound, PortDone, ParameterDone
<1>6. CASE TestRange
  <2> DEFINE finding == IF IsControl(port) /\ ~(min * Scale <= dflt /\ dflt <= max * Scale)
                        THEN "invalid" ELSE None
  <2>1. /\ port \notin Parameters /\ port \in Ports
        /\ OwnDefault /\ OwnMinimum /\ OwnMaximum
    BY <1>6 DEF TestRange, AfterRange, AfterMaximum, AfterMinimum, AfterDefault
  <2>2. finding \in Findings
    BY DEF Findings
  <2>3. /\ found' \in [Tests -> Findings] /\ found'["range"] = finding
        /\ \A t \in {"default", "minimum", "maximum"} : found'[t] = found[t]
        /\ pc' = "event" /\ port' = port
    <3> HIDE DEF finding
    <3>1. Ran("range", finding, "event")
      BY <1>6 DEF TestRange, Scale, finding
    <3> QED
      BY <2>2, <3>1, RanFound DEF Tests
  <2>4. UNCHANGED <<dflt, min, max>>
    BY <1>6 DEF TestRange
  <2>5. TypeOK'
    BY <2>1, <2>3, <2>4 DEF Tests
  <2>6. OwnDefault' /\ OwnMinimum' /\ OwnMaximum'
    BY <2>1, <2>3, <2>4 DEF OwnDefault, OwnMinimum, OwnMaximum, Bounded
  <2>7. OwnRange'
    BY <2>3, <2>4 DEF OwnRange, Scale
  <2> QED
    BY <2>1, <2>3, <2>5, <2>6, <2>7 DEF AfterRange, AfterMaximum, AfterMinimum, AfterDefault,
       ScalePointsFound, ParameterIsSound, PortDone, ParameterDone
<1>7. ASSUME pc \in {"event", "atom", "morph", "points"},
             NEW finding \in Findings, NEW next \in {"atom", "morph", "points", "next"},
             Ran(pc, finding, next), UNCHANGED <<dflt, min, max>>
      PROVE  TypeOK' /\ Own' /\ port' \notin Parameters
  <2>1. /\ port \notin Parameters /\ port \in Ports
        /\ OwnDefault /\ OwnMinimum /\ OwnMaximum /\ OwnRange
    BY <1>7 DEF AfterRange, AfterMaximum, AfterMinimum, AfterDefault
  <2>2. pc \in Tests
    BY <1>7 DEF Tests
  <2>3. /\ found' \in [Tests -> Findings]
        /\ \A t \in {"default", "minimum", "maximum", "range"} : found'[t] = found[t]
        /\ pc' = next /\ port' = port
    BY <1>7, <2>2, RanFound DEF Tests
  <2>4. TypeOK'
    BY <1>7, <2>1, <2>3 DEF Tests
  <2>5. OwnDefault' /\ OwnMinimum' /\ OwnMaximum' /\ OwnRange'
    BY <1>7, <2>1, <2>3 DEF OwnDefault, OwnMinimum, OwnMaximum, OwnRange, Bounded, Scale
  <2> QED
    BY <1>7, <2>1, <2>3, <2>4, <2>5 DEF AfterRange, AfterMaximum, AfterMinimum, AfterDefault
<1>8. CASE TestEvent
  <2> DEFINE finding == IF IsA(port, "EventPort") THEN "deprecated" ELSE None
  <2>1. finding \in Findings
    BY DEF Findings
  <2>2. pc = "event" /\ Ran("event", finding, "atom") /\ UNCHANGED <<dflt, min, max>>
    BY <1>8 DEF TestEvent
  <2> HIDE DEF finding
  <2>3. TypeOK' /\ Own'
    BY <1>7, <2>1, <2>2
  <2>4. pc' = "atom"
    BY <2>2 DEF Ran
  <2> QED
    BY <2>3, <2>4 DEF ScalePointsFound, ParameterIsSound, PortDone, ParameterDone
<1>9. CASE TestAtom
  <2> DEFINE finding == IF IsA(port, "AtomPort") /\ ~port.hasMap THEN "requires_map" ELSE None
  <2>1. finding \in Findings
    BY DEF Findings
  <2>2. pc = "atom" /\ Ran("atom", finding, "morph") /\ UNCHANGED <<dflt, min, max>>
    BY <1>9 DEF TestAtom
  <2> HIDE DEF finding
  <2>3. TypeOK' /\ Own'
    BY <1>7, <2>1, <2>2
  <2>4. pc' = "morph"
    BY <2>2 DEF Ran
  <2> QED
    BY <2>3, <2>4 DEF ScalePointsFound, ParameterIsSound, PortDone, ParameterDone
<1>10. CASE TestMorph
  <2> DEFINE morph == IsA(port, "MorphPort") \/ IsA(port, "AutoMorphPort")
             finding == IF ~morph THEN IF port.types > 0 THEN "port_not_found" ELSE None
                        ELSE IF port.types = 0 THEN "types_not_found"
                        ELSE IF port.types < 2 THEN "types_not_enough"
                        ELSE IF \E t \in DefaultTypes : ~IsA(port, t) THEN "default_not_found"
                        ELSE None
  <2>1. finding \in Findings
    BY DEF Findings
  <2>2. pc = "morph" /\ Ran("morph", finding, "points") /\ UNCHANGED <<dflt, min, max>>
    BY <1>10 DEF TestMorph
  <2> HIDE DEF finding
  <2>3. TypeOK' /\ Own'
    BY <1>7, <2>1, <2>2
  <2>4. pc' = "points"
    BY <2>2 DEF Ran
  <2> QED
    BY <2>3, <2>4 DEF ScalePointsFound, ParameterIsSound, PortDone, ParameterDone
<1>11. CASE TestScalePoints
  <2> DEFINE doubled == {i \in DOMAIN port.points : Twins(port.points, i) # {}}
             other == LET i == Least(doubled)
                      IN IF port.points[i][1] = port.points[Least(Twins(port.points, i))][1]
                         THEN "not_unique_val" ELSE "not_unique_lbl"
             finding == IF doubled = {} THEN None ELSE other
  <2>1. Ran("points", finding, "next") /\ UNCHANGED <<dflt, min, max>> /\ pc = "points"
    BY <1>11 DEF TestScalePoints
  <2>2. finding \in Findings /\ (finding = None => doubled = {})
    BY DEF None, Findings
  <2> HIDE DEF finding
  <2>3. TypeOK' /\ Own' /\ port' \notin Parameters
    BY <1>7, <2>1, <2>2
  <2>4. found'["points"] = finding /\ port' = port
    BY <2>1, <2>2, RanFound DEF Tests
  <2>5. ASSUME found'["points"] = None, NEW i \in DOMAIN port.points,
               NEW j \in DOMAIN port.points, i # j
        PROVE  port.points[i][1] # port.points[j][1] /\ port.points[i][2] # port.points[j][2]
    <3>1. Twins(port.points, i) = {}
      BY <2>2, <2>4, <2>5
    <3> QED
      BY <2>5, <3>1 DEF Twins
  <2>6. ScalePointsFound'
    BY <2>4, <2>5 DEF ScalePointsFound, Passes
  <2> QED
    BY <2>3, <2>6 DEF ParameterIsSound, ParameterDone
<1>12. CASE TestParameter
  <2>1. /\ port \in Parameters /\ port \notin Ports
        /\ port.min \in Nodes /\ port.max \in Nodes
    BY <1>12 DEF TestParameter
  <2> DEFINE numeric == port.range \in {"int", "float"}
             finding == IF port.range \notin {"int", "float", "atom"} THEN port.range
                        ELSE IF ~numeric THEN None
                        ELSE IF port.min # Absent /\ port.max # Absent /\ ~(min' <= max')
                        THEN "range_invalid"
                        ELSE IF port.max = Absent THEN "maximum_not_found"
                        ELSE IF port.max.kind # port.range THEN "maximum_wrong_kind"
                        ELSE IF port.min = Absent THEN "minimum_not_found"
                        ELSE IF port.min.kind # port.range THEN "minimum_wrong_kind"
                        ELSE None
  <2>2. finding \in Findings
    BY <2>1 DEF Findings
  <2>3. /\ min' = IF numeric /\ port.min # Absent THEN Bound(port.min, port.range, 0) ELSE min
        /\ max' = IF numeric /\ port.max # Absent THEN Bound(port.max, port.range, 2) ELSE max
        /\ dflt' = dflt /\ Ran("parameter", finding, "next")
    BY <1>12 DEF TestParameter
  <2>4. min' \in Held /\ max' \in Held
    BY <2>1, <2>3, BoundIsHeld DEF Held
  <2>5. /\ found' \in [Tests -> Findings] /\ found'["parameter"] = finding
        /\ pc' = "next" /\ port' = port
    <3> HIDE DEF finding
    <3> QED
      BY <2>2, <2>3, RanFound DEF Tests
  <2>6. TypeOK'
    BY <2>1, <2>3, <2>4, <2>5 DEF Held
  <2>7. Own'
    BY <2>1, <2>5 DEF AfterRange, AfterMaximum, AfterMinimum, AfterDefault
  <2>8. ParameterIsSound'
    <3>1. SUFFICES ASSUME finding = None, port.range \in {"int", "float"}
                   PROVE  /\ port.min.kind = port.range /\ port.max.kind = port.range
                          /\ port.min.val <= port.max.val
      BY <2>5 DEF ParameterIsSound, Passes
    <3>2. /\ port.min # Absent /\ port.max # Absent /\ min' <= max'
          /\ port.min.kind = port.range /\ port.max.kind = port.range
      BY <3>1 DEF None
    <3> QED
      BY <2>3, <3>1, <3>2 DEF Bound
  <2> QED
    BY <2>1, <2>5, <2>6, <2>7, <2>8 DEF ScalePointsFound, PortDone
<1> QED
  BY <1>1, <1>2, <1>3, <1>4, <1>5, <1>6, <1>8, <1>9, <1>10, <1>11, <1>12 DEF Next
-----------------------------------------------------------------------------
(* What the fields of app and the findings are is a function of the port   *)
(* or parameter under test.                                                *)
THEOREM PortInvariant == Spec => []IInv
<1>1. Init => IInv
  <2>1. Init => TypeOK
    BY DEF Init, TypeOK, Tests, Findings
  <2>2. Init => Own
    BY DEF Init, Own, AfterRange, AfterMaximum, AfterMinimum, AfterDefault
  <2> QED
    BY <2>1, <2>2 DEF Init, IInv, ScalePointsFound, ParameterIsSound, PortDone, ParameterDone
<1>2. IInv /\ [Next]_vars => IInv'
  <2>1. IInv /\ UNCHANGED vars => IInv'
    BY DEF IInv, TypeOK, Own, OwnDefault, OwnMinimum, OwnMaximum, OwnRange, Bounded, Scale,
           ScalePointsFound, ParameterIsSound, PortDone, ParameterDone, Passes, vars
  <2> QED
    BY <2>1, Step
<1> QED
  BY <1>1, <1>2, PTL DEF Spec

(* A port that passes the number tests has numbers of the right kind, in   *)
(* order.                                                                  *)
THEOREM PortNumbersAreSound == Spec => []NumbersAreSound
<1>1. ASSUME IInv, PortDone, HasNumbers(port), ~port.toggled,
             Passes({"default", "minimum", "maximum", "range"})
      PROVE  /\ Absent \notin {port.dflt, port.min, port.max}
             /\ InOrder
             /\ port.integer => \A x \in {port.dflt, port.min, port.max} : Whole(x)
  <2>1. port \in Ports /\ {port.dflt, port.min, port.max} \subseteq Nodes
    BY <1>1, PortIsAPort DEF IInv, PortDone
  <2>2. OwnDefault /\ OwnMinimum /\ OwnMaximum /\ OwnRange
    BY <1>1 DEF IInv, Own, PortDone, AfterRange, AfterMaximum, AfterMinimum, AfterDefault
  <2>3. /\ Num(port.dflt, port.integer, FALSE) = None
        /\ Num(port.min, port.integer, FALSE) = None
        /\ Num(port.max, port.integer, FALSE) = None
    BY <1>1, <2>2 DEF OwnDefault, OwnMinimum, OwnMaximum, Bounded, Passes, Num
  <2>4. \A x \in {port.dflt, port.min, port.max} :
          x # Absent /\ IsNumber(x) /\ (port.integer => Whole(x))
    BY <2>1, <2>3, NumAccepts DEF IsNumber, Num, None, Whole
  <2>5. dflt = port.dflt.val /\ min = port.min.val /\ max = port.max.val
    BY <1>1, <2>2, <2>4 DEF OwnDefault, OwnMinimum, OwnMaximum, Bounded, Value
  <2>6. InOrder
    BY <1>1, <2>2, <2>5 DEF OwnRange, InOrder, Passes, HasNumbers, None
  <2> QED
    BY <2>4, <2>6
<1>2. IInv => NumbersAreSound
  BY <1>1 DEF NumbersAreSound
<1> QED
  BY <1>2, PortInvariant, PTL

(* "range invalid" is said only of a port's own numbers.                   *)
THEOREM PortRangeVerdictIsOwn == Spec => []RangeVerdictIsOwn
<1>1. ASSUME IInv, PortDone, found["range"] # None
      PROVE  /\ HasNumbers(port)
             /\ ~( /\ \A x \in {port.dflt, port.min, port.max} : IsNumber(x)
                   /\ ~port.toggled
                   /\ InOrder )
  <2>1. OwnDefault /\ OwnMinimum /\ OwnMaximum /\ OwnRange
    BY <1>1 DEF IInv, Own, PortDone, AfterRange, AfterMaximum, AfterMinimum, AfterDefault
  <2>2. IsControl(port) /\ ~(min * Scale <= dflt /\ dflt <= max * Scale)
    BY <1>1, <2>1 DEF OwnRange
  <2>3. HasNumbers(port)
    <3>1. SUFFICES ASSUME ~HasNumbers(port) PROVE FALSE
      OBVIOUS
    <3>2. dflt = 0 /\ min = 0 /\ max = 2
      BY <2>1, <3>1 DEF OwnDefault, OwnMinimum, OwnMaximum, Bounded
    <3> QED
      BY <2>2, <3>2 DEF Scale
  <2>4. ASSUME \A x \in {port.dflt, port.min, port.max} : IsNumber(x), ~port.toggled, InOrder
        PROVE  FALSE
    BY <2>1, <2>2, <2>3, <2>4 DEF OwnDefault, OwnMinimum, OwnMaximum, Bounded, Value, InOrder
  <2> QED
    BY <2>3, <2>4
<1>2. IInv => RangeVerdictIsOwn
  BY <1>1 DEF RangeVerdictIsOwn
<1> QED
  BY <1>2, PortInvariant, PTL

(* No two scale points of a port that passes share a value or a label.     *)
THEOREM PortScalePointsFound == Spec => []ScalePointsFound
BY PortInvariant, PTL DEF IInv

(* A parameter that passes has both bounds, of its type and in order.      *)
THEOREM PortParameterIsSound == Spec => []ParameterIsSound
BY PortInvariant, PTL DEF IInv
================================================================================
