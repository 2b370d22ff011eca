---------------------------- MODULE MetadataProofs ----------------------------
(***************************************************************************)
(* Theorems about MetadataTests, for whatever facts a plugin may present:  *)
(* what a test reports is true of the plugin, and nothing graver is true.  *)
(*                                                                         *)
(* The specification keeps no more than the last test, its facts and its   *)
(* result, so the invariant is simple; the work is in the tests.  A chain  *)
(* of else-ifs reports the finding of the first condition that holds: of   *)
(* several truths it tells one, for a reason that includes the failure of  *)
(* every condition before it.  One lemma per test compares that with the   *)
(* statements about the facts, which know no order (Sound).                *)
(***************************************************************************)
EXTENDS MetadataTests, SequenceTheorems, WellFoundedInduction, TLAPS

Told(t, d) == Result(t, d) = Pass \/ Result(t, d) \in Truths(t, d)
NothingWorse(t, d) ==
  \A f \in Truths(t, d) \ Overlooked(t, d) :
    \/ Rank[f.level] <= Rank[Result(t, d).level]
    \/ Result(t, d) = Of(Note("function_missing"), "end_run")
Sound(t, d) == Told(t, d) /\ NothingWorse(t, d)
-----------------------------------------------------------------------------
(* Chains of else-ifs                                                      *)

(* A set of indices has a least one, which Cascade may choose. *)
LEMMA LeastIndex ==
  ASSUME NEW S, S \subseteq Nat, S # {}
  PROVE  \E i \in S : \A j \in S : i <= j
<1>1. IsWellFoundedOn(OpToRel(<, Nat), Nat)
  BY NatLessThanWellFounded
<1>2. PICK i \in S : \A j \in S : <<j, i>> \notin OpToRel(<, Nat)
  BY <1>1, WFMin
<1>3. \A j \in S : ~(j < i)
  BY <1>2 DEF OpToRel
<1> QED
  BY <1>3

(* What Cascade returns, for a chain of any length. *)
LEMMA CascadeFirst ==
  ASSUME NEW rules, NEW n \in Nat, Len(rules) = n
  PROVE  \/ /\ Cascade(rules) = Pass
            /\ \A i \in 1..n : ~rules[i][1]
         \/ \E i \in 1..n :
              /\ rules[i][1]
              /\ \A j \in 1..n : j < i => ~rules[j][1]
              /\ Cascade(rules) = rules[i][2]
<1> DEFINE holds == {i \in 1..Len(rules) : rules[i][1]}
<1>1. CASE holds = {}
  BY <1>1 DEF Cascade
<1>2. CASE holds # {}
  <2>1. \E i \in holds : \A j \in holds : i <= j
    BY <1>2, holds \subseteq Nat, LeastIndex
  <2> DEFINE i == CHOOSE i \in holds : \A j \in holds : i <= j
  <2>2. i \in holds /\ \A j \in holds : i <= j
    BY <2>1
  <2>3. Cascade(rules) = rules[i][2]
    BY <1>2 DEF Cascade
  <2> QED
    BY <2>2, <2>3
<1> QED
  BY <1>1, <1>2

(* Rules in front of others. *)
LEMMA OneThenTwo ==
  ASSUME NEW a, NEW b, NEW c
  PROVE  <<a>> \o <<b, c>> = <<a, b, c>>
<1> DEFINE S == {a, b, c}
           both == <<a>> \o <<b, c>>
<1>1. <<a>> \in Seq(S) /\ <<b, c>> \in Seq(S) /\ <<a, b, c>> \in Seq(S)
  OBVIOUS
<1>2. /\ both \in Seq(S)
      /\ Len(both) = 3
      /\ both[1] = a /\ both[2] = b /\ both[3] = c
  BY <1>1, ConcatProperties
<1>3. \A i \in 1..Len(both) : both[i] = <<a, b, c>>[i]
  BY <1>2
<1> HIDE DEF both, S
<1>4. both = <<a, b, c>>
  BY <1>1, <1>2, <1>3, SeqEqual, Len(<<a, b, c>>) = 3
<1> QED
  BY <1>4 DEF both

(* The same, spelled out for the chains of the tests. *)
LEMMA Cascade2 ==
  ASSUME NEW a, NEW b
  PROVE  Cascade(<<a, b>>) =
           IF a[1] THEN a[2]
           ELSE IF b[1] THEN b[2] ELSE Pass
<1> DEFINE rules == <<a, b>>
<1>1. /\ Len(rules) = 2
      /\ rules[1] = a
      /\ rules[2] = b
  OBVIOUS
<1> HIDE DEF rules
<1>2. \/ /\ Cascade(rules) = Pass
         /\ \A i \in 1..2 : ~rules[i][1]
      \/ \E i \in 1..2 :
           /\ rules[i][1]
           /\ \A j \in 1..2 : j < i => ~rules[j][1]
           /\ Cascade(rules) = rules[i][2]
  BY <1>1, CascadeFirst
<1>3. Cascade(rules) =
           IF a[1] THEN a[2]
           ELSE IF b[1] THEN b[2] ELSE Pass
  BY <1>1, <1>2
<1> QED
  BY <1>3 DEF rules

LEMMA Cascade3 ==
  ASSUME NEW a, NEW b, NEW c
  PROVE  Cascade(<<a, b, c>>) =
           IF a[1] THEN a[2]
           ELSE IF b[1] THEN b[2]
           ELSE IF c[1] THEN c[2] ELSE Pass
<1> DEFINE rules == <<a, b, c>>
<1>1. /\ Len(rules) = 3
      /\ rules[1] = a
      /\ rules[2] = b
      /\ rules[3] = c
  OBVIOUS
<1> HIDE DEF rules
<1>2. \/ /\ Cascade(rules) = Pass
         /\ \A i \in 1..3 : ~rules[i][1]
      \/ \E i \in 1..3 :
           /\ rules[i][1]
           /\ \A j \in 1..3 : j < i => ~rules[j][1]
           /\ Cascade(rules) = rules[i][2]
  BY <1>1, CascadeFirst
<1>3. Cascade(rules) =
           IF a[1] THEN a[2]
           ELSE IF b[1] THEN b[2]
           ELSE IF c[1] THEN c[2] ELSE Pass
  BY <1>1, <1>2
<1> QED
  BY <1>3 DEF rules

LEMMA Cascade4 ==
  ASSUME NEW a, NEW b, NEW c, NEW d
  PROVE  Cascade(<<a, b, c, d>>) =
           IF a[1] THEN a[2]
           ELSE IF b[1] THEN b[2]
           ELSE IF c[1] THEN c[2]
           ELSE IF d[1] THEN d[2] ELSE Pass
<1> DEFINE rules == <<a, b, c, d>>
<1>1. /\ Len(rules) = 4
      /\ rules[1] = a
      /\ rules[2] = b
      /\ rules[3] = c
      /\ rules[4] = d
  OBVIOUS
<1> HIDE DEF rules
<1>2. \/ /\ Cascade(rules) = Pass
         /\ \A i \in 1..4 : ~rules[i][1]
      \/ \E i \in 1..4 :
           /\ rules[i][1]
           /\ \A j \in 1..4 : j < i => ~rules[j][1]
           /\ Cascade(rules) = rules[i][2]
  BY <1>1, CascadeFirst
<1>3. Cascade(rules) =
           IF a[1] THEN a[2]
           ELSE IF b[1] THEN b[2]
           ELSE IF c[1] THEN c[2]
           ELSE IF d[1] THEN d[2] ELSE Pass
  BY <1>1, <1>2
<1> QED
  BY <1>3 DEF rules

LEMMA Cascade5 ==
  ASSUME NEW a, NEW b, NEW c, NEW d, NEW e
  PROVE  Cascade(<<a, b, c, d, e>>) =
           IF a[1] THEN a[2]
           ELSE IF b[1] THEN b[2]
           ELSE IF c[1] THEN c[2]
           ELSE IF d[1] THEN d[2]
           ELSE IF e[1] THEN e[2] ELSE Pass
<1> DEFINE rules == <<a, b, c, d, e>>
<1>1. /\ Len(rules) = 5
      /\ rules[1] = a
      /\ rules[2] = b
      /\ rules[3] = c
      /\ rules[4] = d
      /\ rules[5] = e
  OBVIOUS
<1> HIDE DEF rules
<1>2. \/ /\ Cascade(rules) = Pass
         /\ \A i \in 1..5 : ~rules[i][1]
      \/ \E i \in 1..5 :
           /\ rules[i][1]
           /\ \A j \in 1..5 : j < i => ~rules[j][1]
           /\ Cascade(rules) = rules[i][2]
  BY <1>1, CascadeFirst
<1>3. Cascade(rules) =
           IF a[1] THEN a[2]
           ELSE IF b[1] THEN b[2]
           ELSE IF c[1] THEN c[2]
           ELSE IF d[1] THEN d[2]
           ELSE IF e[1] THEN e[2] ELSE Pass
  BY <1>1, <1>2
<1> QED
  BY <1>3 DEF rules

LEMMA Cascade6 ==
  ASSUME NEW a, NEW b, NEW c, NEW d, NEW e, NEW f
  PROVE  Cascade(<<a, b, c, d, e, f>>) =
           IF a[1] THEN a[2]
           ELSE IF b[1] THEN b[2]
           ELSE IF c[1] THEN c[2]
           ELSE IF d[1] THEN d[2]
           ELSE IF e[1] THEN e[2]
           ELSE IF f[1] THEN f[2] ELSE Pass
<1> DEFINE rules == <<a, b, c, d, e, f>>
<1>1. /\ Len(rules) = 6
      /\ rules[1] = a
      /\ rules[2] = b
      /\ rules[3] = c
      /\ rules[4] = d
      /\ rules[5] = e
      /\ rules[6] = f
  OBVIOUS
<1> HIDE DEF rules
<1>2. \/ /\ Cascade(rules) = Pass
         /\ \A i \in 1..6 : ~rules[i][1]
      \/ \E i \in 1..6 :
           /\ rules[i][1]
           /\ \A j \in 1..6 : j < i => ~rules[j][1]
           /\ Cascade(rules) = rules[i][2]
  BY <1>1, CascadeFirst
<1>3. Cascade(rules) =
           IF a[1] THEN a[2]
           ELSE IF b[1] THEN b[2]
           ELSE IF c[1] THEN c[2]
           ELSE IF d[1] THEN d[2]
           ELSE IF e[1] THEN e[2]
           ELSE IF f[1] THEN f[2] ELSE Pass
  BY <1>1, <1>2
<1> QED
  BY <1>3 DEF rules
-----------------------------------------------------------------------------
(* Findings and truths                                                     *)

(* The level of a finding is the one it was made with. *)
Level(f) == Rank[f.level]

LEMMA Levels ==
  ASSUME NEW msg
  PROVE  /\ Level(Pass) = 0
         /\ Level(Note(msg)) = 1
         /\ Level(Warn(msg)) = 2
         /\ Level(Fail(msg)) = 3
BY DEF Level, Rank, Pass, Note, Warn, Fail

LEMMA LevelsOf ==
  ASSUME NEW msg, NEW uri
  PROVE  /\ Level(Of(Note(msg), uri)) = 1
         /\ Level(Of(Warn(msg), uri)) = 2
         /\ Level(Of(Fail(msg), uri)) = 3
BY DEF Level, Rank, Of, Note, Warn, Fail

(* Two findings are overlooked by every test. *)
LEMMA AlwaysOverlooked ==
  ASSUME NEW t, NEW d
  PROVE  /\ Fail("empty") \in Overlooked(t, d)
         /\ Warn("required_options_defined") \in Overlooked(t, d)
BY DEF Overlooked

(* The statements that hold, of one, two or three. *)
LEMMA Chosen1 ==
  ASSUME NEW g, NEW x
  PROVE  x \in Chosen({g}) <=> g[1] /\ x = g[2]
BY DEF Chosen

LEMMA Chosen2 ==
  ASSUME NEW g, NEW h, NEW x
  PROVE  x \in Chosen({g, h}) <=> (g[1] /\ x = g[2]) \/ (h[1] /\ x = h[2])
BY DEF Chosen

LEMMA Chosen3 ==
  ASSUME NEW g, NEW h, NEW i, NEW x
  PROVE  x \in Chosen({g, h, i}) <=>
           (g[1] /\ x = g[2]) \/ (h[1] /\ x = h[2]) \/ (i[1] /\ x = i[2])
BY DEF Chosen

(* ... and of sets of statements put together. *)
LEMMA ChosenUnion ==
  ASSUME NEW S, NEW T
  PROVE  Chosen(S \cup T) = Chosen(S) \cup Chosen(T)
BY DEF Chosen

(* What is true of a text, a feature and an interface. *)
LEMMA TextTruth ==
  ASSUME NEW node, NEW level, NEW x
  PROVE  x \in TextTruths(node, level) <=>
           \/ node = "absent" /\ x = level
           \/ node = "empty" /\ x = Fail("empty")
           \/ node # "absent" /\ ~IsString(node) /\ x = Fail("not_a_string")
<1> DEFINE g == <<node = "absent", level>>
           h == <<node = "empty", Fail("empty")>>
           i == <<node # "absent" /\ ~IsString(node), Fail("not_a_string")>>
<1>1. TextTruths(node, level) = Chosen({g, h, i})
  BY DEF TextTruths
<1>2. /\ g[1] <=> node = "absent"
      /\ g[2] = level
      /\ h[1] <=> node = "empty"
      /\ h[2] = Fail("empty")
      /\ i[1] <=> node # "absent" /\ ~IsString(node)
      /\ i[2] = Fail("not_a_string")
  OBVIOUS
<1> HIDE DEF g, h, i
<1>3. x \in Chosen({g, h, i}) <=>
        (g[1] /\ x = g[2]) \/ (h[1] /\ x = h[2]) \/ (i[1] /\ x = i[2])
  BY Chosen3
<1> QED
  BY <1>1, <1>2, <1>3

LEMMA FeatureTruth ==
  ASSUME NEW d, NEW used, NEW x
  PROVE  x \in FeatureTruths(d, used) <=>
           used /\ ~d.feature /\ x = Fail("feature_not_defined")
BY Chosen1 DEF FeatureTruths

LEMMA InterfaceTruth ==
  ASSUME NEW d, NEW used, NEW functions, NEW x
  PROVE  x \in InterfaceTruths(d, used, functions) <=>
           \/ used /\ ~d.returned /\ x = Fail("interface_not_returned")
           \/ used /\ ~d.listed /\ x = Fail("interface_not_defined")
           \/ \E f \in functions : d.returned /\ f \notin d.has /\ x = Missing(f)
<1> DEFINE g == <<used /\ ~d.returned, Fail("interface_not_returned")>>
           h == <<used /\ ~d.listed, Fail("interface_not_defined")>>
           tag(f) == <<d.returned /\ f \notin d.has, Missing(f)>>
           lacks == {tag(f) : f \in functions}
<1>1. InterfaceTruths(d, used, functions) = Chosen({g, h}) \cup Chosen(lacks)
  <2>1. InterfaceTruths(d, used, functions) = Chosen({g, h} \cup lacks)
    BY DEF InterfaceTruths
  <2> QED
    BY <2>1, ChosenUnion
<1>2. /\ g[1] <=> used /\ ~d.returned
      /\ g[2] = Fail("interface_not_returned")
      /\ h[1] <=> used /\ ~d.listed
      /\ h[2] = Fail("interface_not_defined")
  OBVIOUS
<1>3. \A f \in functions : /\ tag(f)[1] <=> d.returned /\ f \notin d.has
                           /\ tag(f)[2] = Missing(f)
  OBVIOUS
<1> HIDE DEF g, h, tag
<1>4. x \in Chosen({g, h}) <=>
        \/ used /\ ~d.returned /\ x = Fail("interface_not_returned")
        \/ used /\ ~d.listed /\ x = Fail("interface_not_defined")
  BY <1>2, Chosen2
<1>5. x \in Chosen(lacks) <=>
        \E f \in functions : d.returned /\ f \notin d.has /\ x = Missing(f)
  BY <1>3 DEF Chosen
<1> QED
  BY <1>1, <1>4, <1>5
-----------------------------------------------------------------------------
(* Extensions with an interface                                            *)

(* The interface, then what it lacks, then what the metadata lack. *)
LEMMA StateSound ==
  ASSUME NEW d
  PROVE  Sound("Plugin State", d)
<1> DEFINE t == "Plugin State"
           used == d.feature \/ d.threadsafe \/ d.state \/ d.listed \/ d.returned
           r1 == <<~d.returned, Fail("interface_not_returned")>>
           r2 == <<"save" \notin d.has, Missing("save")>>
           r3 == <<"restore" \notin d.has, Missing("restore")>>
           r4 == <<~d.listed, Fail("interface_not_defined")>>
           r5 == <<d.state /\ ~d.feature, Fail("feature_not_defined")>>
           r6 == <<d.feature /\ ~d.state, Warn("state_not_defined")>>
<1>1. Result(t, d) = IF used THEN Cascade(<<r1, r2, r3, r4, r5, r6>>) ELSE Pass
  BY DEF Result, TestState
<1>2. Cascade(<<r1, r2, r3, r4, r5, r6>>) =
        IF r1[1] THEN r1[2] ELSE IF r2[1] THEN r2[2] ELSE IF r3[1] THEN r3[2]
        ELSE IF r4[1] THEN r4[2] ELSE IF r5[1] THEN r5[2] ELSE IF r6[1] THEN r6[2] ELSE Pass
  <2> HIDE DEF r1, r2, r3, r4, r5, r6
  <2> QED
    BY Cascade6
<1>3. Result(t, d) =
        IF ~used THEN Pass
        ELSE IF ~d.returned THEN Fail("interface_not_returned")
        ELSE IF "save" \notin d.has THEN Missing("save")
        ELSE IF "restore" \notin d.has THEN Missing("restore")
        ELSE IF ~d.listed THEN Fail("interface_not_defined")
        ELSE IF d.state /\ ~d.feature THEN Fail("feature_not_defined")
        ELSE IF d.feature /\ ~d.state THEN Warn("state_not_defined")
        ELSE Pass
  BY <1>1, <1>2
<1>4. ASSUME NEW x
      PROVE  x \in Truths(t, d) <=>
               \/ used /\ ~d.returned /\ x = Fail("interface_not_returned")
               \/ used /\ ~d.listed /\ x = Fail("interface_not_defined")
               \/ d.returned /\ "save" \notin d.has /\ x = Missing("save")
               \/ d.returned /\ "restore" \notin d.has /\ x = Missing("restore")
               \/ d.state /\ ~d.feature /\ x = Fail("feature_not_defined")
               \/ d.feature /\ ~d.state /\ x = Warn("state_not_defined")
  <2>1. x \in Truths(t, d) <=>
          \/ x \in InterfaceTruths(d, used, {"save", "restore"})
          \/ x \in FeatureTruths(d, d.state)
          \/ d.feature /\ ~d.state /\ x = Warn("state_not_defined")
    BY Chosen1 DEF Truths
  <2> HIDE DEF t, used
  <2> QED
    BY <2>1, InterfaceTruth, FeatureTruth
<1> HIDE DEF t, r1, r2, r3, r4, r5, r6
<1>5. Told(t, d)
  BY <1>3, <1>4 DEF Told, Missing
<1>6. NothingWorse(t, d)
  <2> SUFFICES ASSUME NEW x \in Truths(t, d) \ Overlooked(t, d)
               PROVE  \/ Level(x) <= Level(Result(t, d))
                      \/ Result(t, d) = Of(Note("function_missing"), "end_run")
    BY DEF NothingWorse, Level
  <2>1. Level(x) \in 1..3
    BY <1>4, Levels, LevelsOf DEF Missing
  <2>2. CASE Level(Result(t, d)) = 3
    BY <2>1, <2>2
  <2>3. CASE Level(Result(t, d)) # 3
    BY <2>3, <1>3, <1>4, Levels, LevelsOf, AlwaysOverlooked DEF Missing
  <2> QED
    BY <2>2, <2>3
<1> QED
  BY <1>5, <1>6 DEF Sound, t

(* The note of a missing end_run comes before the feature and the listing:
   it is the one finding that hides a graver one. *)
LEMMA WorkerSound ==
  ASSUME NEW d
  PROVE  Sound("Plugin Worker", d)
<1> DEFINE t == "Plugin Worker"
           used == d.feature \/ d.listed \/ d.returned
           r1 == <<~d.returned, Fail("interface_not_returned")>>
           r2 == <<"work" \notin d.has, Missing("work")>>
           r3 == <<"work_response" \notin d.has, Missing("work_response")>>
           r4 == <<"end_run" \notin d.has, Of(Note("function_missing"), "end_run")>>
           r5 == <<~d.feature, Fail("feature_not_defined")>>
           r6 == <<~d.listed, Fail("interface_not_defined")>>
<1>1. Result(t, d) = IF used THEN Cascade(<<r1, r2, r3, r4, r5, r6>>) ELSE Pass
  BY DEF Result, TestWorker
<1>2. Cascade(<<r1, r2, r3, r4, r5, r6>>) =
        IF r1[1] THEN r1[2] ELSE IF r2[1] THEN r2[2] ELSE IF r3[1] THEN r3[2]
        ELSE IF r4[1] THEN r4[2] ELSE IF r5[1] THEN r5[2] ELSE IF r6[1] THEN r6[2] ELSE Pass
  <2> HIDE DEF r1, r2, r3, r4, r5, r6
  <2> QED
    BY Cascade6
<1>3. Result(t, d) =
        IF ~used THEN Pass
        ELSE IF ~d.returned THEN Fail("interface_not_returned")
        ELSE IF "work" \notin d.has THEN Missing("work")
        ELSE IF "work_response" \notin d.has THEN Missing("work_response")
        ELSE IF "end_run" \notin d.has
             THEN Of(Note("function_missing"), "end_run")
        ELSE IF ~d.feature THEN Fail("feature_not_defined")
        ELSE IF ~d.listed THEN Fail("interface_not_defined")
        ELSE Pass
  BY <1>1, <1>2
<1>4. ASSUME NEW x
      PROVE  x \in Truths(t, d) <=>
               \/ used /\ ~d.returned /\ x = Fail("interface_not_returned")
               \/ used /\ ~d.listed /\ x = Fail("interface_not_defined")
               \/ d.returned /\ "work" \notin d.has /\ x = Missing("work")
               \/ d.returned /\ "work_response" \notin d.has /\ x = Missing("work_response")
               \/ used /\ ~d.feature /\ x = Fail("feature_not_defined")
               \/ /\ d.returned /\ "end_run" \notin d.has
                  /\ x = Of(Note("function_missing"), "end_run")
  <2>1. x \in Truths(t, d) <=>
          \/ x \in InterfaceTruths(d, used, {"work", "work_response"})
          \/ x \in FeatureTruths(d, used)
          \/ /\ d.returned /\ "end_run" \notin d.has
             /\ x = Of(Note("function_missing"), "end_run")
    BY Chosen1 DEF Truths
  <2> HIDE DEF t, used
  <2> QED
    BY <2>1, InterfaceTruth, FeatureTruth
<1> HIDE DEF t, r1, r2, r3, r4, r5, r6
<1>5. Told(t, d)
  BY <1>3, <1>4 DEF Told, Missing
<1>6. NothingWorse(t, d)
  <2> SUFFICES ASSUME NEW x \in Truths(t, d) \ Overlooked(t, d)
               PROVE  \/ Level(x) <= Level(Result(t, d))
                      \/ Result(t, d) = Of(Note("function_missing"), "end_run")
    BY DEF NothingWorse, Level
  <2>1. Level(x) \in 1..3
    BY <1>4, Levels, LevelsOf DEF Missing
  <2>2. CASE Level(Result(t, d)) = 3
    BY <2>1, <2>2
  <2>3. CASE Level(Result(t, d)) # 3
    BY <2>3, <1>3, <1>4, Levels, LevelsOf, AlwaysOverlooked DEF Missing
  <2> QED
    BY <2>2, <2>3
<1> QED
  BY <1>5, <1>6 DEF Sound, t

(* The options interface needs no feature. *)
LEMMA OptionsIfaceSound ==
  ASSUME NEW d
  PROVE  Sound("Plugin Options Iface", d)
<1> DEFINE t == "Plugin Options Iface"
           used == d.listed \/ d.returned
           r1 == <<~d.returned, Fail("interface_not_returned")>>
           r2 == <<"get" \notin d.has, Missing("get")>>
           r3 == <<"set" \notin d.has, Missing("set")>>
           r4 == <<~d.listed, Fail("interface_not_defined")>>
<1>1. Result(t, d) = IF used THEN Cascade(<<r1, r2, r3, r4>>) ELSE Pass
  BY DEF Result, TestOptionsIface
<1>2. Cascade(<<r1, r2, r3, r4>>) =
        IF r1[1] THEN r1[2] ELSE IF r2[1] THEN r2[2] ELSE IF r3[1] THEN r3[2]
        ELSE IF r4[1] THEN r4[2] ELSE Pass
  <2> HIDE DEF r1, r2, r3, r4
  <2> QED
    BY Cascade4
<1>3. Result(t, d) =
        IF ~used THEN Pass
        ELSE IF ~d.returned THEN Fail("interface_not_returned")
        ELSE IF "get" \notin d.has THEN Missing("get")
        ELSE IF "set" \notin d.has THEN Missing("set")
        ELSE IF ~d.listed THEN Fail("interface_not_defined")
        ELSE Pass
  BY <1>1, <1>2
<1>4. ASSUME NEW x
      PROVE  x \in Truths(t, d) <=>
               \/ used /\ ~d.returned /\ x = Fail("interface_not_returned")
               \/ used /\ ~d.listed /\ x = Fail("interface_not_defined")
               \/ d.returned /\ "get" \notin d.has /\ x = Missing("get")
               \/ d.returned /\ "set" \notin d.has /\ x = Missing("set")
  <2>1. x \in Truths(t, d) <=>
          \/ x \in InterfaceTruths(d, used, {"get", "set"})
    BY Chosen1 DEF Truths
  <2> HIDE DEF t, used
  <2> QED
    BY <2>1, InterfaceTruth
<1> HIDE DEF t, r1, r2, r3, r4
<1>5. Told(t, d)
  BY <1>3, <1>4 DEF Told, Missing
<1>6. NothingWorse(t, d)
  <2> SUFFICES ASSUME NEW x \in Truths(t, d) \ Overlooked(t, d)
               PROVE  \/ Level(x) <= Level(Result(t, d))
                      \/ Result(t, d) = Of(Note("function_missing"), "end_run")
    BY DEF NothingWorse, Level
  <2>1. Level(x) \in 1..3
    BY <1>4, Levels, LevelsOf DEF Missing
  <2>2. CASE Level(Result(t, d)) = 3
    BY <2>1, <2>2
  <2>3. CASE Level(Result(t, d)) # 3
    BY <2>3, <1>3, <1>4, Levels, LevelsOf, AlwaysOverlooked DEF Missing
  <2> QED
    BY <2>2, <2>3
<1> QED
  BY <1>5, <1>6 DEF Sound, t

(* The inline display asks for the feature before the listing. *)
LEMMA IdispSound ==
  ASSUME NEW d
  PROVE  Sound("Plugin Inline Display", d)
<1> DEFINE t == "Plugin Inline Display"
           used == d.feature \/ d.listed \/ d.returned
           r1 == <<~d.returned, Fail("interface_not_returned")>>
           r2 == <<"render" \notin d.has, Missing("render")>>
           r3 == <<~d.feature, Fail("feature_not_defined")>>
           r4 == <<~d.listed, Fail("interface_not_defined")>>
<1>1. Result(t, d) = IF used THEN Cascade(<<r1, r2, r3, r4>>) ELSE Pass
  BY DEF Result, TestIdisp
<1>2. Cascade(<<r1, r2, r3, r4>>) =
        IF r1[1] THEN r1[2] ELSE IF r2[1] THEN r2[2] ELSE IF r3[1] THEN r3[2]
        ELSE IF r4[1] THEN r4[2] ELSE Pass
  <2> HIDE DEF r1, r2, r3, r4
  <2> QED
    BY Cascade4
<1>3. Result(t, d) =
        IF ~used THEN Pass
        ELSE IF ~d.returned THEN Fail("interface_not_returned")
        ELSE IF "render" \notin d.has THEN Missing("render")
        ELSE IF ~d.feature THEN Fail("feature_not_defined")
        ELSE IF ~d.listed THEN Fail("interface_not_defined")
        ELSE Pass
  BY <1>1, <1>2
<1>4. ASSUME NEW x
      PROVE  x \in Truths(t, d) <=>
               \/ used /\ ~d.returned /\ x = Fail("interface_not_returned")
               \/ used /\ ~d.listed /\ x = Fail("interface_not_defined")
               \/ d.returned /\ "render" \notin d.has /\ x = Missing("render")
               \/ used /\ ~d.feature /\ x = Fail("feature_not_defined")
  <2>1. x \in Truths(t, d) <=>
          \/ x \in InterfaceTruths(d, used, {"render"})
          \/ x \in FeatureTruths(d, used)
    BY Chosen1 DEF Truths
  <2> HIDE DEF t, used
  <2> QED
    BY <2>1, InterfaceTruth, FeatureTruth
<1> HIDE DEF t, r1, r2, r3, r4
<1>5. Told(t, d)
  BY <1>3, <1>4 DEF Told, Missing
<1>6. NothingWorse(t, d)
  <2> SUFFICES ASSUME NEW x \in Truths(t, d) \ Overlooked(t, d)
               PROVE  \/ Level(x) <= Level(Result(t, d))
                      \/ Result(t, d) = Of(Note("function_missing"), "end_run")
    BY DEF NothingWorse, Level
  <2>1. Level(x) \in 1..3
    BY <1>4, Levels, LevelsOf DEF Missing
  <2>2. CASE Level(Result(t, d)) = 3
    BY <2>1, <2>2
  <2>3. CASE Level(Result(t, d)) # 3
    BY <2>3, <1>3, <1>4, Levels, LevelsOf, AlwaysOverlooked DEF Missing
  <2> QED
    BY <2>2, <2>3
<1> QED
  BY <1>5, <1>6 DEF Sound, t

(* Each question names the two other reasons to ask it. *)
LEMMA IdleSound ==
  ASSUME NEW d
  PROVE  Sound("UI Idle Interface", d)
<1> DEFINE t == "UI Idle Interface"
           used == d.feature \/ d.listed \/ d.returned
           r1 == <<(d.listed \/ d.returned) /\ ~d.feature,
                   Fail("feature_not_defined")>>
           r2 == <<(d.feature \/ d.returned) /\ ~d.listed,
                   Fail("interface_not_defined")>>
           r3 == <<(d.listed \/ d.feature) /\ ~d.returned,
                   Fail("interface_not_returned")>>
<1>1. Result(t, d) = Cascade(<<r1, r2, r3>>)
  BY DEF Result, TestIdle
<1>2. Cascade(<<r1, r2, r3>>) =
        IF r1[1] THEN r1[2] ELSE IF r2[1] THEN r2[2] ELSE IF r3[1] THEN r3[2] ELSE Pass
  <2> HIDE DEF r1, r2, r3
  <2> QED
    BY Cascade3
<1>3. Result(t, d) =
        IF (d.listed \/ d.returned) /\ ~d.feature
             THEN Fail("feature_not_defined")
        ELSE IF (d.feature \/ d.returned) /\ ~d.listed
             THEN Fail("interface_not_defined")
        ELSE IF (d.listed \/ d.feature) /\ ~d.returned
             THEN Fail("interface_not_returned")
        ELSE Pass
  BY <1>1, <1>2
<1>4. ASSUME NEW x
      PROVE  x \in Truths(t, d) <=>
               \/ used /\ ~d.returned /\ x = Fail("interface_not_returned")
               \/ used /\ ~d.listed /\ x = Fail("interface_not_defined")
               \/ used /\ ~d.feature /\ x = Fail("feature_not_defined")
  <2>1. x \in Truths(t, d) <=>
          \/ x \in InterfaceTruths(d, used, {})
          \/ x \in FeatureTruths(d, used)
    BY Chosen1 DEF Truths
  <2> HIDE DEF t, used
  <2> QED
    BY <2>1, InterfaceTruth, FeatureTruth
<1> HIDE DEF t, r1, r2, r3
<1>5. Told(t, d)
  BY <1>3, <1>4 DEF Told
<1>6. NothingWorse(t, d)
  <2> SUFFICES ASSUME NEW x \in Truths(t, d) \ Overlooked(t, d)
               PROVE  \/ Level(x) <= Level(Result(t, d))
                      \/ Result(t, d) = Of(Note("function_missing"), "end_run")
    BY DEF NothingWorse, Level
  <2>1. Level(x) \in 1..3
    BY <1>4, Levels, LevelsOf
  <2>2. CASE Level(Result(t, d)) = 3
    BY <2>1, <2>2
  <2>3. CASE Level(Result(t, d)) # 3
    BY <2>3, <1>3, <1>4, Levels, LevelsOf, AlwaysOverlooked
  <2> QED
    BY <2>2, <2>3
<1> QED
  BY <1>5, <1>6 DEF Sound, t

(* There is no feature for the show interface. *)
LEMMA ShowSound ==
  ASSUME NEW d
  PROVE  Sound("UI Show Interface", d)
<1> DEFINE t == "UI Show Interface"
           used == d.listed \/ d.returned
           r1 == <<d.returned /\ ~d.listed, Fail("interface_not_defined")>>
           r2 == <<d.listed /\ ~d.returned, Fail("interface_not_returned")>>
<1>1. Result(t, d) = Cascade(<<r1, r2>>)
  BY DEF Result, TestShow
<1>2. Cascade(<<r1, r2>>) =
        IF r1[1] THEN r1[2] ELSE IF r2[1] THEN r2[2] ELSE Pass
  <2> HIDE DEF r1, r2
  <2> QED
    BY Cascade2
<1>3. Result(t, d) =
        IF d.returned /\ ~d.listed THEN Fail("interface_not_defined")
        ELSE IF d.listed /\ ~d.returned THEN Fail("interface_not_returned")
        ELSE Pass
  BY <1>1, <1>2
<1>4. ASSUME NEW x
      PROVE  x \in Truths(t, d) <=>
               \/ used /\ ~d.returned /\ x = Fail("interface_not_returned")
               \/ used /\ ~d.listed /\ x = Fail("interface_not_defined")
  <2>1. x \in Truths(t, d) <=>
          \/ x \in InterfaceTruths(d, used, {})
    BY Chosen1 DEF Truths
  <2> HIDE DEF t, used
  <2> QED
    BY <2>1, InterfaceTruth
<1> HIDE DEF t, r1, r2
<1>5. Told(t, d)
  BY <1>3, <1>4 DEF Told
<1>6. NothingWorse(t, d)
  <2> SUFFICES ASSUME NEW x \in Truths(t, d) \ Overlooked(t, d)
               PROVE  \/ Level(x) <= Level(Result(t, d))
                      \/ Result(t, d) = Of(Note("function_missing"), "end_run")
    BY DEF NothingWorse, Level
  <2>1. Level(x) \in 1..3
    BY <1>4, Levels, LevelsOf
  <2>2. CASE Level(Result(t, d)) = 3
    BY <2>1, <2>2
  <2>3. CASE Level(Result(t, d)) # 3
    BY <2>3, <1>3, <1>4, Levels, LevelsOf, AlwaysOverlooked
  <2> QED
    BY <2>2, <2>3
<1> QED
  BY <1>5, <1>6 DEF Sound, t

(* Its last branch is what Overlooked excuses: it is not reached. *)
LEMMA OptionsFeatureSound ==
  ASSUME NEW d
  PROVE  Sound("Plugin Options Feature", d)
<1> DEFINE t == "Plugin Options Feature"
           n == d.required + d.supported
           a == <<~d.feature, Fail("feature_not_defined")>>
           b == <<n = 0, Warn("options_not_defined")>>
<1>1. Result(t, d) = IF d.feature \/ n > 0 THEN Cascade(<<a, b>>)
                     ELSE IF d.required > 0 THEN Warn("required_options_defined") ELSE Pass
  BY DEF Result, TestOptionsFeature
<1>2. Cascade(<<a, b>>) = IF a[1] THEN a[2] ELSE IF b[1] THEN b[2] ELSE Pass
  <2> HIDE DEF a, b
  <2> QED
    BY Cascade2
<1>3. Cascade(<<a, b>>) = IF ~d.feature THEN Fail("feature_not_defined")
                          ELSE IF n = 0 THEN Warn("options_not_defined") ELSE Pass
  BY <1>2
<1>4. ASSUME NEW x
      PROVE  x \in Truths(t, d) <=>
               \/ n > 0 /\ ~d.feature /\ x = Fail("feature_not_defined")
               \/ d.feature /\ n = 0 /\ x = Warn("options_not_defined")
               \/ d.required > 0 /\ x = Warn("required_options_defined")
  <2> DEFINE used == n > 0
             p == <<d.feature /\ n = 0, Warn("options_not_defined")>>
             q == <<d.required > 0, Warn("required_options_defined")>>
  <2>1. Truths(t, d) = FeatureTruths(d, used) \cup Chosen({p, q})
    BY DEF Truths
  <2>2. x \in Chosen({p, q}) <=> (p[1] /\ x = p[2]) \/ (q[1] /\ x = q[2])
    <3> HIDE DEF p, q
    <3> QED
      BY ONLY Chosen2
  <2>3. x \in FeatureTruths(d, used) <=> used /\ ~d.feature /\ x = Fail("feature_not_defined")
    <3> HIDE DEF used
    <3> QED
      BY FeatureTruth
  <2> HIDE DEF t
  <2> QED
    BY <2>1, <2>2, <2>3
<1> HIDE DEF t, a, b, n
<1>5. Told(t, d)
  BY <1>1, <1>3, <1>4 DEF Told
<1>6. NothingWorse(t, d)
  <2> SUFFICES ASSUME NEW x \in Truths(t, d) \ Overlooked(t, d)
               PROVE  Level(x) <= Level(Result(t, d))
    BY DEF NothingWorse, Level
  <2>1. x # Warn("required_options_defined")
    BY AlwaysOverlooked
  <2>2. CASE n > 0 /\ ~d.feature /\ x = Fail("feature_not_defined")
    BY <1>1, <1>3, <2>2, Levels
  <2>3. CASE d.feature /\ n = 0 /\ x = Warn("options_not_defined")
    BY <1>1, <1>3, <2>3, Levels
  <2> QED
    BY <1>4, <2>1, <2>2, <2>3
<1> QED
  BY <1>5, <1>6 DEF Sound, t

-----------------------------------------------------------------------------
(* Texts, URIs and numbers                                                 *)

(* The license of the project counts if the plugin has none. *)
LEMMA LicenseSound ==
  ASSUME NEW d
  PROVE  Sound("Plugin License", d)
<1> DEFINE t == "Plugin License"
           node == IF d.node = "absent" /\ d.project THEN d.projects ELSE d.node
           found == {d.node} \cup IF d.node = "absent" /\ d.project THEN {d.projects} ELSE {}
           r1 == <<node = "absent", Warn("not_found")>>
           r2 == <<node # "uri", Fail("not_a_URI")>>
<1>1. Result(t, d) = Cascade(<<r1, r2>>)
  BY DEF Result, TestLicense, UriRules
<1>2. Cascade(<<r1, r2>>) =
        IF r1[1] THEN r1[2] ELSE IF r2[1] THEN r2[2] ELSE Pass
  <2> HIDE DEF r1, r2
  <2> QED
    BY Cascade2
<1>3. Result(t, d) =
        IF node = "absent" THEN Warn("not_found")
        ELSE IF node # "uri" THEN Fail("not_a_URI")
        ELSE Pass
  BY <1>1, <1>2
<1>4. ASSUME NEW x
      PROVE  x \in Truths(t, d) <=>
               \/ found = {"absent"} /\ x = Warn("not_found")
               \/ found \ {"absent", "uri"} # {} /\ x = Fail("not_a_URI")
  <2> DEFINE s1 == <<found = {"absent"}, Warn("not_found")>>
             s2 == <<found \ {"absent", "uri"} # {}, Fail("not_a_URI")>>
  <2>1. Truths(t, d) = Chosen({s1, s2})
    BY DEF Truths
  <2>2. x \in Chosen({s1, s2}) <=>
          (s1[1] /\ x = s1[2]) \/ (s2[1] /\ x = s2[2])
    <3> HIDE DEF s1, s2
    <3> QED
      BY ONLY Chosen2
  <2> HIDE DEF t
  <2> QED
    BY <2>1, <2>2
<1> HIDE DEF t, r1, r2
<1>5. Told(t, d)
  BY <1>3, <1>4 DEF Told
<1>6. NothingWorse(t, d)
  <2> SUFFICES ASSUME NEW x \in Truths(t, d) \ Overlooked(t, d)
               PROVE  \/ Level(x) <= Level(Result(t, d))
                      \/ Result(t, d) = Of(Note("function_missing"), "end_run")
    BY DEF NothingWorse, Level
  <2>1. Level(x) \in 1..3
    BY <1>4, Levels, LevelsOf
  <2>2. CASE Level(Result(t, d)) = 3
    BY <2>1, <2>2
  <2>3. CASE Level(Result(t, d)) # 3
    BY <2>3, <1>3, <1>4, Levels, LevelsOf, AlwaysOverlooked
  <2> QED
    BY <2>2, <2>3
<1> QED
  BY <1>5, <1>6 DEF Sound, t

(* A description is looked at only without a comment. *)
LEMMA CommentSound ==
  ASSUME NEW d
  PROVE  Sound("Plugin Comment", d)
<1> DEFINE t == "Plugin Comment"
           r1 == <<d.node = "absent" /\ d.description = "absent", Note("not_found")>>
           r2 == <<d.node # "absent" /\ ~IsString(d.node),
                   Fail("comment_not_a_string")>>
           r3 == <<d.node = "absent" /\ ~IsString(d.description),
                   Fail("description_not_a_string")>>
<1>1. Result(t, d) = Cascade(<<r1, r2, r3>>)
  BY DEF Result, TestComment
<1>2. Cascade(<<r1, r2, r3>>) =
        IF r1[1] THEN r1[2] ELSE IF r2[1] THEN r2[2] ELSE IF r3[1] THEN r3[2] ELSE Pass
  <2> HIDE DEF r1, r2, r3
  <2> QED
    BY Cascade3
<1>3. Result(t, d) =
        IF d.node = "absent" /\ d.description = "absent"
             THEN Note("not_found")
        ELSE IF d.node # "absent" /\ ~IsString(d.node)
             THEN Fail("comment_not_a_string")
        ELSE IF d.node = "absent" /\ ~IsString(d.description)
             THEN Fail("description_not_a_string")
        ELSE Pass
  BY <1>1, <1>2
<1>4. ASSUME NEW x
      PROVE  x \in Truths(t, d) <=>
               \/ {d.node, d.description} = {"absent"} /\ x = Note("not_found")
               \/ /\ d.node \notin {"absent", "string", "empty"}
                  /\ x = Fail("comment_not_a_string")
               \/ /\ d.description \notin {"absent", "string", "empty"}
                  /\ x = Fail("description_not_a_string")
  <2> DEFINE s1 == <<{d.node, d.description} = {"absent"}, Note("not_found")>>
             s2 == <<d.node \notin {"absent", "string", "empty"},
                     Fail("comment_not_a_string")>>
             s3 == <<d.description \notin {"absent", "string", "empty"},
                     Fail("description_not_a_string")>>
  <2>1. Truths(t, d) = Chosen({s1, s2, s3})
    BY DEF Truths
  <2>2. x \in Chosen({s1, s2, s3}) <=>
          (s1[1] /\ x = s1[2]) \/ (s2[1] /\ x = s2[2]) \/ (s3[1] /\ x = s3[2])
    <3> HIDE DEF s1, s2, s3
    <3> QED
      BY ONLY Chosen3
  <2> HIDE DEF t
  <2> QED
    BY <2>1, <2>2
<1>5. d.node # "absent" => Fail("description_not_a_string") \in Overlooked(t, d)
  BY DEF Overlooked
<1> HIDE DEF t, r1, r2, r3
<1>6. Told(t, d)
  BY <1>3, <1>4 DEF Told, IsString
<1>7. NothingWorse(t, d)
  <2> SUFFICES ASSUME NEW x \in Truths(t, d) \ Overlooked(t, d)
               PROVE  \/ Level(x) <= Level(Result(t, d))
                      \/ Result(t, d) = Of(Note("function_missing"), "end_run")
    BY DEF NothingWorse, Level
  <2>1. Level(x) \in 1..3
    BY <1>4, Levels, LevelsOf DEF IsString
  <2>2. CASE Level(Result(t, d)) = 3
    BY <2>1, <2>2
  <2>3. CASE Level(Result(t, d)) # 3
    BY <2>3, <1>3, <1>4, <1>5, Levels, LevelsOf, AlwaysOverlooked DEF IsString
  <2> QED
    BY <2>2, <2>3
<1> QED
  BY <1>6, <1>7 DEF Sound, t

(* Odd and zero versions are unstable, if they are numbers. *)
LEMMA VersionMinorSound ==
  ASSUME NEW d
  PROVE  Sound("Plugin Version Minor", d)
<1> DEFINE t == "Plugin Version Minor"
           r1 == <<d.node = "absent", Fail("not_found")>>
           r2 == <<d.node # "number", Fail("not_an_integer")>>
           r3 == <<Odd(d.version) \/ d.version = 0, Note("unstable")>>
<1>1. Result(t, d) = Cascade(<<r1, r2, r3>>)
  BY DEF Result, TestVersionMinor
<1>2. Cascade(<<r1, r2, r3>>) =
        IF r1[1] THEN r1[2] ELSE IF r2[1] THEN r2[2] ELSE IF r3[1] THEN r3[2] ELSE Pass
  <2> HIDE DEF r1, r2, r3
  <2> QED
    BY Cascade3
<1>3. Result(t, d) =
        IF d.node = "absent" THEN Fail("not_found")
        ELSE IF d.node # "number" THEN Fail("not_an_integer")
        ELSE IF Odd(d.version) \/ d.version = 0 THEN Note("unstable")
        ELSE Pass
  BY <1>1, <1>2
<1>4. ASSUME NEW x
      PROVE  x \in Truths(t, d) <=>
               \/ d.node = "absent" /\ x = Fail("not_found")
               \/ d.node \notin {"absent", "number"} /\ x = Fail("not_an_integer")
               \/ /\ d.node = "number" /\ (Odd(d.version) \/ d.version = 0)
                  /\ x = Note("unstable")
  <2> DEFINE s1 == <<d.node = "absent", Fail("not_found")>>
             s2 == <<d.node \notin {"absent", "number"}, Fail("not_an_integer")>>
             s3 == <<d.node = "number" /\ (Odd(d.version) \/ d.version = 0),
                     Note("unstable")>>
  <2>1. Truths(t, d) = Chosen({s1, s2, s3})
    BY DEF Truths
  <2>2. x \in Chosen({s1, s2, s3}) <=>
          (s1[1] /\ x = s1[2]) \/ (s2[1] /\ x = s2[2]) \/ (s3[1] /\ x = s3[2])
    <3> HIDE DEF s1, s2, s3
    <3> QED
      BY ONLY Chosen3
  <2> HIDE DEF t
  <2> QED
    BY <2>1, <2>2
<1> HIDE DEF t, r1, r2, r3
<1>5. Told(t, d)
  BY <1>3, <1>4 DEF Told
<1>6. NothingWorse(t, d)
  <2> SUFFICES ASSUME NEW x \in Truths(t, d) \ Overlooked(t, d)
               PROVE  \/ Level(x) <= Level(Result(t, d))
                      \/ Result(t, d) = Of(Note("function_missing"), "end_run")
    BY DEF NothingWorse, Level
  <2>1. Level(x) \in 1..3
    BY <1>4, Levels, LevelsOf
  <2>2. CASE Level(Result(t, d)) = 3
    BY <2>1, <2>2
  <2>3. CASE Level(Result(t, d)) # 3
    BY <2>3, <1>3, <1>4, Levels, LevelsOf, AlwaysOverlooked
  <2> QED
    BY <2>2, <2>3
<1> QED
  BY <1>5, <1>6 DEF Sound, t

(* An empty name passes, which Overlooked excuses. *)
LEMMA ProjectSound ==
  ASSUME NEW d
  PROVE  Sound("Plugin Project", d)
<1> DEFINE t == "Plugin Project"
           r1 == <<~d.project, Note("project_not_found")>>
           r2 == <<d.node = "absent", Warn("not_found")>>
           r3 == <<~IsString(d.node), Fail("not_a_string")>>
<1>1. Result(t, d) = Cascade(<<r1, r2, r3>>)
  <2>1. Result(t, d) = Cascade(<<r1>> \o <<r2, r3>>)
    BY DEF Result, TestProject, TextRules
  <2>2. <<r1>> \o <<r2, r3>> = <<r1, r2, r3>>
    <3> HIDE DEF r1, r2, r3
    <3> QED
      BY OneThenTwo
  <2> QED
    BY <2>1, <2>2
<1>2. Cascade(<<r1, r2, r3>>) =
        IF r1[1] THEN r1[2] ELSE IF r2[1] THEN r2[2] ELSE IF r3[1] THEN r3[2] ELSE Pass
  <2> HIDE DEF r1, r2, r3
  <2> QED
    BY Cascade3
<1>3. Result(t, d) =
        IF ~d.project THEN Note("project_not_found")
        ELSE IF d.node = "absent" THEN Warn("not_found")
        ELSE IF ~IsString(d.node) THEN Fail("not_a_string")
        ELSE Pass
  BY <1>1, <1>2
<1>4. ASSUME NEW x
      PROVE  x \in Truths(t, d) <=>
               \/ ~d.project /\ x = Note("project_not_found")
               \/ d.project /\ d.node = "absent" /\ x = Warn("not_found")
               \/ d.project /\ d.node = "empty" /\ x = Fail("empty")
               \/ /\ d.project /\ d.node # "absent" /\ ~IsString(d.node)
                  /\ x = Fail("not_a_string")
  <2>1. CASE d.project
    <3>1. Truths(t, d) = TextTruths(d.node, Warn("not_found"))
      BY <2>1 DEF Truths
    <3> HIDE DEF t
    <3> QED
      BY <2>1, <3>1, TextTruth
  <2>2. CASE ~d.project
    <3>1. Truths(t, d) = {Note("project_not_found")}
      BY <2>2 DEF Truths
    <3> HIDE DEF t
    <3> QED
      BY <2>2, <3>1
  <2> QED
    BY <2>1, <2>2
<1> HIDE DEF t, r1, r2, r3
<1>5. Told(t, d)
  BY <1>3, <1>4 DEF Told, IsString
<1>6. NothingWorse(t, d)
  <2> SUFFICES ASSUME NEW x \in Truths(t, d) \ Overlooked(t, d)
               PROVE  \/ Level(x) <= Level(Result(t, d))
                      \/ Result(t, d) = Of(Note("function_missing"), "end_run")
    BY DEF NothingWorse, Level
  <2>1. Level(x) \in 1..3
    BY <1>4, Levels, LevelsOf DEF IsString
  <2>2. CASE Level(Result(t, d)) = 3
    BY <2>1, <2>2
  <2>3. CASE Level(Result(t, d)) # 3
    BY <2>3, <1>3, <1>4, Levels, LevelsOf, AlwaysOverlooked DEF IsString
  <2> QED
    BY <2>2, <2>3
<1> QED
  BY <1>5, <1>6 DEF Sound, t

-----------------------------------------------------------------------------
(* Classes, features, properties                                           *)

(* Down from base by children or up from the class by parents: both ways   *)
(* find the same.                                                          *)
LEMMA MatchIsDescent ==
  ASSUME NEW parent, NEW base, NEW class, class # base
  PROVE  ClassMatch(parent, base, class) <=> base \in Ancestors(parent, class)
<1> DEFINE all == ParentsOf(parent, DOMAIN parent)
<1>1. ASSUME ClassMatch(parent, base, class)
      PROVE  base \in Ancestors(parent, class)
  <2> DEFINE line == {c \in {base} \cup DOMAIN parent :
                       c = base \/ base \in Ancestors(parent, c)}
  <2>1. ASSUME NEW child \in DOMAIN parent, parent[child] \in line
        PROVE  child \in line
    <3>1. ASSUME NEW set \in SUBSET all, ParentsOf(parent, {child} \cup set) \subseteq set
          PROVE  /\ parent[child] \in set
                 /\ ParentsOf(parent, {parent[child]} \cup set) \subseteq set
      BY <3>1 DEF ParentsOf
    <3>2. parent[child] \in all
      BY DEF ParentsOf
    <3>3. parent[child] = base \/ base \in Ancestors(parent, parent[child])
      BY <2>1
    <3>4. base \in Ancestors(parent, child)
      BY <3>1, <3>2, <3>3 DEF Ancestors
    <3> QED
      BY <3>4
  <2>2. line \in SUBSET ({base} \cup DOMAIN parent) /\ base \in line
    OBVIOUS
  <2>3. class \in line
    <3> HIDE DEF line
    <3> QED
      BY <1>1, <2>1, <2>2 DEF ClassMatch
  <2> QED
    BY <2>3
<1>2. ASSUME base \in Ancestors(parent, class)
      PROVE  ClassMatch(parent, base, class)
  <2> DEFINE set == {a \in all : ClassMatch(parent, a, class)}
  <2>1. ASSUME NEW x \in ({class} \cup set) \cap DOMAIN parent
        PROVE  ClassMatch(parent, parent[x], class)
    <3> SUFFICES ASSUME NEW line \in SUBSET ({parent[x]} \cup DOMAIN parent),
                        parent[x] \in line,
                        \A child \in DOMAIN parent : parent[child] \in line => child \in line
                 PROVE  class \in line
      BY DEF ClassMatch
    <3>1. x \in line
      OBVIOUS
    <3>2. CASE x = class
      BY <3>1, <3>2
    <3>3. CASE ClassMatch(parent, x, class)
      <4> DEFINE below == line \cap ({x} \cup DOMAIN parent)
      <4>1. /\ below \in SUBSET ({x} \cup DOMAIN parent)
            /\ x \in below
            /\ \A child \in DOMAIN parent : parent[child] \in below => child \in below
        BY <3>1
      <4>2. class \in below
        <5> HIDE DEF below
        <5> QED
          BY <3>3, <4>1 DEF ClassMatch
      <4> QED
        BY <4>2
    <3> QED
      BY <3>2, <3>3
  <2>2. ParentsOf(parent, {class} \cup set) \subseteq set
    BY <2>1 DEF ParentsOf
  <2>3. base \in set
    <3> HIDE DEF set
    <3>1. set \in SUBSET all
      BY DEF set
    <3> QED
      BY <1>2, <2>2, <3>1 DEF Ancestors
  <2> QED
    BY <2>3
<1> QED
  BY <1>1, <1>2

(* A class that is not below lv2:Plugin is refused, and no other. *)
LEMMA ClassSound ==
  ASSUME NEW d
  PROVE  Sound("Plugin Class", d)
<1> DEFINE t == "Plugin Class"
           r1 == <<d.class = "none", Fail("type_not_found")>>
           r2 == <<d.class = "Plugin", Warn("type_is_just_lv2_Plugin")>>
           r3 == <<~ClassMatch(d.parent, "Plugin", d.class),
                   Of(Fail("type_not_valid"), d.class)>>
<1>1. Result(t, d) = Cascade(<<r1, r2, r3>>)
  BY DEF Result, TestClass
<1>2. Cascade(<<r1, r2, r3>>) =
        IF r1[1] THEN r1[2] ELSE IF r2[1] THEN r2[2] ELSE IF r3[1] THEN r3[2] ELSE Pass
  <2> HIDE DEF r1, r2, r3
  <2> QED
    BY Cascade3
<1>3. Result(t, d) =
        IF d.class = "none" THEN Fail("type_not_found")
        ELSE IF d.class = "Plugin" THEN Warn("type_is_just_lv2_Plugin")
        ELSE IF ~ClassMatch(d.parent, "Plugin", d.class)
             THEN Of(Fail("type_not_valid"), d.class)
        ELSE Pass
  BY <1>1, <1>2
<1>4. ASSUME NEW x
      PROVE  x \in Truths(t, d) <=>
               \/ d.class = "none" /\ x = Fail("type_not_found")
               \/ d.class = "Plugin" /\ x = Warn("type_is_just_lv2_Plugin")
               \/ /\ "Plugin" \notin Ancestors(d.parent, d.class)
                  /\ d.class \notin {"none", "Plugin"}
                  /\ x = Of(Fail("type_not_valid"), d.class)
  <2> DEFINE s1 == <<d.class = "none", Fail("type_not_found")>>
             s2 == <<d.class = "Plugin", Warn("type_is_just_lv2_Plugin")>>
             s3 == <</\ "Plugin" \notin Ancestors(d.parent, d.class)
                     /\ d.class \notin {"none", "Plugin"},
                     Of(Fail("type_not_valid"), d.class)>>
  <2>1. Truths(t, d) = Chosen({s1, s2, s3})
    BY DEF Truths
  <2>2. x \in Chosen({s1, s2, s3}) <=>
          (s1[1] /\ x = s1[2]) \/ (s2[1] /\ x = s2[2]) \/ (s3[1] /\ x = s3[2])
    <3> HIDE DEF s1, s2, s3
    <3> QED
      BY ONLY Chosen3
  <2> HIDE DEF t
  <2> QED
    BY <2>1, <2>2
<1>5. d.class # "Plugin" => (ClassMatch(d.parent, "Plugin", d.class) <=>
                              "Plugin" \in Ancestors(d.parent, d.class))
  BY MatchIsDescent
<1> HIDE DEF t, r1, r2, r3
<1>6. Told(t, d)
  BY <1>3, <1>4, <1>5 DEF Told
<1>7. NothingWorse(t, d)
  <2> SUFFICES ASSUME NEW x \in Truths(t, d) \ Overlooked(t, d)
               PROVE  \/ Level(x) <= Level(Result(t, d))
                      \/ Result(t, d) = Of(Note("function_missing"), "end_run")
    BY DEF NothingWorse, Level
  <2>1. Level(x) \in 1..3
    BY <1>4, Levels, LevelsOf
  <2>2. CASE Level(Result(t, d)) = 3
    BY <2>1, <2>2
  <2>3. CASE Level(Result(t, d)) # 3
    BY <2>3, <1>3, <1>4, <1>5, Levels, LevelsOf, AlwaysOverlooked
  <2> QED
    BY <2>2, <2>3
<1> QED
  BY <1>6, <1>7 DEF Sound, t

(* What FirstNotIn returns, for a list of any length. *)
LEMMA FirstNotInFinds ==
  ASSUME NEW list, list \in Seq({list[i] : i \in DOMAIN list}), NEW defined, NEW f
  PROVE  \/ /\ FirstNotIn(list, defined, f) = Pass
            /\ \A i \in DOMAIN list : list[i] \in defined
         \/ \E i \in DOMAIN list :
              list[i] \notin defined /\ FirstNotIn(list, defined, f) = Of(f, list[i])
<1> DEFINE n == Len(list)
           rules == [i \in DOMAIN list |-> <<list[i] \notin defined, Of(f, list[i])>>]
<1>1. n \in Nat /\ DOMAIN list = 1..n
  BY LenProperties
<1>2. Len(rules) = n
  BY <1>1
<1>3. \A i \in 1..n : /\ rules[i][1] <=> list[i] \notin defined
                      /\ rules[i][2] = Of(f, list[i])
  BY <1>1
<1>4. FirstNotIn(list, defined, f) = Cascade(rules)
  BY DEF FirstNotIn
<1> HIDE DEF rules, n
<1>5. \/ /\ Cascade(rules) = Pass
         /\ \A i \in 1..n : ~rules[i][1]
      \/ \E i \in 1..n : rules[i][1] /\ Cascade(rules) = rules[i][2]
  BY <1>1, <1>2, CascadeFirst
<1> QED
  BY <1>1, <1>3, <1>4, <1>5

(* What is true of a list. *)
LEMMA NotInTruth ==
  ASSUME NEW d, NEW f, NEW x
  PROVE  x \in NotInTruths(d, f) <=>
           \E i \in DOMAIN d.list : d.list[i] \notin d.defined /\ x = Of(f, d.list[i])
BY DEF NotInTruths

(* Features of the plugin. *)
LEMMA FeaturesSound ==
  ASSUME NEW d, d.list \in Seq({d.list[i] : i \in DOMAIN d.list})
  PROVE  Sound("Plugin Features", d)
<1> DEFINE t == "Plugin Features"
           f == Fail("feature_not_valid")
<1>1. Result(t, d) = FirstNotIn(d.list, d.defined, f)
  BY DEF Result, TestFeatures
<1>2. Truths(t, d) = NotInTruths(d, f)
  BY DEF Truths
<1> HIDE DEF t
<1>4. \/ /\ Result(t, d) = Pass
         /\ \A i \in DOMAIN d.list : d.list[i] \in d.defined
      \/ \E i \in DOMAIN d.list :
           d.list[i] \notin d.defined /\ Result(t, d) = Of(f, d.list[i])
  BY <1>1, FirstNotInFinds
<1>5. ASSUME NEW x
      PROVE  x \in Truths(t, d) <=>
               \E i \in DOMAIN d.list :
                 d.list[i] \notin d.defined /\ x = Of(f, d.list[i])
  BY <1>2, NotInTruth
<1>6. Told(t, d)
  BY <1>4, <1>5 DEF Told
<1>7. \A uri : Level(Of(f, uri)) = 3
  BY LevelsOf
<1> HIDE DEF f
<1>8. NothingWorse(t, d)
  <2> SUFFICES ASSUME NEW x \in Truths(t, d)
               PROVE  Level(x) <= Level(Result(t, d))
    BY DEF NothingWorse, Level
  <2> QED
    BY <1>4, <1>5, <1>7
<1> QED
  BY <1>6, <1>8 DEF Sound, t

(* Classes of a port. *)
LEMMA PortClassSound ==
  ASSUME NEW d, d.list \in Seq({d.list[i] : i \in DOMAIN d.list})
  PROVE  Sound("Port Class", d)
<1> DEFINE t == "Port Class"
           f == Fail("port_class_not_valid")
<1>1. Result(t, d) = FirstNotIn(d.list, d.defined, f)
  BY DEF Result, TestPortClass
<1>2. Truths(t, d) = NotInTruths(d, f)
  BY DEF Truths
<1> HIDE DEF t
<1>4. \/ /\ Result(t, d) = Pass
         /\ \A i \in DOMAIN d.list : d.list[i] \in d.defined
      \/ \E i \in DOMAIN d.list :
           d.list[i] \notin d.defined /\ Result(t, d) = Of(f, d.list[i])
  BY <1>1, FirstNotInFinds
<1>5. ASSUME NEW x
      PROVE  x \in Truths(t, d) <=>
               \E i \in DOMAIN d.list :
                 d.list[i] \notin d.defined /\ x = Of(f, d.list[i])
  BY <1>2, NotInTruth
<1>6. Told(t, d)
  BY <1>4, <1>5 DEF Told
<1>7. \A uri : Level(Of(f, uri)) = 3
  BY LevelsOf
<1> HIDE DEF f
<1>8. NothingWorse(t, d)
  <2> SUFFICES ASSUME NEW x \in Truths(t, d)
               PROVE  Level(x) <= Level(Result(t, d))
    BY DEF NothingWorse, Level
  <2> QED
    BY <1>4, <1>5, <1>7
<1> QED
  BY <1>6, <1>8 DEF Sound, t

(* Two questions are asked of each extension that is listed. *)
ListedRules(d) ==
  [k \in 1..2 * Len(d.list) |->
     LET uri == d.list[(k + 1) \div 2]
     IN IF k % 2 = 1
        THEN <<uri \notin d.defined, Of(Fail("extension_not_valid"), uri)>>
        ELSE <<d.instance /\ uri \notin d.returned,
               Of(Fail("extension_data_not_returned"), uri)>>]

LEMMA ListedFinds ==
  ASSUME NEW d, d.list \in Seq({d.list[i] : i \in DOMAIN d.list})
  PROVE  \/ /\ Cascade(ListedRules(d)) = Pass
            /\ \A i \in DOMAIN d.list : d.list[i] \in d.defined
            /\ d.instance => \A i \in DOMAIN d.list : d.list[i] \in d.returned
         \/ \E i \in DOMAIN d.list :
              /\ d.list[i] \notin d.defined
              /\ Cascade(ListedRules(d)) = Of(Fail("extension_not_valid"), d.list[i])
         \/ \E i \in DOMAIN d.list :
              /\ d.instance /\ d.list[i] \notin d.returned
              /\ Cascade(ListedRules(d)) = Of(Fail("extension_data_not_returned"), d.list[i])
<1> DEFINE list == d.list
           n == Len(list)
           m == 2 * n
           rules == ListedRules(d)
<1>1. n \in Nat /\ m \in Nat /\ DOMAIN list = 1..n
  BY LenProperties
<1>2. Len(rules) = m
  BY <1>1 DEF ListedRules
<1>3. \A k \in 1..m :
        \/ /\ k % 2 = 1
           /\ rules[k][1] <=> list[(k + 1) \div 2] \notin d.defined
           /\ rules[k][2] = Of(Fail("extension_not_valid"), list[(k + 1) \div 2])
        \/ /\ k % 2 # 1
           /\ rules[k][1] <=> d.instance /\ list[(k + 1) \div 2] \notin d.returned
           /\ rules[k][2] = Of(Fail("extension_data_not_returned"), list[(k + 1) \div 2])
  BY <1>1 DEF ListedRules
<1>4. \A k \in 1..m : (k + 1) \div 2 \in 1..n
  BY <1>1
<1>5. \A i \in 1..n : /\ 2 * i - 1 \in 1..m /\ 2 * i \in 1..m
                      /\ (2 * i - 1) % 2 = 1 /\ (2 * i) % 2 # 1
                      /\ (2 * i - 1 + 1) \div 2 = i /\ (2 * i + 1) \div 2 = i
  BY <1>1
<1>6. \/ /\ Cascade(rules) = Pass
         /\ \A k \in 1..m : ~rules[k][1]
      \/ \E k \in 1..m : rules[k][1] /\ Cascade(rules) = rules[k][2]
  <2> HIDE DEF rules, m
  <2> QED
    BY <1>1, <1>2, CascadeFirst
<1> HIDE DEF rules, m, n, list
<1>7. CASE Cascade(rules) = Pass /\ \A k \in 1..m : ~rules[k][1]
  <2>1. ASSUME NEW i \in 1..n
        PROVE  list[i] \in d.defined /\ (d.instance => list[i] \in d.returned)
    <3>1. ~rules[2 * i - 1][1] /\ ~rules[2 * i][1]
      BY <1>5, <1>7
    <3> QED
      BY <1>3, <1>5, <3>1
  <2> QED
    BY <1>1, <1>7, <2>1 DEF rules, list
<1>8. ASSUME NEW k \in 1..m, rules[k][1], Cascade(rules) = rules[k][2]
      PROVE  \E i \in 1..n :
               \/ /\ list[i] \notin d.defined
                  /\ Cascade(rules) = Of(Fail("extension_not_valid"), list[i])
               \/ /\ d.instance /\ list[i] \notin d.returned
                  /\ Cascade(rules) = Of(Fail("extension_data_not_returned"), list[i])
  BY <1>3, <1>4, <1>8
<1> QED
  BY <1>1, <1>6, <1>7, <1>8 DEF rules, list

(* A finding about a listed extension replaces the one about the extension
   that there is not; both are failures. *)
LEMMA ExtensionsSound ==
  ASSUME NEW d, d.list \in Seq({d.list[i] : i \in DOMAIN d.list})
  PROVE  Sound("Plugin Extension Data", d)
<1> DEFINE t == "Plugin Extension Data"
           listed == Cascade(ListedRules(d))
           dummy == Of(Fail("extension_data_not_NULL"), Dummy)
<1>1. Result(t, d) = IF listed # Pass THEN listed
                     ELSE IF d.instance /\ Dummy \in d.returned THEN dummy ELSE Pass
  BY DEF Result, TestExtensions, ListedRules
<1>2. ASSUME NEW x
      PROVE  x \in Truths(t, d) <=>
               \/ \E i \in DOMAIN d.list :
                    d.list[i] \notin d.defined /\ x = Of(Fail("extension_not_valid"), d.list[i])
               \/ \E i \in DOMAIN d.list :
                    /\ d.instance /\ d.list[i] \notin d.returned
                    /\ x = Of(Fail("extension_data_not_returned"), d.list[i])
               \/ d.instance /\ Dummy \in d.returned /\ x = dummy
  <2>1. x \in Truths(t, d) <=>
          \/ x \in NotInTruths(d, Fail("extension_not_valid"))
          \/ /\ d.instance
             /\ \/ x \in {Of(Fail("extension_data_not_returned"), uri) :
                           uri \in {d.list[i] : i \in DOMAIN d.list} \ d.returned}
                \/ x \in {Of(Fail("extension_data_not_NULL"), uri) :
                           uri \in {Dummy} \cap d.returned}
    BY DEF Truths
  <2> HIDE DEF t
  <2> QED
    BY <2>1, NotInTruth
<1> HIDE DEF t, listed
<1>3. \/ /\ listed = Pass
         /\ \A i \in DOMAIN d.list : d.list[i] \in d.defined
         /\ d.instance => \A i \in DOMAIN d.list : d.list[i] \in d.returned
      \/ \E i \in DOMAIN d.list :
           d.list[i] \notin d.defined /\ listed = Of(Fail("extension_not_valid"), d.list[i])
      \/ \E i \in DOMAIN d.list :
           /\ d.instance /\ d.list[i] \notin d.returned
           /\ listed = Of(Fail("extension_data_not_returned"), d.list[i])
  BY ListedFinds DEF listed
<1>4. Told(t, d)
  BY <1>1, <1>2, <1>3 DEF Told
<1>5. NothingWorse(t, d)
  <2> SUFFICES ASSUME NEW x \in Truths(t, d)
               PROVE  Level(x) <= Level(Result(t, d))
    BY DEF NothingWorse, Level
  <2>1. Level(x) = 3
    BY <1>2, LevelsOf
  <2>2. Level(Result(t, d)) = 3
    <3>1. CASE listed # Pass
      BY <1>1, <1>3, <3>1, LevelsOf
    <3>2. CASE listed = Pass /\ d.instance /\ Dummy \in d.returned
      BY <1>1, <3>2, LevelsOf
    <3>3. \A uri, msg : Of(Fail(msg), uri) # Pass
      BY Levels, LevelsOf
    <3> QED
      BY <1>2, <1>3, <3>1, <3>2, <3>3
  <2> QED
    BY <2>1, <2>2
<1> QED
  BY <1>4, <1>5 DEF Sound, t

-----------------------------------------------------------------------------
(* Toolkits, ports for patch messages, symbols and points                  *)

(* Inputs and outputs for patch messages are counted together with the
   parameters that need them. *)
LEMMA PatchSound ==
  ASSUME NEW d, d.writables \in Nat, d.readables \in Nat
  PROVE  Sound("Plugin Patch", d)
<1> DEFINE t == "Plugin Patch"
           parameters == d.writables + d.readables
           inputs == {i \in DOMAIN d.ports : Carries(d.ports[i]) /\ d.ports[i].flow = "input"}
           outputs == {i \in DOMAIN d.ports : Carries(d.ports[i]) /\ d.ports[i].flow = "output"}
           used == ~(parameters = 0 /\ inputs = {} /\ outputs = {})
           flows == {d.ports[i].flow : i \in {j \in DOMAIN d.ports : Carries(d.ports[j])}}
           lists == d.writables + d.readables > 0
           r1 == <<parameters = 0, Note("no_parameters")>>
           r2 == <<inputs = {}, Fail("no_patch_Message_on_any_input")>>
           r3 == <<outputs = {}, Fail("no_patch_Message_on_any_output")>>
<1>1. Result(t, d) = IF used THEN Cascade(<<r1, r2, r3>>) ELSE Pass
  BY DEF Result, TestPatch
<1>2. Cascade(<<r1, r2, r3>>) =
        IF r1[1] THEN r1[2] ELSE IF r2[1] THEN r2[2] ELSE IF r3[1] THEN r3[2] ELSE Pass
  <2> HIDE DEF r1, r2, r3
  <2> QED
    BY Cascade3
<1>3. Result(t, d) =
        IF ~used THEN Pass
        ELSE IF parameters = 0 THEN Note("no_parameters")
        ELSE IF inputs = {} THEN Fail("no_patch_Message_on_any_input")
        ELSE IF outputs = {} THEN Fail("no_patch_Message_on_any_output")
        ELSE Pass
  BY <1>1, <1>2
<1>4. ASSUME NEW x
      PROVE  x \in Truths(t, d) <=>
               \/ /\ ~lists /\ flows \cap {"input", "output"} # {}
                  /\ x = Note("no_parameters")
               \/ /\ lists /\ "input" \notin flows
                  /\ x = Fail("no_patch_Message_on_any_input")
               \/ /\ lists /\ "output" \notin flows
                  /\ x = Fail("no_patch_Message_on_any_output")
  <2> DEFINE s1 == <<~lists /\ flows \cap {"input", "output"} # {},
                     Note("no_parameters")>>
             s2 == <<lists /\ "input" \notin flows,
                     Fail("no_patch_Message_on_any_input")>>
             s3 == <<lists /\ "output" \notin flows,
                     Fail("no_patch_Message_on_any_output")>>
  <2>1. Truths(t, d) = Chosen({s1, s2, s3})
    BY DEF Truths
  <2>2. x \in Chosen({s1, s2, s3}) <=>
          (s1[1] /\ x = s1[2]) \/ (s2[1] /\ x = s2[2]) \/ (s3[1] /\ x = s3[2])
    <3> HIDE DEF s1, s2, s3
    <3> QED
      BY ONLY Chosen3
  <2> HIDE DEF t
  <2> QED
    BY <2>1, <2>2
<1>5. /\ lists <=> parameters # 0
      /\ "input" \in flows <=> inputs # {}
      /\ "output" \in flows <=> outputs # {}
  OBVIOUS
<1> HIDE DEF t, r1, r2, r3, parameters, inputs, outputs, flows, lists
<1>6. Told(t, d)
  BY <1>3, <1>4, <1>5 DEF Told
<1>7. NothingWorse(t, d)
  <2> SUFFICES ASSUME NEW x \in Truths(t, d) \ Overlooked(t, d)
               PROVE  \/ Level(x) <= Level(Result(t, d))
                      \/ Result(t, d) = Of(Note("function_missing"), "end_run")
    BY DEF NothingWorse, Level
  <2>1. Level(x) \in 1..3
    BY <1>4, Levels, LevelsOf
  <2>2. CASE Level(Result(t, d)) = 3
    BY <2>1, <2>2
  <2>3. CASE Level(Result(t, d)) # 3
    BY <2>3, <1>3, <1>4, <1>5, Levels, LevelsOf, AlwaysOverlooked
  <2> QED
    BY <2>2, <2>3
<1> QED
  BY <1>6, <1>7 DEF Sound, t

(* What is true of a UI with these types. *)
LEMMA ToolkitTruth ==
  ASSUME NEW d, NEW x
  PROVE  x \in Truths("UI Toolkit", d) <=>
           \/ d.types = {} /\ x = Fail("toolkit_not_given")
           \/ d.class = "Widget" /\ x = Warn("unofficial_external_UI")
           \/ /\ d.shown /\ "ui:X11UI" \notin d.types
              /\ x = Warn("official_external_UI")
           \/ \E c \in d.types : /\ c \notin d.known \cup {"ui:UI"}
                                 /\ x = Of(Fail("toolkit_unknown"), c)
           \/ \E c \in d.types : /\ "ui:X11UI" \notin d.types
                                 /\ x = Of(Warn("non-native_toolkit"), c)
<1> DEFINE t == "UI Toolkit"
           p == <<d.types = {}, Fail("toolkit_not_given")>>
           q == <<d.class = "Widget", Warn("unofficial_external_UI")>>
           r == <<d.shown /\ "ui:X11UI" \notin d.types, Warn("official_external_UI")>>
           unknown(c) == <<c \notin d.known \cup {"ui:UI"}, Of(Fail("toolkit_unknown"), c)>>
           foreign(c) == <<"ui:X11UI" \notin d.types, Of(Warn("non-native_toolkit"), c)>>
           U == {unknown(c) : c \in d.types}
           F == {foreign(c) : c \in d.types}
<1>1. Truths(t, d) = Chosen({p, q, r} \cup U \cup F)
  BY DEF Truths
<1>2. /\ p[1] <=> d.types = {}
      /\ p[2] = Fail("toolkit_not_given")
      /\ q[1] <=> d.class = "Widget"
      /\ q[2] = Warn("unofficial_external_UI")
      /\ r[1] <=> d.shown /\ "ui:X11UI" \notin d.types
      /\ r[2] = Warn("official_external_UI")
  OBVIOUS
<1>3. \A c \in d.types : /\ unknown(c)[1] <=> c \notin d.known \cup {"ui:UI"}
                         /\ unknown(c)[2] = Of(Fail("toolkit_unknown"), c)
                         /\ foreign(c)[1] <=> "ui:X11UI" \notin d.types
                         /\ foreign(c)[2] = Of(Warn("non-native_toolkit"), c)
  OBVIOUS
<1> HIDE DEF t, p, q, r, unknown, foreign
<1>4. x \in Chosen({p, q, r}) <=>
        (p[1] /\ x = p[2]) \/ (q[1] /\ x = q[2]) \/ (r[1] /\ x = r[2])
  BY Chosen3
<1>5. x \in Chosen(U) <=> \E c \in d.types : unknown(c)[1] /\ x = unknown(c)[2]
  BY DEF Chosen
<1>6. x \in Chosen(F) <=> \E c \in d.types : foreign(c)[1] /\ x = foreign(c)[2]
  BY DEF Chosen
<1> HIDE DEF U, F
<1>7. x \in Truths(t, d) <=>
        x \in Chosen({p, q, r}) \/ x \in Chosen(U) \/ x \in Chosen(F)
  <2>1. Chosen({p, q, r} \cup U \cup F) = Chosen({p, q, r} \cup U) \cup Chosen(F)
    BY ChosenUnion
  <2>2. Chosen({p, q, r} \cup U) = Chosen({p, q, r}) \cup Chosen(U)
    BY ChosenUnion
  <2> QED
    BY <1>1, <2>1, <2>2
<1>8. x \in Truths(t, d) <=>
           \/ d.types = {} /\ x = Fail("toolkit_not_given")
           \/ d.class = "Widget" /\ x = Warn("unofficial_external_UI")
           \/ /\ d.shown /\ "ui:X11UI" \notin d.types
              /\ x = Warn("official_external_UI")
           \/ \E c \in d.types : /\ c \notin d.known \cup {"ui:UI"}
                                 /\ x = Of(Fail("toolkit_unknown"), c)
           \/ \E c \in d.types : /\ "ui:X11UI" \notin d.types
                                 /\ x = Of(Warn("non-native_toolkit"), c)
  BY <1>2, <1>3, <1>4, <1>5, <1>6, <1>7
<1> QED
  BY <1>8 DEF t

(* The class that lilv picks is one of the types, so what is said of it is
   true of the UI; other types of the UI are overlooked. *)
LEMMA ToolkitSound ==
  ASSUME NEW d,
         IF d.types = {} THEN d.class = "none" ELSE d.class \in d.types \ {"none"}
  PROVE  Sound("UI Toolkit", d)
<1> DEFINE t == "UI Toolkit"
           r1 == <<d.class = "none", Fail("toolkit_not_given")>>
           r2 == <<d.class \notin d.known \cup {"ui:UI"},
                   Of(Fail("toolkit_unknown"), d.class)>>
           r3 == <<d.class = "Widget", Warn("unofficial_external_UI")>>
           r4 == <<d.shown /\ "ui:X11UI" \notin d.types,
                   Warn("official_external_UI")>>
           r5 == <<"ui:X11UI" \notin d.types,
                   Of(Warn("non-native_toolkit"), d.class)>>
<1>1. Result(t, d) = Cascade(<<r1, r2, r3, r4, r5>>)
  BY DEF Result, TestToolkit
<1>2. Cascade(<<r1, r2, r3, r4, r5>>) =
        IF r1[1] THEN r1[2] ELSE IF r2[1] THEN r2[2] ELSE IF r3[1] THEN r3[2]
        ELSE IF r4[1] THEN r4[2] ELSE IF r5[1] THEN r5[2] ELSE Pass
  <2> HIDE DEF r1, r2, r3, r4, r5
  <2> QED
    BY Cascade5
<1>3. Result(t, d) =
        IF d.class = "none" THEN Fail("toolkit_not_given")
        ELSE IF d.class \notin d.known \cup {"ui:UI"}
             THEN Of(Fail("toolkit_unknown"), d.class)
        ELSE IF d.class = "Widget" THEN Warn("unofficial_external_UI")
        ELSE IF d.shown /\ "ui:X11UI" \notin d.types
             THEN Warn("official_external_UI")
        ELSE IF "ui:X11UI" \notin d.types
             THEN Of(Warn("non-native_toolkit"), d.class)
        ELSE Pass
  BY <1>1, <1>2
<1>4. ASSUME NEW x
      PROVE  x \in Truths(t, d) <=>
               \/ d.types = {} /\ x = Fail("toolkit_not_given")
               \/ d.class = "Widget" /\ x = Warn("unofficial_external_UI")
               \/ /\ d.shown /\ "ui:X11UI" \notin d.types
                  /\ x = Warn("official_external_UI")
               \/ \E c \in d.types : /\ c \notin d.known \cup {"ui:UI"}
                                     /\ x = Of(Fail("toolkit_unknown"), c)
               \/ \E c \in d.types : /\ "ui:X11UI" \notin d.types
                                     /\ x = Of(Warn("non-native_toolkit"), c)
  BY ToolkitTruth
<1>5. \A c \in d.types : c # d.class => Of(Fail("toolkit_unknown"), c) \in Overlooked(t, d)
  BY DEF Overlooked
<1> HIDE DEF t, r1, r2, r3, r4, r5
<1>6. Told(t, d)
  BY <1>3, <1>4 DEF Told
<1>7. NothingWorse(t, d)
  <2> SUFFICES ASSUME NEW x \in Truths(t, d) \ Overlooked(t, d)
               PROVE  \/ Level(x) <= Level(Result(t, d))
                      \/ Result(t, d) = Of(Note("function_missing"), "end_run")
    BY DEF NothingWorse, Level
  <2>1. Level(x) \in 1..3
    BY <1>4, Levels, LevelsOf
  <2>2. CASE Level(Result(t, d)) = 3
    BY <2>1, <2>2
  <2>3. CASE Level(Result(t, d)) # 3
    BY <2>3, <1>3, <1>4, <1>5, Levels, LevelsOf, AlwaysOverlooked
  <2> QED
    BY <2>2, <2>3
<1> QED
  BY <1>6, <1>7 DEF Sound, t

(* A twin of the port, before or behind it. *)
LEMMA SymbolSound ==
  ASSUME NEW d, d.port \in DOMAIN d.symbols
  PROVE  Sound("Port Symbol", d)
<1> DEFINE t == "Port Symbol"
           a == \E i \in DOMAIN d.symbols : i # d.port /\ d.symbols[i] = d.symbols[d.port]
           b == \E i, j \in DOMAIN d.symbols :
                  i # j /\ d.port \in {i, j} /\ d.symbols[i] = d.symbols[j]
           f == Fail("not_unique")
<1>1. Result(t, d) = IF a THEN f ELSE Pass
  BY DEF Result, TestSymbol, If
<1>2. ASSUME NEW x
      PROVE  x \in Truths(t, d) <=> b /\ x = f
  <2> DEFINE p == <<b, f>>
  <2>1. Truths(t, d) = Chosen({p})
    BY DEF Truths
  <2>2. x \in Chosen({p}) <=> p[1] /\ x = p[2]
    <3> HIDE DEF p
    <3> QED
      BY Chosen1
  <2> HIDE DEF t
  <2> QED
    BY <2>1, <2>2
<1> HIDE DEF t
<1>4. Told(t, d)
  BY <1>1, <1>2 DEF Told
<1>5. NothingWorse(t, d)
  <2> SUFFICES ASSUME NEW x \in Truths(t, d) \ Overlooked(t, d)
               PROVE  Level(x) <= Level(Result(t, d))
    BY DEF NothingWorse, Level
  <2>1. x = f /\ Level(f) = 3
    BY <1>2, Levels
  <2>2. a
    BY <1>2, <2>1
  <2> QED
    BY <1>1, <2>1, <2>2
<1> QED
  BY <1>4, <1>5 DEF Sound, t

(* Points with one value and two labels. *)
LEMMA PointsSound ==
  ASSUME NEW d
  PROVE  Sound("Parameter Scale Points", d)
<1> DEFINE t == "Parameter Scale Points"
           a == \E p, q \in d.points : p.label # q.label /\ p.val = q.val
           b == \E p, q \in d.points : p # q /\ p.val = q.val
           f == Fail("values_not_unique")
<1>1. Result(t, d) = IF a THEN f ELSE Pass
  BY DEF Result, TestParameterPoints, If
<1>2. ASSUME NEW x
      PROVE  x \in Truths(t, d) <=> b /\ x = f
  <2> DEFINE p == <<b, f>>
  <2>1. Truths(t, d) = Chosen({p})
    BY DEF Truths
  <2>2. x \in Chosen({p}) <=> p[1] /\ x = p[2]
    <3> HIDE DEF p
    <3> QED
      BY Chosen1
  <2> HIDE DEF t
  <2> QED
    BY <2>1, <2>2
<1>3. ~a => f \in Overlooked(t, d)
  BY DEF Overlooked
<1> HIDE DEF t
<1>4. Told(t, d)
  BY <1>1, <1>2 DEF Told
<1>5. NothingWorse(t, d)
  <2> SUFFICES ASSUME NEW x \in Truths(t, d) \ Overlooked(t, d)
               PROVE  Level(x) <= Level(Result(t, d))
    BY DEF NothingWorse, Level
  <2>1. x = f /\ Level(f) = 3
    BY <1>2, Levels
  <2>2. a
    BY <1>2, <2>1, <1>3
  <2> QED
    BY <1>1, <2>1, <2>2
<1> QED
  BY <1>4, <1>5 DEF Sound, t

-----------------------------------------------------------------------------
(* All tests, and the theorems                                             *)

(* Every test that asks several questions. *)
LEMMA EveryTestIsSound ==
  ASSUME NEW t \in Several, NEW d \in Facts(t)
  PROVE  Sound(t, d)
<1>1. CASE t = "Plugin License"
  BY <1>1, LicenseSound
<1>2. CASE t = "Plugin Project"
  BY <1>2, ProjectSound
<1>3. CASE t = "Plugin Comment"
  BY <1>3, CommentSound
<1>4. CASE t = "Plugin Version Minor"
  BY <1>4, VersionMinorSound
<1>5. CASE t = "Plugin Class"
  BY <1>5, ClassSound
<1>6. CASE t = "Plugin Features"
  BY <1>6, FeaturesSound, FactsAssumption DEF ListTests
<1>7. CASE t = "Plugin Extension Data"
  BY <1>7, ExtensionsSound, FactsAssumption DEF ListTests
<1>8. CASE t = "Plugin Worker"
  BY <1>8, WorkerSound
<1>9. CASE t = "Plugin Options Iface"
  BY <1>9, OptionsIfaceSound
<1>10. CASE t = "Plugin State"
  BY <1>10, StateSound
<1>11. CASE t = "Plugin Inline Display"
  BY <1>11, IdispSound
<1>12. CASE t = "Plugin Patch"
  BY <1>12, PatchSound, FactsAssumption
<1>13. CASE t = "UI Idle Interface"
  BY <1>13, IdleSound
<1>14. CASE t = "UI Show Interface"
  BY <1>14, ShowSound
<1>15. CASE t = "UI Toolkit"
  BY <1>15, ToolkitSound, FactsAssumption
<1>16. CASE t = "Port Class"
  BY <1>16, PortClassSound, FactsAssumption DEF ListTests
<1>17. CASE t = "Port Symbol"
  BY <1>17, SymbolSound, FactsAssumption
<1>18. CASE t = "Parameter Scale Points"
  BY <1>18, PointsSound
<1>19. CASE t = "Plugin Options Feature"
  BY <1>19, OptionsFeatureSound
<1> QED
  BY <1>1, <1>2, <1>3, <1>4, <1>5, <1>6, <1>7, <1>8,
     <1>9, <1>10, <1>11, <1>12, <1>13, <1>14, <1>15, <1>16, <1>17, <1>18, <1>19 DEF Several

(* What was reported last is the result of that test for the facts it      *)
(* found, and nothing is left from the tests before.                       *)
LEMMA MetadataInvariant == MetadataSpec => []ResultOfFacts
<1>1. InitMetadata => ResultOfFacts
  BY DEF InitMetadata, ResultOfFacts
<1>2. ResultOfFacts /\ [Ask \/ Answer]_metadataVars => ResultOfFacts'
  <2> SUFFICES ASSUME ResultOfFacts, [Ask \/ Answer]_metadataVars
               PROVE  ResultOfFacts'
    OBVIOUS
  <2>1. CASE Ask
    <3>1. test' # "none"
      BY <2>1 DEF Ask, TestNames
    <3> QED
      BY <2>1, <3>1 DEF Ask, ResultOfFacts
  <2>2. CASE Answer
    <3>1. test # "none"
      BY <2>2 DEF Answer, ResultOfFacts, Pending, Pass
    <3> QED
      BY <2>2, <3>1 DEF Answer, ResultOfFacts
  <2>3. CASE UNCHANGED metadataVars
    BY <2>3 DEF metadataVars, ResultOfFacts
  <2> QED
    BY <2>1, <2>2, <2>3
<1> QED
  BY <1>1, <1>2, PTL DEF MetadataSpec

(* What holds of every test holds of the last one. *)
LEMMA AnswerIsSound ==
  ASSUME ResultOfFacts, Answered
  PROVE  finding = Result(test, facts) /\ Sound(test, facts)
<1>1. test \in Several /\ finding # Pending
  BY DEF Answered
<1>2. test # "none"
  BY <1>1 DEF Several
<1>3. facts \in Facts(test) /\ finding = Result(test, facts)
  BY <1>1, <1>2 DEF ResultOfFacts
<1> QED
  BY <1>1, <1>3, EveryTestIsSound

(* A finding is true of the plugin: no chain of else-ifs reaches a branch  *)
(* for the wrong reason, whatever the plugin's facts are.                  *)
THEOREM MetadataFindingIsTrue == MetadataSpec => []FindingIsTrue
<1>1. ResultOfFacts => FindingIsTrue
  BY AnswerIsSound DEF FindingIsTrue, Sound, Told
<1> QED
  BY <1>1, MetadataInvariant, PTL

(* Nothing graver is true of the plugin than what is reported, with the    *)
(* exceptions that Overlooked and the note of a missing end_run name.      *)
THEOREM MetadataWorstIsTold == MetadataSpec => []WorstIsTold
<1>1. ResultOfFacts => WorstIsTold
  BY AnswerIsSound DEF WorstIsTold, Sound, NothingWorse
<1> QED
  BY <1>1, MetadataInvariant, PTL
=============================================================================
