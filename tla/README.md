# A model of lv2lint

lv2lint checks whether LV2 plugins are up to the specification. It instantiates
each plugin named on its command line, takes it through the callbacks a host
would make - every one of them in a child process that shares lv2lint's memory -
and then runs some seventy tests over what it has seen and over the plugin's RDF.
This directory holds TLA+ modules for the parts of it in which states and
orders matter, configurations with which TLC checks them, and proofs for TLAPS.

`PROJECT.json` lists components, runs, mutants, findings, hazards and theorems,
and, for every definition that models code, the lines it was translated from.
Paths below are relative to the repository.

## The system

| component | source | state it keeps | operations | module |
|---|---|---|---|---|
| ring buffer | `subprojects/varchunk` | bytes, `head`, `tail`, reservation and gap | write request / advance, read request / advance | `Varchunk`, `ChunkFifo` |
| URI mapper | `subprojects/mapper.lv2` | table of URIs, counters | new, map, unmap, free | `Mapper`, `UriMap` |
| plugin session | `src/lv2lint.c`: `main`, `_wrap*`, `_sched`, `_respond`, `log_vprintf` | instance, interfaces, `status`, `forbidden`, `syscall`, the two worker queues | the callbacks of a plugin's life, each in a child | `LintSession` |
| lists for plugins and UIs | `main` in `src/lv2lint.c`, `test_x11` in `src/lv2lint_x11.c` | arrays of features and options on the stack | fill from what is required | `LintHost` |
| shared memory, interposer | `src/lv2lint_shm.c`, `src/lv2lint_alloc.c` | the watch (`enabled`) and the `mask` of functions seen | enable, disable, pause, resume, mask | in `LintSession` |
| traced callbacks | `_trace*`, `_show_info` in `src/lv2lint.c` | the static `call`, the set `syscall` | clone, the stops of the child, reap | `LintTrace` |
| system call tables | `src/lv2lint_syscall*.c` | - | `syscall_from_id` | `SyscallTables`, `LintTrace` |
| callback tests | `src/lv2lint_plugin.c` | - | crashed / non-realtime / system call findings | in `LintSession` |
| verdict | options and `lv2lint_report` in `src/lv2lint.c`; `test_plugin`, `test_port`, `test_parameter`, `test_ui` | `show`, `mask`, `pck`, whitelist; results and flags | `-S -E -M -u -t`, run tests, report | `LintVerdict` |
| number tests | `src/lv2lint_port.c`, `src/lv2lint_parameter.c` | `app.dflt`, `app.min`, `app.max` | the tests of ports and parameters | `PortTests` |
| metadata tests | `src/lv2lint_plugin.c`, rest of the port, parameter and UI tests | - | decision tables over what RDF and `extension_data` say | `MetadataTests` |
| UI tests, X11 | `src/lv2lint_ui.c`, `src/lv2lint_x11.c` | library, `ui_descriptor`, `ui_instance`, `ui_widget` | open, find, instantiate, test, clean up | `LintUI` |
| ELF, online, hash, output | | | | not modelled |

How they interact: `main` calls the children one at a time and waits for each.
A child writes straight into `app_t` (CLONE_VM): it stores the instance it
creates, queues chunks in the two varchunk rings, maps URIs, and leaves the mask
in `forbidden`. Only its exit status comes back through `waitpid`, into
`status`; for `connect_port`, `run` and `work_response`, `main` handles the stops
of the child until then. When the callbacks are over, `test_plugin` reads all of
that. A crash therefore loses the exit status and nothing else: whatever was in
shared memory stays as it was, half done or not, for the next callback and the
next plugin. UIs are different: they run in lv2lint's own process.

The behaviours that are hard to test, each with its line in `hazards`:

* producer and consumer of a ring, and threads in the mapper, interleave;
* a child is killed between any two steps - inside a map call, before it
  releases a chunk, with the watch switched on, in a traced stop;
* results outlive their plugin: `status`, `forbidden`, the queues, the static
  `call`, `app.min`, `app.ui_instance`;
* two passes or several ports write one result, one of them with `=`;
* options can be combined in any order, and what is not shown does not count;
* a test asks several questions in a row and reports the first that is answered;
* sizes and positions in the ring, probes in the table, entries of arrays, the
  numbers in the system call tables, at their limits.

What makes each component correct: the ring is a FIFO that never overwrites
unread bytes, and neither refuses nor loops for ever; the mapper is one-to-one
and reversible, in every interleaving, and static URIs keep their numbers; a
session reports what the plugin did, and only what this plugin did, and ends; a
trace records the calls that were made, in the child that made them, and comes
back; a verdict counts what the options say is an error and nothing else; a
number test judges a port by its own numbers; a metadata test reports what is
true, and nothing milder than the worst of it; the UI tests leave libraries and
instances as they found them.

## The modules

Each component has a module with its state, `Init`, actions and properties. An
`MC` module gives its constants values for TLC; a module `...Proofs` holds its
theorems. Definitions marked `variant` in a comment are plausible mistakes that
are not part of any `Next`; `PROJECT.json` pairs them with the property that
notices them. Where proofs need it, a module says what its properties rest on, in
named conjuncts, and `IInv` is their conjunction.

### `ChunkFifo`, `Varchunk`

`ChunkFifo` is the abstract queue: chunks come out once, in order, unchanged.
`Varchunk` is the ring: the byte positions `head` and `tail`, and the buffer as
8-byte cells, since headers are 8 bytes and payloads are padded to 8. One action
is one access that the other side can see: loading the other's position and
reserving (`WriteRequest`), each payload word (`Fill`), the headers of gap and
chunk (`WriteHeader`), the one store of `head` (`Publish`); and on the other
side `ReadRequest`, `Look`, `SkipGap`, `LookSecond`, `CopyWord`, `ReadAdvance`.
`Reserve` is the arithmetic of `varchunk_write_request_max`. `Caller` is what
lv2lint writes into a reservation (no more than it asked for), `MaxCaller` what
the interface's own assertion allows. Acquire and release on two positions with
one writer each justify interleaving semantics; the relaxed mode is not used by
lv2lint and not modelled. Two histories: `starts` is where the unread chunks and
gaps begin, `sent` what was published and not yet released.

`Fifo == INSTANCE ChunkFifo` is the refinement: the abstract queue is `sent`, each
chunk with its payload words, and the history variable `got` is the chunk released
last, as the consumer has copied it from the buffer, word by word. A step of the
ring is one `Write` (at `Publish`), one `Read` (at `ReadAdvance`) or a stutter. That
the queue is a history makes the refinement no easier to satisfy: what is read
comes from the buffer, and must be what `sent` says. `IInv` ties the two together:
`Line` (each chunk of `sent` stands in the buffer behind the one before, header and
words), `Filled` (so do the words of a reservation) and `Copied` (what the consumer
has copied so far is the first chunk's).

### `UriMap`, `Mapper`

`mapper_new` (`Populate`, `Share`), then any number of threads in `_mapper_map`,
one atomic operation at a time: `Load`, `Alloc` / `OutOfMemory`, `Cas`, `Count`.
`Killed` stops a thread for good at any of these points, as a crash of the child
it runs in does; `Free` is `mapper_free`. `PopulateWild` is the store before the
array when a static URI gets no slot: after it, nothing is claimed. `answers`
is the history of all results. Hash, table size, static list and threads are
constants; nothing is assumed of the hash.

`UriMap` is the specification that this promises: one set of pairs of a URI and a
URID. A pair appears in one step, only because its URI was asked for or is static,
and never changes; an answer is a pair in force, and a call may also be refused.
`MapsAtomically` reads the table as that set (`Assigned`): the compare-and-swap is
the step that assigns, the return is the step that answers.

### `LintSession`

The loop of `main`, with `pc` the callback being made and `kid` where its child
is: `start`, in the plugin (`plugin`, or `chunk` in a worker function), in
lv2lint's own loop over a queue (`loop`, `advance`), at the end of a watched
section (`store`), and how it ended (`exited`, `failed`, `killed`). The child's
actions are those of `_wrap_work`, `_wrap_work_response`, `_wrap_run`,
`_wrap_connect_port`, and what a plugin does in them: call an interposed
function, make a system call, log, schedule or respond, return, crash (`Crash`, with
`exit` of another status than 0), or leave by `exit(0)` or `_exit(0)` (`Quit`), which
`_wrap_parent` and `_trace_parent` take for a success although the rest of the child
never runs. `Continue` is `main` after a callback, including what it does with the
status (`Record`: set, or added to). A queue holds whole chunks, named by the plugin
that wrote them; that the ring delivers whole chunks in order is what `Varchunk`
shows. The histories `fell`, `unwell`, `quit`, `hit`, `lost`, `foreign` and `spilled` say what
really happened, to compare the reports `crashed` and `nonrt` with.

A child that leaves by `exit(0)` costs lv2lint three things, and the properties name
each. What it had in the mask is not stored: `NonRtReported` excepts those calls
(`lost`) and no others. The result of `run` or `work_response` stays what it was, the
previous plugin's perhaps: `NonRtVerdictIsOwn` excepts a plugin all of whose calls of
that kind have ended so (`Deserted`) - one pass that comes to its end is enough to
restore it. A chunk is not released: it counts as `spilled` if that happens in the
last pass.
Modelled is the build with ENABLE_WRAP_TESTS and ENABLE_PTRACE_TESTS.

### `LintTrace`, `SyscallTables`

What `LintSession` takes for one step: a traced callback. The child attaches
itself, stops, switches the watch on, runs the plugin's code and ends; between
any two of its steps there may be a stop that `_trace_parent` handles
(`OnSigstop`, `OnEntry`, `OnExit`, `OnSignal`, `Reap`), each with the whole of
`_show_info`. The static `call` survives the child, as in the code. The kernel
is modelled as far as the code relies on it: it stops a child at the begin and the
end of a system call and before a signal; a call that ends the child has no end;
a ptrace request may fail at any time (`GiveUp`). A plugin may call `exit`, log,
or start a second thread (`helper`), which is not traced and shares the watch.

`SyscallTables` holds the 19 tables a build can link: `src/` has 45 files, of which
33 are complete tables; the others name calls `syscall_t` does not have and do not
compile, or are called what meson calls no machine, while for mips, ppc, ppc64 and
sh4 there is none. A call is its place in `syscall_t`, and the model needs only
numbers.

### `LintHost`, `LintUI`

`LintHost` is the loop that fills an array with features or options: one case for
each that lv2lint knows, for what the plugin requires, and a sentinel. `LintUI`
is the end of a plugin's turn: `test_ui` for each of its UIs, with its early
exits (`BrokenUi`, `FindDescriptor`), the tests of `test_x11` (`OpenDisplay` to
`Cleanup`), and the jump at the end that closes the library (`Jump`). What a UI
is like is chosen at the step where it first matters. Pointers in `app` name the
UI they came from; `handles` counts how often a library is open. A UI that crashes
ends lv2lint (`Crash`), because the wrapping of its calls is commented out in
`src/lv2lint_x11.c`.

The plugin's own `instantiate` and `cleanup` do run in children that share memory
and may end in mid-call, by a crash or by `exit`: `Instantiate` then leaves the library
open with `app.instance` NULL, `Free` forgets the instance without closing it, and
`orphans` counts these. `Close` of a library that is not open sets `stale`: after a
broken UI the handle is closed twice, and the second `dlclose` is an error, a crash
(`Jump`), or takes the handle of another user. `"dsp"` stands for the library of
the plugins, which all of a session may share; `lilv` opens it, and is external.

### `LintVerdict`

Options in any order, then the groups (the plugin, its ports and parameters, its
UIs) with their tests: `RunTest` takes any finding, `Summarise` is the question
whether anything is to be printed, `Report` is `lv2lint_report`, where the flag
turns. The histories `culprit` and `failed` say what was found.

### `PortTests`, `MetadataTests`

`PortTests`: one port or parameter after the other, the tests in the order of their
table. They hand numbers on in `app.dflt`, `app.min`, `app.max`, which outlive
port, plugin and kind; the fields are unions, but every member is written before
the same member is read, so one integer stands for each. A number is counted in
halves, so that 1 is a half and has no whole value.

`MetadataTests`: the tests that touch no state are functions of the facts they
ask for to at most one finding. Each is written as its chain of questions
(`Cascade`), so that its order is what is checked: `FindingIsTrue` says, without
looking at that order, what must be the case when a finding is reported, and
`WorstIsTold` that nothing worse is the case as well. The search for a class
among the children of `lv2:Plugin` is a recursion in the code; here it is the
least set it reaches (`ClassMatch`), and the property goes the other way, from a
class to its parents (`Ancestors`). `FactsAssumption` says what lilv promises of
the facts. The words of a message are joined by underscores.

## The runs

| run | shows | bounds | distinct states |
|---|---|---|---|
| `ring` | `Varchunk` implements `ChunkFifo`; `IInv`, `NoClobber`, `GapFollowed`, `EmptyGrants`, `TailMoves` | 64 bytes, chunks of 0 and 16 bytes, two payloads | 713 000 |
| `mapper` | `Mapper` implements `UriMap` (`MapsAtomically`); `IInv`, `OneUridPerUri`, `RoundTrip`, `StaticUrids`, `Accounting`, `CallsReturn` | 2 threads, 4 URIs, 8 slots, memory may run out | 57 000 |
| `mapper_unmap` | finding | 4 slots | |
| `session` | `IInv`, `CrashReported`, `NonRtReported`, `NonRtVerdictIsOwn`, `WorkIsOwn`, `SessionEnds` | 2 plugins, up to 2 ports, queues of 2 chunks, 3 notable acts | 2 150 000 |
| `session_response`, `session_stale` | findings | 1 or 2 plugins, no port | |
| `trace` | `IInv`, `MadeIsRecorded`, `SuccessIsClean`, `RecordsWhatEnded`, `TraceReturns` | every number of 19 tables in one child; 3 children and 4 notable acts on a small table | 158 000 |
| `ui` | `IInv`, `ListsFit`, `LibrariesBalanced`, `VerdictIsOwn`, `CleanupIsOwn` | 2 plugins with 3 UIs between them, 149 sets of requirements, 12 of UIs | 2 260 000 |
| `host_resize` | finding | as above | |
| `verdict` | `IInv`, `FailAlwaysCounts`, `OnlyErrorsCount`, `ExactUnlessHidden` | a plugin and a UI, 2 tests each, 3 options, 1 whitelist entry | 787 000 |
| `descriptions` | `IInv`, `NumbersAreSound`, `RangeVerdictIsOwn`, `ScalePointsFound`, `ParameterIsSound`, `FindingIsTrue`, `WorstIsTold` | 884 ports, 150 parameters, in every order; every combination of facts of 46 tests | 87 000 |
| `ports_morph` | finding | as above | |

Why the bounds are enough:

* *ring.* Sixty-four bytes are eight cells. A chunk of 0 bytes takes one, one of
  16 bytes three, and a request needs one more; so the positions visit every
  cell, the ring fills, refuses, splits its free bytes over both ends, and makes
  gaps of one to four cells, with chunks of either size behind them. Two payloads
  are enough to see a torn or exchanged chunk, for the code never looks at them.
  `PadModulus` stands for the 2^32 of the 32-bit mask in `VARCHUNK_PAD`; it is
  larger than the ring, as in the code.
* *mapper.* All four URIs collide: three have one hash, the fourth hashes to the
  slot they overflow into. Two threads suffice for every race the code has,
  since a thread reacts to one slot at a time; a third one only adds a state
  that is already there when a killed thread has left a URI behind.
* *session.* `Budget` counts what plugins do that is worth noting - call a
  function, log, schedule, respond, return an error, crash, exit - and failures to
  spawn, three in one session; the rest of the session is complete. Each report
  depends on one such act and at most two that interfere (a crash, an exit or a
  Trace message before it and another pass after it).
* *trace.* A table matters through its numbers alone, so each child with one of
  the 19 machines makes one call, with every number there is and one there is
  not. Longer stories need no large table: the small one has two names for one
  number, a call that the machine lacks, and `exit_group`. Three children let a
  leftover of the first meet the second and be gone in the third; four acts are
  enough to start a helper, log in it, make a call and be killed.
* *ui.* A list is filled independently of all others, so each set of requirements
  is tried on its own: everything, nothing, each single feature, and every set of
  options with the one feature that adds some. Three UIs for two plugins make a
  UI follow another of its plugin and of the plugin before, whatever that left.
* *verdict.* An option only adds to or takes from two sets of levels, so any
  sequence has the effect of a short one; three are enough for an opposite to
  meet both orders, and a level to be hidden after it became an error.
* *descriptions.* A port depends on an earlier one only through three numbers, so
  pairs of ports show it; the ports are all combinations of five or six nodes
  (absent, an integer, a half, a float, a boolean, a string) and five sets of
  properties, lists of two or three scale points, and nine sets of classes.
  The factor of `lv2:sampleRate` is 2 instead of 44100. A metadata test reads
  each list once and from the front, so lists of two elements show everything
  that depends on the order of one good and one bad entry.

Deadlock is checked where the system has no end (`ring`, `descriptions`); the others
do stop: the linter exits, the mapper is freed or all its threads are dead, the
bounds on children, plugins and UIs are reached.

Fairness. `Varchunk`: the consumer goes on once there is something to read
(`WF_vars(Consumer)`), because `_wrap_work` and `_wrap_work_response` loop until
`varchunk_read_request` returns NULL; nothing is assumed of the producer.
`Mapper`: each live thread goes on within its call. `LintSession`: `WF_vars(Next)`,
which is the weakest there is - something happens as long as something can. It
includes that callbacks return or crash: lv2lint has no timeout, and a plugin that
hangs does stop it. The bound on notable acts is what keeps a plugin from
scheduling work for ever. `LintTrace`: `Wait`, because `waitpid` reports every stop
and the kernel schedules lv2lint; the child's own steps and those of the kernel,
for the same reason; and `Disable` by itself, which says that a callback returns,
whatever else the child could do. Nothing is assumed of a second thread, nor of
signals, kills and failing requests, which only may happen. `LintUI`, `LintVerdict`,
`PortTests` and `MetadataTests` have no liveness property: they are loops over lists.

## Findings

Each is a violation run, with the line of the code that contradicts another.

* `mapper_unmap`: the check marked "invalid URID" lets `urid == nitems` through.
* `session_response`: the mask of the first `work_response` pass is overwritten
  by the second, where `connect_port` accumulates.
* `session_stale`: `status` is not reset for the next plugin, which is then told
  that it has crashed.
* `ports_morph`: the test for a default port type asks for all of them.
* `host_resize`: the case for `ui:resize` adds the feature `resize-port:resize`,
  for which there is no case.

Further counterexamples have a configuration but no run in `PROJECT.json`:

    tlc -config MCVarchunkMax.cfg MCVarchunk.tla            # NoClobber
    tlc -config MCMapperOverflow.cfg MCMapper.tla           # OverflowMeansFull
    tlc -config MCLintVerdictError.cfg MCLintVerdict.tla    # ErrorLevelsCount
    tlc -config MCDescriptionsRequired.cfg MCDescriptions.tla  # RequiredIsReported
    tlc -config MCLintUIOptions.cfg MCLintUI.tla            # UiOptionsFit

* a caller that takes the `maximum` of `varchunk_write_request_max` for payload, as
  the assertion in `varchunk_write_advance` does, overwrites unread bytes;
* "item buffer overflow" is answered while slots are free, since squares do not
  visit every slot of a table of 2^k;
* `-E warn -S nowarn` makes warnings errors that are not looked at;
* "opts:required options defined" is never said of a plugin that requires options:
  the branch is for plugins with neither the feature nor options;
* the arrays in `test_x11` (`src/lv2lint_x11.c:494`) have no room for the sentinel if a
  UI requires every feature or both options.

Smaller observations. A callback that leaves by `exit(0)` passes: a plugin that calls
`malloc` in `run` and then `_exit(0)` is reported for neither, and one that only leaves
may be reported for what the plugin before it called there. A plugin that crashes in
`instantiate` or `cleanup` leaves its library open for the rest of the session. The
library of a broken UI is closed twice. `CrashedMeansCrashed` of `LintTrace` does not hold: a
child that gets any signal but SIGSTOP in a traced callback is killed, one it
would have ignored as well, and counts as crashed. The note that a worker lacks
`end_run` takes the place of the finding that a feature is not listed (the
exception in `WorstIsTold`). A UI that cannot be loaded counts as accepted. The
port class test follows only direct subclasses. `_test_extensions` leaks the URI
it reports. The branches for empty texts are never taken. The 1 MiB stack of
each child is never unmapped. A thread that a plugin starts in a callback and
does not end keeps lv2lint waiting. `syscall_from_id(-1)` names the first call
the machine lacks; alpha and ia64 have numbers with two names.

## Proofs

| module | obligations | theorems |
|---|---|---|
| `VarchunkProofs` | 1977 | `RingInvariant`, `RingNoClobber`, `RingGapFollowed`, `RingEmptyGrants`, `RingImplementsFifo` |
| `MapperProofs` | 1078 | `MapperInvariant`, `MapperUniqueSlot`, `MapperOneUridPerUri`, `MapperRoundTrip`, `MapperStaticUrids`, `MapperAccounting`, `MapperImplementsUriMap` |
| `LintSessionProofs` | 2054 | `SessionInvariant`, `SessionCrashReported`, `SessionNonRtReported`, `SessionNonRtVerdictIsOwn`, `SessionWorkIsOwn` |
| `LintTraceProofs` | 346 | `TraceInvariant`, `TraceMadeIsRecorded`, `TraceSuccessIsClean`, `TraceRecordsWhatEnded` |
| `LintUIProofs` | 288 | `EveryListFits`, `HostListsFit`, `UIInvariant`, `UILibrariesBalanced`, `UIVerdictIsOwn`, `UICleanupIsOwn` |
| `LintVerdictProofs` | 472 | `VerdictInvariant`, `VerdictFailAlwaysCounts`, `VerdictOnlyErrorsCount`, `VerdictExactUnlessHidden` |
| `PortProofs` | 340 | `PortInvariant`, `PortNumbersAreSound`, `PortRangeVerdictIsOwn`, `PortScalePointsFound`, `PortParameterIsSound` |
| `MetadataProofs` | 1019 | `MetadataFindingIsTrue`, `MetadataWorstIsTold` |

All assume only what the ASSUME of the module says of the constants, which TLC
evaluates in every run, and those about the ring one thing more, named in the
theorems. They hold for every size of table, ring, list and queue, and for any
number of threads, plugins, ports, children and tests; the bounds of the runs
(`Budget`, `Kids`, `Plugins`, `Uis`) are constants in them as well.

*Ring.* `NoClobber` is not inductive: whether a reserved place is free depends on
where the chunks that are still unread end. `IInv` adds `Chain` - from `tail` to
`head`, chunks and gaps follow one another without break or overlap, measured by
`Ahead`, the distance from the tail -, `Room` (what was reserved stays clear of the
tail, which only moves away from it, and is large enough for headers and payload)
and `Reader` (the consumer stands at the begin of a chunk or gap, and the head it
has seen is not inside one). The crux is that both positions wrap: `TailStep` and
`ChainPublish` show that distances shrink and grow as they would on a line. The
theorems need `SizesFit`: every size is at least 8 below 2^32. Above, `VARCHUNK_PAD`
drops the upper half of the size, and the ring would grant too little; lv2lint
queues nothing near that. In `SizeAssumption`, the ring need not be a power of
two, only a multiple of 8.

*Ring as a queue.* `RingImplementsFifo` shows that every step is a step of
`ChunkFifo` or none. `Chain` says where chunks are, not which; so `Line` goes along
the chunks of `sent`, and says of the i-th that its header and words are in the
buffer at its place. A store of the producer must disturb none of them (it goes
into the reservation, which `Room` keeps clear of everything unread); a release
takes the first away and leaves the places of the others as they are, although
the tail they are counted from has moved; a chunk that is published comes behind
the last, perhaps behind a gap.

*Mapper.* `UniqueSlot` is not inductive: that two threads never put one URI into
two slots depends on what each has seen on its way. `IInv` adds `Placed` - every
URI in the table sits at some step of its own probe sequence, and all earlier
steps are taken by other URIs -, `Searching` - the same of the steps a thread
has behind it, for as long as it goes on -, `Inserted` (between compare-and-swap
and count), `Labelled` (static URIDs) and `Answered`. The crux is that slots are
never emptied (`Grows`, `PassedStable`), so what a thread has seen stays true
without a lock; the compare-and-swap is needed only for the last step. Out of
memory and killed threads are included. `MapperAccounting` compares three numbers
- copies that live, slots taken, threads that hold a copy or are about to count -
which change together and apart; it needs that there are finitely many threads,
and `Books`, which says of each thread whether it holds a copy.
`MapperImplementsUriMap` follows from the same invariant: a store adds exactly one
pair; its URI was absent, for `Placed` and the steps just passed exclude every other
place (`Absent`); its URID is new, because static URIDs lie below all others and
each slot has its own; and a thread that stores no static URI need not look for one,
since all of them have slots before the table is shared (`Labelled`).

*Session.* The reports are made at the end, from results that were stored in any
of a dozen callbacks before. `IInv` orders the callbacks (`Stage`, `Over`) and
follows each kind of fact from the child into the report: a fall is in `status` as
soon as its child is reaped (`Falls`); the mask in shared memory is the plugin's
own while it is being watched (`Watched`), so is the result once the section is
over (`ResultsAreOwn`), and none of it is lost where results are added up
(`ResultsAreWhole`); a chunk in a queue is this plugin's, or its plugin has spilled
it (`Spills`). The exceptions in these - a crash of the same section, or a child that
left by `exit(0)` - are why the reports hold although `status` and `forbidden` are not
cleared between plugins, and where they stop to. Of two `work_response` passes the
second decides: if it has left by `exit(0)`, the first one's result is still there.

*Trace.* `IInv` ties what lv2lint knows to where the child is: `Places`, `Watch` (the
watch is on in the plugin's code, but not while it logs), `Begun` (in a system call
`call` is its place in the table, so that nothing an earlier child has left
is recorded) and `Failure` (a child that fell is on its way to an end that says so).
A second thread disturbs the watch and is excepted by name. The tables are a
constant: the theorem covers those that are not in `SyscallTables` too.

*Lists and UIs.* `EveryListFits` counts: the cases of the two loops of `main` against
the sizes of the arrays, for any set of requirements; the options that
`bufsz:boundedBlockLength` implies are counted only if they are not required as
well. `IInv` of `LintUI` adds `Handles` (a library is open as often as it has users,
the instance, the UI under test and the `orphans`, unless a UI in it was broken) and
`Fresh` (between
instantiation and cleanup, what `app` holds of a UI is this UI's).

*Verdict.* The three properties speak of a plugin that is done, so `IInv` says
what holds on the way: `Options` ("fail" is never taken from either set, and
only `-S` parts the two), `Progress`, `Noticed` (a result at a shown level sets
`msg`), `Blamed` (what has counted was an error, and was named unless hidden) and
`Kept` (an error that was found has counted, or is still to be reported in this
group). `Kept` survives `Summarise` because of `Noticed` and `Options`: if there
is nothing to print, there is no failure.

*Ports.* `IInv` says that the fields of `app` and the findings are, at each step, what
they would be had this port been the first (`Own`): each number test writes its field
for every port, with a fall-back for one that has no such number, before the range
test reads it.

*Metadata.* A chain of else-ifs reports the first condition that holds: the finding
is true because of that condition and the failure of all before it, and nothing
graver is true because the graver questions come first. `CascadeFirst` shows what
a chain of any length returns (the least index is found by well-foundedness of
the order on numbers); then there is a lemma for each of the 19 tests that ask
more than one question, for whatever facts there may be: lists and class
hierarchies of any size, any set of functions, ports, types, points.
`MatchIsDescent` shows that the search down from `lv2:Plugin` and the way up from
the class find the same: each set is closed under what the other one is made
of. It needs no finite hierarchy and no acyclic one (where the code would not end).

Only model-checked: liveness (`TailMoves`, `CallsReturn`, `SessionEnds`,
`TraceReturns`), for TLAPS proves neither liveness under fairness nor ENABLED. No
module uses RECURSIVE operators. The assumption `SizesFit` excludes requests
close to 2^32 bytes, for which the theorems about the ring are false.

## Not modelled

* relaxed rings and the shared-memory ring: not used by lv2lint;
* RDF parsing, mail, formatting, colours: data without order;
* the ELF tests (`test_visibility`, `check_for_symbol`, `test_shared_libraries`) and
  with them the symbol and library whitelists `-s` and `-l`; the online tests:
  parsing of files and HTTP, optional at build time;
* the test of a window's hints, which reads X properties; the drawing loop;
* `mum_hash`: third-party; the mapper is modelled for every hash;
* `shm_attach` and `shm_detach`, the first call's initialisation in the interposer,
  and several threads of a plugin in one interposed function: `LintTrace` has the
  one effect of a second thread that lv2lint itself makes possible, a watch
  switched off and on; the mask is a set of atomic flags;
* what `exit` runs in a child that a plugin ends so: handlers of `atexit` and the
  flushing of streams, in memory that is lv2lint's;
* the locks of the shared heap, which a killed child may hold: they are libc's;
* whatever runs out over a long session: stacks (their failure is modelled, the
  leak is not), and the exit code, which is the number of failed plugins and 0 for
  256 of them.

## How it was built, and what is left

In this order: ring, mapper, mapper proofs, session, verdict, verdict proofs, number
tests; then tables and traces, lists and UIs, metadata tests, and the proofs of
trace, UI, ports, session and ring; then the refinements of the queue and of the
atomic table, the accounting of the mapper and the proofs of the metadata tests.
Left, by weight:

1. the session's queues as an instance of `ChunkFifo`, to compose it with the ring,
   and the callback of `LintSession` as an abstraction of `LintTrace`;
2. several threads of a plugin in the interposer, with its initialisation and the
   attachment to shared memory;
3. the tests of a UI in the run of `test_ui`, as those of ports are in theirs; the
   exit code of `main`, with a scaled modulus.

## Running it

    tlc -workers 2 -config MCMapper.cfg MCMapper.tla
    tlapm MapperProofs.tla
