# Verification of STOB PIM2: the hierarchy PIM simulator and its evidence flow

The repository is a C++ simulator of an HBM stack with processing in memory
(built on DRAMSim2), extended by a second level of compute on the logic die, an
RTL implementation of the parts of that second level, and, by far its largest
part, the Python and shell scripts that take that RTL through placement, routing
and release and that decide from recorded evidence what may run next. This
directory holds TLA+ models of its control, TLC configurations that check them on small
instances, and TLAPS proofs about them for every value of the constants.

`tlc -config X.cfg M` runs a check, `tlapm M_proofs.tla` replays the proofs;
`PROJECT.json` lists runs, properties, the source lines each definition
translates, known hazards, findings and theorems.

## 1. Inventory

| Component | State | Operations | Interacts with | What must be right |
|---|---|---|---|---|
| **Driver** `tests/PIMKernel.cpp` | cycle counter, current domain (bank / logic), mode | `addTransactionAll`, `addBarrier`, `runPIM`, `changePIMMode`, kernels | calls the channels between two `update()`s | barriers separate what the kernel means them to; `runPIM` returns |
| **Channel front end** `MemorySystem`, `MemoryController` | `pendingTransactions`, `transactionQueue`, two command queues, both buses, write countdowns, pending reads, per source: epoch to assign, epoch to issue, outstanding map | `addTransaction`, `addBarrier`, `update` (a dozen blocks in a fixed order), callbacks | driver above, rank below, shared logic-die buffers beside | epochs order what the barriers say, counts are exact, buses never collide, returns match, nothing is stuck |
| **Command queues, bank timing** `CommandQueue`, `BankState` | per-rank queues, round-robin position, refresh flag, bank states | `enqueue`, `pop`, `popDirect`, `isIssuable`, `needRefresh` | controller | only legal commands leave, refresh is not lost or starved, same-address order |
| **Rank** `Rank` | second copy of the bank states, mode per source, read-return FIFO | `receiveFromBus`, `checkBank`, `sendToBank`, `update` | controller, PIM rank | its bank states agree with the controller's; mode changes do not hit commands in flight |
| **PIM rank** `PIMRank`, `PIMBlock`, `PIMCmd` | CRF, PC and loop state per context, registers | `doPIM`, `writeHab`, `readHab` | rank, logic-die scheduler | contexts do not disturb each other, loops run the programmed number of times |
| **Output buffer** `LogicDieOutputBuffer` | reserved tiles, retirement order, committed tiles, drain | `reserve`, `write`, `commitReadyFront`, `advance`, `consume` | all channels' controllers | tiles retire in order, once, complete; the drain ends |
| **Accumulator** `LogicDieAccumulator` | partial sums and tap counts by key | `beginLayer`, `accumulate`, `finalize`, link replay | rank | a key is final after its taps, capacity is kept |
| **Logic-die scheduler** `LogicDieScheduler` | lanes, reservations, open masks, central requests and grants | `reserve`, `submitCentralRequest`, `buildCentralGrants`, ... | PIM ranks of all channels | grants within the depth, nobody is passed over for ever |
| **Hierarchy arbiter** `HierarchyPIMArbiter` | two request queues, last issued source | `enqueue`, `issue` | scheduler | round robin, bypass, no starvation |
| **Layer pipelines** `HierarchyTilePipeline`, `ActivationRowBuffer`, `LogicDieWeightBuffer` | tiles and rows in flight | push, complete, release | kernels | a row is consumed before it is overwritten |
| **Multi-channel system** | channels, shared logic-die objects, clock crosser | routing, `update`, counters | driver, channels | sums the counters `runPIM` reads |
| **RTL** (`src/rtl`) | link arbiters, coalescer, epoch barrier, PCU scheduler, bank scheduler, boundary adapter, writeback slices, reduction buffers | valid/ready handshakes | each other | no lost or doubled transfer, service bounds, illegal starts reported |
| **Quad-local variant flow** `tools/select_b*`, `authorize_b*`, `decide_b*`, `run_wbq_quad_local_b*` | per variant: decision, cheap gate, smoke, permissions, placement and route reports, congestion analysis, strict gate; databases in `/dev/shm` | one script per step and variant; placement and route runners, with signal and EXIT traps or without | only through files; `pgrep openroad` | one placement and one route per variant, a pass stands on a clean finished route, a successor on a true failure |
| **Release chain** phases 6 - 10 of B3, B5, B6, B7 | per stage: permission, preflight, invocation record, report; completion report | permissions, runners with a reopen audit, stream-out, overlay, merge, completion audit | reads the strict gate | stages run once, verdicts are final, completion means the whole chain |
| **In-place wbq pipeline** `run_normalization_hbm_wbq_*`, `collect_wbq_*`, `decide_wbq_post_route`, `run_wbq_post_route_transition`, `verify_wbq_phase6_gate` | placement, logs, audits and manifests, all overwritten in place; status file | placement, recovery, audit, collection, route, decision, gate, CTS, post-CTS route | only through files and hashes | what a stage uses is what its predecessor judged |
| **Other tooling** | experiments, analyses, reports, configuration, CSV | offline | - | out of scope |

Hard behaviours: the driver and the clock interleave only at `update()`
boundaries, but one `update()` moves state through a dozen blocks, so that a
completion in an early block is seen by a scheduling decision in a later one. Two
sources (BANK and LOGIC) share queues, buses and the matching of returned data
while each has an order of its own. Queues are bounded. Three kinds of
transactions complete in three different places.

In the evidence flow every step is a process of its own and the only shared state is
files. Nothing locks them: a script looks whether its output exists, reads, decides and
writes seconds or hours later. Runs take hours, so they are signalled, killed and
lost in reboots; reports survive in the repository while databases in tmpfs do
not. The code answers with exclusive creation (`open("x")`), recorded hashes, traps that
write a fail-closed report, and `pgrep` against concurrent runs; the models
ask whether these together are enough. The list `hazards` in
`PROJECT.json` names each at its line.

## 2. Plan

| Step | Modules | Runs | Theorems | State |
|---|---|---|---|---|
| 1 | `EpochContract` (abstract), `HierarchyFrontEnd`; `HierarchyFrontEnd_proofs`, `TransactionPlaces_proofs`, `EpochOrder_proofs`, `ReadReturn_proofs`, `BatchOrder_proofs` | front_end_* | types, data bus, exact counts, the refinement; returns, draining, order of acceptance and issue, barriers | done |
| 2 | `VariantTable`, `VariantFlow`; `VariantFlow_proofs` | variant_* | types, one placement, one route, grounded passes, true successors, signals, one verdict | done |
| 3 | `ReleaseChain`; `ReleaseChain_proofs` | release_chain | types, one run per stage, grounded completion, pinned tools, final verdicts | done |
| 4 | `WbqEvidence`; `WbqEvidence_proofs` | wbq_* | types, grounded clock trees, reopened before use, status and decision agree | done |
| 5 | `OutputRetirement` (abstract: in-order retirement, each tile once) implemented by the output buffer fed from the return queues of two channels; accumulator | one safety run with the refinement, one liveness run | retirement order, capacity | planned |
| 6 | `CommandScheduling`: command queues, bank states of controller and rank in step, refresh | one run | the two copies of a bank's state agree | planned |
| 7 | `LogicDieScheduler`, `HierarchyArbiter`, small pipelines | one run each for scheduler and arbiter | bounded grants, arbiter's waiting bound | planned |
| 8 | RTL: coalescer, bank scheduler, boundary adapter | one run each | coalescer: a channel's command is issued once | planned |
| 9 | `RankModes`: mode state machine and CRF interpreter with two contexts | one run | contexts are independent | planned |

The front end comes first because every result of the simulator depends on its
ordering rules, and because it is the part with the most actors. The evidence flow comes
next: it is most of the repository's code, its failures are races and crashes
that no test reaches, and its verdicts are what the repository's reports rest on. Modules that are
proved about use no recursive operators; parameters are constants with one named
assumption; proofs live in modules of their own, `*_proofs`.

## 3. `HierarchyFrontEnd`: one channel between the driver and the rank

### What is modelled

The configuration of the hierarchy experiments: `HIERARCHY_SOURCE_QUEUES` and
`HIERARCHY_READY_BYPASS` on, one rank, `tCMD` = 1.

`MemorySystem::update()` is split at its own seams: `phase` is its program
counter, each block of the code is one or more actions, and the blocks follow in
the order of the code:

| `phase` | Code | Actions |
|---|---|---|
| idle | between two updates: `PIMKernel`, `MemorySystem::addTransaction/addBarrier`, `runPIM` | `SubmitAccepted`, `SubmitPending`, `BarrierPending`, `BarrierQueued`, `EnterRunPIM`, `LeaveRunPIM`, `BeginUpdate` |
| rank | `Rank::update`, the read data bus | `RankReturns`, `RankWaits` |
| pull | `MemorySystem::update`, one waiting transaction moves in | `PullPending`, `PullNothing` |
| command | command bus: the packet reaches the rank; direct accumulator writes complete here | `CommandBusRead`, `CommandBusDirect`, `CommandBusOther` |
| data | write data bus: a write completes when its burst ends | `DataBusDone`, `DataBusBusy` |
| burst | write countdowns: the next burst starts | `WriteDataStarts`, `WriteDataWaits` |
| pop | command queues: epoch, barrier, write and dependency rules; reads count as done here | `PopCommand`, `PopNothing` |
| enqueue | `updateTransactionQueue` | `EnqueueCommand`, `EnqueueNothing` |
| return | matching of a returned packet to a pending read | `ReturnReadData`, `ReturnNothing` |

State keeps the names of the code. Three things differ in form. A transaction is
a number in the order of submission; what the code keeps in its fields and in its
tag string is `request` (source, kind, completion class, location), `bar` (the tag
holds `BAR`) and `epoch` (the epoch number in the tag). `stage` says which queue
holds it. The two maps `bankEpochOutstanding_` and `logicEpochOutstanding_` are
bags: an entry disappears when its count reaches zero, as in
`completeEpochTransaction`. `fence` and `barriers` are history, read only by
properties.

Error exits of the code are steps that are not enabled: the collision exits
guard `WriteDataStarts` and `PopCommand`, `abort()` guards `ReturnReadData`. A
run with deadlock checking therefore also shows that the command bus collision
and the missing match cannot happen.

### What is left open or out

* Bank timing, row commands, refresh, the rank's acceptance by mode: whether an
  issuable command goes this cycle is a free choice (`PopCommand` or
  `PopNothing`), and which of several issuable commands goes is free too. So the
  alternation between the two queues (`nextLogicControlCommand_`) is subsumed.
* The read latency: `RankReturns` or `RankWaits`. Order among reads is the
  rank's FIFO.
* Logic-output reads that stall in the return queue for a tile
  (`MemoryController.cpp:1006-1030`): planned with `OutputRetirement`.
* `HIERARCHY_SOURCE_QUEUES` off, several ranks, power states, statistics,
  energy.

## 4. The evidence flow

### `VariantTable` and `VariantFlow`: the quad-local variants

Every variant B3 ... B25 has its own copy of the select, authorize and decide scripts,
each with small differences that matter. `VariantTable` has one definition per script
with what is its own: the predecessor and the evidence it reads, the change it selects
or expects and in which fields, the placement it starts from, whether it refuses to
overwrite, insists on a fresh directory, pins hashes, needs a smoke. `VariantFlow` gives
the records their meaning, one action per kind of script.

| Code | Actions |
|---|---|
| `select_bN_*.py` | `Select` (`Supports`: `BlockedByCongestion`, `AbortedByTool`, or a failed placement) |
| `collect_wbq_quad_local_cheap_gate.py` | `CollectCheapGate`, also again later |
| `authorize_bN_physical_run.py` | `AuthorizePhysicalReads`, `AuthorizePhysicalWrites`: a cheap gate collected between loading and hashing is pinned unread |
| `run_wbq_quad_local_bN_placement.sh` | `PlacementChecks`, `CreatePlacement`, `LaunchPlacement`, `PlacementReturns`, `SealPlacement`; traps: `SignalPlacement`, `PlacementFails` |
| smokes, `analyze_bN_placement_log.py`, reopen audit | `RunSmoke`, `AnalyzePlacement`, `AuditReopen` |
| `authorize_bN_global_route.py` | `AuthorizeRouteReads`, `AuthorizeRouteWrites`: test and write are apart |
| `run_wbq_quad_local_bN_global_route.sh` | `RunnerChecks`, `CreateAttempt`, `Launch`, `PollComputePid`, `WaitReturns`, `ParseCongestion`, `SealManifest`; `RunnerTooEarly` for its early `mkdir -p` |
| its traps | `SignalRunner` (`on_signal`), `RunnerFails` (`on_exit` after a failing command) |
| `decide_bN_phase6_strict_gate.py` | `DecideGateReads`, `DecideGateWrites` |
| environment | `PlacementEnds`, `OpenroadEnds`, `TerminateOpenroad` (the operator stops an OpenROAD that does not end), `KillProc` (no trap runs; a file being written is torn), `Reboot` (tmpfs and processes gone), `EditTool` |

The runners are not copies of each other. Those of B3, B4 and B5 have no traps, nor has the
placement runner of B6: OpenROAD runs in the foreground, a signal or a failing command ends them
and leaves no report. Those from B7 (route: B6) on have traps; which OpenROAD the traps stop is the
field `pid` of `PlacementRun` and `RouteRun`: their own child, the only process of that name, the
newest one. `SignalRunner`, `RunnerFails`, `SignalPlacement` and `PlacementFails` are enabled
only where there are traps; everything else is `KillProc`. A trap reads the invocation record to
write its report, so a command that fails while it rewrites that record leaves none either.

`RefreshComputePid` keeps the code's rule: the one process named `openroad` is taken for
the runner's own. Congestion totals are a few records (`Totals`): clean, the totals a selection
names, and overflow without residual. `launches`, `ended`, `placements`, `placeEnded` and `orphaned`
are history for the properties.

### `ReleaseChain`: phases 6 to 10

Stages are CTS, post-CTS route, detailed route, stream-out, overlay and merge. The first
three run OpenROAD twice, for the result and for a reopen audit, under a permission
that pins the contents of their scripts (B6, B7) or without one (B3, B5). `tool` is the
content on disk, `recorded` what the invocation record names, `used` and `edits`, history, what
OpenROAD read and how often the file was edited. An edit may restore an earlier content
(`EditTool` over `Contents`), as hashes cannot tell that anything happened. The completion audit is
`AuditReads`, `AuditPreflight`, `AuditVerifies`, `AuditConcludes`, `AuditPublishes`,
`AuditRewrites`: it creates its preflight exclusively and may raise after that, and it ends by
rewriting the completion report it has just created, in place; a kill in that rewrite leaves
a torn report (`KillProc`). The EXIT trap of a runner (`RunnerFails`) may come before or after the report is
written.

### `WbqEvidence`: the pipeline that overwrites in place

Three scripted sequences run beside each other. A file is a record, and two records are equal
exactly when the hashes of the files are; a manifest contains the records it
hashed. The gates are translated as comparisons of such records, so a lineage that the code does
not compare is not compared in the model either. The order of reading and hashing within a
collector is kept (`CollectRouteReads`, `CollectRouteWrites`), as are the gap between the
hashes in the header of a log and the read by OpenROAD (`RouteHeader`, `RouteLoads`; `CtsHeader`,
`CtsLoads`) and the two
status writes around each child of the transition. `Recover` and the no-op rerun of
`make` after it are the reason for `resize` and `partial`. `write_text` truncates: while the
placement manifest is written (`OpenPlaceManifest`, `WritePlaceManifest`) other scripts find none, a kill
leaves it so, and the gate, the route manifest, the decision and the stage manifests may be torn by a
kill too. A torn file is `Absent`: who loads it stops.

## 5. What the runs check

| Run | Question | Result |
|---|---|---|
| `front_end_free` | The driver submits, sets barriers (twice in a row too) and updates in any order; bursts of two cycles, write latency three. | `TypeOK`; `OutstandingExact`: the outstanding maps count exactly the transactions that hold an epoch open; `EpochsInOrder`: what is issued has nothing unfinished of an older epoch behind it, whatever is accepted later; `NoDataBusCollision`, `BurstsDisjoint`: ordered and bulk writes share the bus; `ReturnHasMatch`: returned data always finds a read; `ImplementsContract`: every step is one of `EpochContract` |
| `front_end_batch` | The driver keeps `PIMKernel`'s discipline: a batch, then `runPIM`; no barrier directly after a barrier; the sources read different locations; transaction queue of depth one. | `DrainedMeansFinished`, `ClosedEpochHasBarrier`, `BarrierRespected`, `SameAddressOrder`, `ReadCompletesAfterIssue`, `PendingNewerThanController`; `RunPIMReturns` under fairness |
| `front_end_overtaking` | Does a waiting transaction stay ahead of a newer one when the driver updates between submissions? | no, see finding 1 |
| `front_end_shared_address` | Does a read complete only after its own command, when both sources read one location? | no, see finding 2 |
| `front_end_repeated_barrier` | Does `runPIM` return after two barriers in a row? | no, see finding 3 |
| `front_end_cross_queue` | Does `runPIM` return when one epoch is spread over both command queues? | no, see finding 4 |
| `variant_route` | B9 from its placement on, B14 and B15 on that placement, two operators, one fault (1,050,605 states) | `TypeOK`; `SingleInvocation`: one route per variant; `SinglePlacement`: one placement; `PassGrounded`: a passing gate stands on a route that finished clean; `SuccessorOnTrueFailure`: a kill, a signal or a reboot opens no successor, not even a signal by the runner of another variant; `SignalSealsFailure`; `VerdictStable` |
| `variant_placement` | the chain B3 ... B9, one operator, one fault (22,708 states) | `SuccessorOnTrueFailure` for placements; `StartedRunSeals`: a started placement or route gets its report, unless its runner died where it has no trap |
| `variant_one_variable` | Does the route of a variant differ from its predecessor's only as declared? | no, see finding 5 |
| `release_chain` | B5 and B6, two operators, one fault, edits that may be taken back (740,100 states) | `TypeOK`; `OneInvocation`; `CompleteChain`: completion means a clean chain, computed and reopened; `CompleteOnPinnedTools`: an edit in the gap between check and launch is found by the audit, unless it was taken back; `VerdictsFinal`: verdicts do not turn, a completion report may be torn |
| `wbq_evidence` | all three sequences with reruns, two transitions, archiving and one kill (530,957 states) | `TypeOK`; `CtsGrounded`: the placement a passing clock tree's log names was repaired, legal and cleanly routed; `ReopenedBeforeUse`: stale audits release nothing; `StatusAgrees`: also when a second transition begins over the decision of the first |
| `wbq_exact_bytes` | Is the placement phase 6 is authorised for the one that was routed? | no, see finding 6 |

**The contract.** `EpochContract` knows neither counters nor queues: a
transaction is accepted into its source's open epoch, a barrier closes it, a
transaction starts only when all of the older epochs of its source are done, a
marked one only as the last of its epoch. The refinement mapping reads the open
epoch off `epochToAssign`, and "done" off the place where each kind of
transaction is counted off: a read when issued, a direct write when it crosses
the command bus, any other write at the end of its burst.

**Bounds.** Three transactions suffice for the smallest case of each rule: an
epoch of two with its barrier and a successor, or two of one source around one of
the other; with depth one and two every queue is full in some state, and the
transactions are every choice from a set (`MCHierarchyFrontEnd`) that has each
kind of completion for some source and each route. `MaxTxn` and `MaxBarriers` bound only what the driver does;
nothing in the model is cut off in mid-flight. `WL` = 3, `BurstCycles` = 2 make
bursts overlap if the reservation is one cycle short. The cross-queue run uses one
workload of five transactions, the fewest with which both queues can be full.
Deadlock checking is on in all runs: the model always has a step, because the clock runs (free) or `runPIM` may be entered again (batch).

*Evidence flow.* Two operators suffice for every race between two copies of a script; a third
would only repeat a role. The copies of a script differ only in their records, so a run takes
the variants whose records differ: B9 places and routes, B14 and B15 (abort,
fresh directory) share its placement; B3 ... B9 have every kind of placement
failure, of evidence of a predecessor and of runner, with traps and without; B5 and B6 are the two generations of release scripts. `History` are variants that
are over and whose files are only read. `MaxFaults` = 1 bounds signals, failing commands, kills,
reboots, edits, re-collections and early runners together (an edit and its
reversal in `ReleaseChain` count once, `Contents` has two members): each property is about what one such event
does at any point of any interleaving. In `WbqEvidence`, `MaxPlacements`,
`MaxCollections`, `MaxTransitions` and `MaxClockTrees` are two, since a stale file needs an old and a
new one, and a status can contradict a decision only if a transition begins over a finished
one; there is one route. `MaxRepeated` = 2 of the kinds of runs happen twice in one behaviour, every pair of
kinds in some behaviour. Deadlock is not checked
in these runs: when the bounded attempts are used up the scripts have nothing left to do, and
a variant whose runner was killed is meant to stay stopped.

**Fairness** (`LiveSpec`, only for `RunPIMReturns`). Weak fairness of `Update`:
`runPIM` clocks the system in a loop. Weak fairness of leaving the loop when its
condition is false. Strong fairness of `PopCommand` as a whole: when the rules
of this module let some command pass again and again, the bank becomes ready and
the rank accepts some command one day; timing constraints are finite, and
refresh ends. It is not assumed of any particular transaction. Strong
fairness of `RankReturns`: read countdowns reach zero. What is *not* justified by
the modelled code alone, and assumed here, is that the rank's mode check does not
reject a source for ever; that belongs to `RankModes`.

`VariantFlow` assumes weak fairness of a runner's own steps (`RunnerStep`): a shell script that
is not killed goes on. That OpenROAD ever ends is not assumed, nor that an operator starts
anything; `StartedRunSeals` therefore starts when OpenROAD is gone. It excepts, through
`orphaned`, the runners that died without a trap, and no others. `ReleaseChain` and
`WbqEvidence` state safety only and no fairness.

`RunPIMReturns` holds in `front_end_batch`, where the transaction queue has one
place and transactions enter the command queues in order. With deeper
transaction queues it does not hold in general (finding 4); it does when
the command queues are long enough to take all that is in flight.

## 6. Findings

1. **Overtaking** (`MemorySystem.cpp:213`). `addTransaction` gives a new transaction to the
   controller whenever it has a free place, even when older ones wait in
   `pendingTransactions`. The comment at `:200-202` says that pending ones are
   newer than everything in the controller. It takes a driver that updates
   between submissions.
2. **Shared address** (`MemoryController.cpp:999`). Returned data completes the first
   pending read of its *address*, and reads become pending when they are queued. When
   both sources read one location (`parkIn` reads the same row for both), the
   data of one completes the read of the other, which was never issued, against
   `design/logic_command_frontend_contract.md:24`.
3. **Repeated barrier** (`MemoryController.cpp:171`). Each `addBarrier` advances the epoch to
   assign, also on a transaction that carries a barrier already; the skipped
   number has nobody to advance `epochToIssue`. `executeGemv` with a resident
   mode calls it directly after `changePIMMode`. It bites only when nothing waits in
   `pendingTransactions` and the controller's queue is not empty.
4. **Cross-queue wait** (`MemoryController.cpp:664`). A barrier takes its place in one
   command queue and waits for an epoch-mate that still needs a place in the
   other; that one is full of the other source's barrier, which waits the other
   way round. The run uses command queues of depth one; at the default depth of
   64 both queues must be full of waiting commands, which a batch of a few
   hundred transactions per channel could do but the experiments did not report.
5. **Undeclared variable** (`wbq_quad_local_b23_global_route.tcl:37`). B23 declares one changed variable,
   the y origin, "while retaining pitch=300, columns=25, layers and all contracts"
   (`select_b23_bump_origin_eco.py:18`); its script also moves the x origin from 1500 to
   1750. The tables show the same of B20 ("changes Y-origin 1500 to 1000 only", the pitch goes from 340
   to 350) and of B17 (columns 23 to 25).
6. **Unrouted placement** (`collect_wbq_global_route_evidence.py:176`). `verify_wbq_phase6_gate.py:2`
   promises phase 6 "from exact placement bytes". No script compares the routed placement with
   the gated one; a placement manifest replaced while the route collector runs is
   hashed as the route's input. It needs a collection of placement evidence concurrent with the
   collection of the route's.

## 7. What is proved

`HierarchyFrontEnd_proofs`, for all constants that satisfy
`ConstantsAssumption` (depths, latency and burst length at least one; any
addresses, any workload):

* `TypeCorrect`: `Spec => []TypeOK`.
* `BurstsStayDisjoint`: `Spec => []BurstsDisjoint`.
* `DataBusSafe`: `Spec => []NoDataBusCollision`: the "Data Bus Collision" exit is
  unreachable.

*Argument.* Types and bursts need each other. `BurstsDisjoint` needs the ranges
of countdowns; the range `1 .. WL` of a countdown, in turn, needs that no two
writes reach zero in one cycle, which is disjointness. So the inductive invariant is
their conjunction (`TypeAndBursts`). The burst part has three clauses: queued
bursts are `BurstCycles` apart in queue order; in phase `pop` every countdown is
below `WL`, so a new write goes to the end; the burst on the bus ends before the
first queued one starts, strictly so between the data block and the burst block.
An ordered write is let through only on an idle bus with nothing queued, a bulk
one only with a free slot (`HasWriteDataSlot`); both keep the three clauses.
The lemmas it rests on: erasing a position of a vector (`RemoveAtProperties`), counts of a bag
after adding and removing (`BagAddCount`, `BagRemoveCount`), countdowns one
cycle later (`DecrementedProperties`), and the types a frame condition keeps
(`TypeFrames`).

`TransactionPlaces_proofs` and `EpochOrder_proofs`, from the same assumption:

* `CountsAreExact`: `Spec => []OutstandingExact`.
* `IssuedEpochsAreClosed`: `Spec => []EpochsInOrder`: the driver-free half of `BarrierRespected`.
  It follows from `IssueInv` and `AloneInv` below.
* `ControllerImplementsContract`: `Spec => ImplementsContract`, the step
  simulation of `EpochContract` under the mapping of section 5.

*Argument.* There are two layers. `PlacesInv` says where a transaction is: `stage`
agrees with the queue that holds it, no queue holds one twice, what is on a bus
is issued and not finished, and a read is never in a write's place
(`PlacesNext`). It is needed because the counters move in four
blocks of `update()` and the driver: only knowing that a packet on a bus is
issued and unfinished shows that it is counted off once. With it, whatever an action
does to queues and buses, its effect on the epochs is one of five
(`EffectOfNext`): none, `Accepting`, `Marking`, `Issuing` or `Completing` one
transaction.

`EpochInv` says what counters and maps mean. `CountsInv`: the map counts the open
transactions of an epoch. `AssignInv`: an accepted transaction's epoch is at most
`epochToAssign`, a barrier's strictly below. `IssueInv`: an open transaction's epoch
is at least `epochToIssue` and an issued one's at most, hence a transaction in flight
is of exactly that epoch. `AloneInv`: a barrier in flight is alone in its
epoch. `CountsInv` makes the test `Outstanding = 1` of `canIssueEpochBarrier`
mean "alone" (`LastOfEpoch`); `AloneInv` carries that to the completion, where
the barrier moves `epochToIssue` on and leaves nothing behind. The proof makes
no use of the driver's discipline: repeated barriers and any interleaving of
submissions and updates are included.

Both invariants were first checked by TLC on the instance of `front_end_free`.

`ReadReturn_proofs`, from the same assumption and for any driver:

* `ReturnsFindTheirRead`: `Spec => []ReturnHasMatch`: the `abort()` of the return path is unreachable.
* `DrainFinishesAll`: `Spec => []DrainedMeansFinished`: when `runPIM` leaves its loop, nothing is left.

*Argument.* A read that was issued travels along one line: the command bus, the rank, the
packets returned (`ReadLine`). The controller keeps a list of its own and matches the two by
address, so with both sources reading one cell it is not invariant that a read and its data
correspond (finding 2). What is invariant is a balance: at each address, as many reads are
still to come back as are still pending (`BalanceInv`). `LineInv` and `UnreadInv` say that nobody is twice
on either side. `CountInv` says what `numOnTheFly` means, `FoundInv` that a transaction is in the
queue its stage names. `numOnTheFly` leaves out `pendingTransactions`; that nothing is
lost by it is `WaitInv`: while something waits in front of the controller, something in it
is unfinished, because a controller that refuses is full. `WaitInv` names a queue for each phase of
`update()`, since in the middle of a cycle the queue is shorter. Every action moves a
transaction in one of five ways (`Movement`); the first part of the proof shows this, the rest
argues about the five. TLC checked `FlowInv` on the instances of
`front_end_free` and `front_end_batch`.

`BatchOrder_proofs`, from the same assumption and hypotheses on the driver, which each theorem
names:

| Theorem | Property | Hypotheses |
|---|---|---|
| `PendingIsNewer` | `PendingNewerThanController` | `BatchDriver` |
| `SameAddressInOrder` | `SameAddressOrder` | `BatchDriver` |
| `BarriersHold` | `BarrierRespected` | `BatchDriver` |
| `ClosedEpochsHaveOneBarrier` | `ClosedEpochHasBarrier` | `BatchDriver`, `~RepeatBarriers` |
| `ReadsCompleteAfterIssue` | `ReadCompletesAfterIssue` | `BatchDriver`, `ReadsApart` |

`BatchDriver`: every caller of `PIMKernel` submits its batch and then calls `runPIM`. Without it
the first of these properties is false (finding 1). `~RepeatBarriers`: one `addBarrier` after
a submission; `executeGemv` with a resident mode departs from it, and finding 3 is what follows.
`ReadsApart`: in no workload do the two sources read one address; it holds of the workloads of `front_end_batch`
and not of `parkIn` (finding 2).

*Argument.* `SettledInv`: between two runs nothing is in a command queue, and what was issued is
finished and older than all that was not; so a transaction waits in front only of a full controller, and
the next one joins it there instead of passing it. `OrderInv` follows along the queues: the waiting ones and
the transaction queue are in the order of submission, each command queue is for each source
(`Rising`); `updateTransactionQueue` takes the oldest of a source and a route (`EnqueueOldest`) and
`pop` the oldest of a source and an address in a queue (`PopOldest`), hence `StageOrders`. `FenceInv`
divides transactions by barrier calls: the older of two is in an older epoch, or its epoch is
closed already, or a waiting barrier is going to close it before the younger enters. This does not
need the driver to set a barrier only once. `BarrierInv` does: a closed epoch has a barrier and no
second one, which needs `FreshInv`: while the newest transaction is not yet marked, its
epoch has not been closed. `PairInv` strengthens the balance: with the sources' reads apart, the two sides are the
same reads, and at each address in the same order, so the first match is the read itself. TLC
checked all of them on the instance of `front_end_batch`.

`VariantFlow_proofs`, from `FlowAssumption` (the running variants have selection scripts, what
those read belongs to a running or a finished variant, the totals include the clean ones and
those the selections name) and from the tables themselves, for any number of operator processes
and any bound on faults:

* `TypeCorrect`, `OneRoute` (`SingleInvocation`), `OnePlacement` (`SinglePlacement`),
  `GroundedPass` (`PassGrounded`), `SuccessorGrounded` (`SuccessorOnTrueFailure`), and the
  action property `SignalIsFailure` (`SignalSealsFailure`).
* `OneVerdict`: `VerdictStable`, under the hypothesis `SmokePermission`: the permission to route of
  every running variant that has one rests on its smoke, and neither on a cheap gate nor on a
  permission that pins one. That is B10 ... B24, and B3, B4, B5 and B8, which have no such permission.

*Argument.* The files of a placement and of a route are written once, although `open("x")` protects
only some of them. `PlacerInv` and `OwnerInv` say why: a runner that made the invocation record is the
only one between the record and the report, OpenROAD has not been launched before it does, and
while its OpenROAD lives nothing is known of how it ended. From this follow the lemmas the rest
rests on: `AttemptWrites`, `EndedOnce`, `AnalysisWrites`, `ManifestWrites`, `PlacedOnce`,
`PlacedWrites`, each of them "what is there does not change, but for a tear, and what is new was written
by a process in this state". `PlacedInv` and `RunInv` then carry the outcome: an exit code 0, 134 or, of
a runner without traps, 143 that a runner holds is that of the run, hence a report of a placement says how the
placement ended, the analysis is of the finished run, a PASS manifest of a finished one, an
exit code 134 of one that aborted. `PlaceInv` carries the placement through check, record and launch
of the route. With these a verdict is grounded when a decider reads (`GateInv`), a selection true when it is made
(`SelectInv`), and neither ground is taken away before the write. `TableFacts` is proved from the
records: a selection that reads a failed placement names a variant whose route would start from
its own placement, so after it no route of that variant can start, and the one selection that reads an interrupted
placement reads that of B5, whose runner has no trap (`PlacementRowB5`).

`VerdictInv` is a second invariant. Deciders and authorizers test and write in two steps and
overwrite each other, so what matters is that all who hold a verdict about a variant hold
the same: the reports they read are written once (`ReportsOnce`), a database does not come back
after a reboot, which ends them, and once a route was attempted every pending permission is
PASS (`Permitted`). A cheap gate is the one report that is collected again. The permission of B25 to
route reads it, and those of B6, B7 and B9 read a permission to place, which two
authorizers may write with different verdicts when the gate was collected again between. There
the property fails: with B25 running, B9, B21 and B24 finished, two processes and one
fault, TLC finds that of two authorizers one read the cheap gate before and one after it was
collected again and failed; the first permits, the route runs, the second overwrites the
permission with BLOCKED; of two deciders, one read the permission before and one after, and the
second overwrites a PASS of the gate with BLOCKED.

`ReleaseChain_proofs`, from the assumption of `ReleaseChain`: `TypeCorrect`, `StageRunsOnce`
(`OneInvocation`), `CompletionGrounded` (`CompleteChain`), `CompletionPinsTools`
(`CompleteOnPinnedTools`) and the action property `VerdictsStay` (`VerdictsFinal`).

*Argument.* `OwnerInv`: the process whose `open("x")` made the invocation record of a stage owns
the stage until it is idle. `RunInv`: the exit codes it holds are of its own run. `ReportInv`: a
report that says PASS names codes 0, and the documents it rests on do not change. `ToolInv` counts edits:
a content that differs from the recorded one at OpenROAD's read took one, and to be back at
the recorded content, which an audit that hashes again tests, another. What
`CompleteOnPinnedTools` promises is therefore less than that OpenROAD ran the pinned tool: an edit that is
taken back before the audit escapes the code, and the property names it. `AuditInv` says
after each step of the audit what it has verified, and that nothing of it is undone; `SealInv`, that
only the process that created a completion report rewrites it, with the verdict it holds.

`WbqEvidence_proofs`, from `WbqAssumption`: `TypeCorrect`, `ClockTreeGrounded` (`CtsGrounded`),
`ReopenedFirst` (`ReopenedBeforeUse`) and `StatusFollowsDecision` (`StatusAgrees`).

`ClockTreeGrounded` speaks of the placement whose hash the log names. That make read that placement is
not proved and not true: a placement started after the `pgrep` may replace the database between the header and
make's read, and the collector compares logged hashes only.

*Argument.* Nothing here is written once, so the invariant is about contents: a file is a record
that contains the records its writer hashed. `PlacementInv`: a manifest that says legal is of a repaired
placement, whichever of placement, recovery and rerun wrote it. `RouteInv`: a collected route has
the placement it was started on, and decision and status files name the same phase whenever
the status says 5 or 6, also between the two writes of a transition. `StageInv`: for every stage and
every step of its script what has been read and checked so far; `ManifestInv`: a clock tree manifest
contains a decision that rests on a route without congestion. Numbers of trees are fresh, which is
why an audit log left of an archived tree names no later one.

Every invariant was first checked by TLC on the instances of the runs. The proofs changed the
models in three places where a definition was open in TLA+ though not in TLC: two `CASE` with arms that
overlap (`RouteVerdict`, `DecisionKind`), now nested tests in the order of the code, and one
union without parentheses (`Sources`).

*Only model-checked.* Every invariant and every action property of the passing runs is proved; what
stays with TLC is `RunPIMReturns` and `StartedRunSeals`, since liveness under fairness is out of the
prover's reach. `OneVariableEco` and `Phase6ExactBytes` are false of the code. The violation
runs of the front end refute `PendingNewerThanController`, `ReadCompletesAfterIssue` and `RunPIMReturns`
only outside the hypotheses under which these are proved or checked. The theorem `OneVerdict` is
narrower than its property: B6, B7, B9 and B25 are outside it.

## 8. Not modelled

Floating-point arithmetic (FP16/BF16 values are data), configuration parsing, CSV
and statistics, energy, trace-driven front ends. Of the scripts: the experiment drivers, the analyses of B0 - B2,
the architecture and placement studies and the report generators (sequential
computations over recorded data, without state between runs); the simulations behind the cheap
gate; the silence monitors; in the wbq pipeline the stages after the post-CTS route, the final audit,
`mark_waiting_approval` and the functional and synthesis collectors. Contents of logs and databases
are reduced to the verdicts a script extracts from them, and hashes to equality. Checks that a script makes of the *text* of another
script ("`refusing duplicate` in runner_text") are constants of the repository: evaluated on the sources they hold for every permission to route, for the clock tree and for
the route after it; those of the permissions to place and to detail-route are assumed to hold. The
smokes, the placement analysis and the reopen audit are one step each, and so are a runner's
installation of its traps and its start of OpenROAD. Components
still planned are listed in section 2 and, with their status, in `PROJECT.json`.

Hazards seen at these places, which no property covers:

* `CommandQueue.cpp:662`: needRefresh keeps one refreshRank: a second rank that falls due before the first refresh was issued overwrites it and the first rank's refresh is lost.
* `rtl/normalization_hbm_boundary_adapter.sv:261`: A start with zero vectors sets the error flag and the same clock edge clears it again; the adapter then runs with vectors_q - 1 wrapped around.
* `LogicDieOutputBuffer.h:51`: beginLayer clears reservations and committed data whatever is still draining or unread.
* `CommandQueue.cpp:216`: The guard that stops new commands while a refresh waits is commented out; steady traffic to open rows can put the refresh off for ever.
* `Rank.cpp:128`: The controller issues by its own copy of the bank states and the rank checks by another one a command cycle later; any disagreement exits the program.
* `Rank.cpp:624`: Reads are returned strictly in FIFO order although the comment says lanes complete out of order: one slow lane holds back every finished one.
* `LogicDieAccumulator.h:68`: A key is complete after the expected number of taps, however many times one tap arrives; a layer begun with taps outstanding mixes them.
* `LogicDieScheduler.h:461`: Grants are rebuilt every cycle from the requests of that cycle, around a cursor that moves on whether or not the grant is used; a stream whose requests come in the wrong cycles could be passed over again and again.
* `rtl/normalization_bank_scheduler.sv:183`: Service ages saturate at the configured bound and raise a sticky error; three requesters with a shared port can exceed it under skew.
* `rtl/logic_command_coalescer.sv:74`: A completed entry is popped and a request matched to the same entry in one clock edge: the request must be rejected, not merged into the entry that leaves.
* `run_wbq_quad_local_b14_global_route.sh:183`: A kill between the invocation record and the traps leaves a record without a report; no script accepts the variant again.
* `tools/select_b14_bump_grid_eco.py:17`: mkdir without exist_ok: a route runner started too early makes the directory (runner line 38) and the selection can never run again.
* `tools/authorize_b9_physical_run.py:182`: The cheap gate is loaded at `:66` and hashed here, and the placement runs hours after its pin check (`run_wbq_quad_local_b9_placement.sh:58`): a gate collected again as FAIL in between is pinned as if it passed, or placed on.
* `run_normalization_hbm_wbq_phase6_cts.sh:56`: The placement is hashed for the header and read later by make (`:65`).
* `run_wbq_quad_local_b14_global_route.sh:113`: A pinned TCL file may be edited between the runner's hash check and the moment OpenROAD reads it.
* `tools/check_b6_phase7_rtl_gds.py:98`: The converter is hashed after the stream-out it did; an edit in between is recorded as the version that ran. The audits of B3 and B5 hash no inputs at all.
* `tools/audit_b6_phase10_completion.py:123`: The audit opens its preflight exclusively before it verifies; when it raises afterwards (regeneration of a GDS lost in a reboot, line 213) it can never be run again.
* `tools/audit_b6_phase10_completion.py:390`: Every variant's audit writes the same HTML file 09_final_completion_report.html and refuses to start when it exists: the second complete variant cannot be audited.
* `tools/run_wbq_post_route_transition.py:202`: The second write_status writes the document read earlier and loses a WAITING_APPROVAL mark set by another process in between.
* `tools/audit_wbq_final_completion.py:68`: The final audit reads only the verdict of each manifest; manifests of different runs of the same stages pass together.
