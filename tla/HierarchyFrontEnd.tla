------------------------- MODULE HierarchyFrontEnd -------------------------
(***************************************************************************)
(* One memory channel between the driver and the rank, in the mode the     *)
(* hierarchy experiments use (HIERARCHY_SOURCE_QUEUES and                  *)
(* HIERARCHY_READY_BYPASS): MemorySystem, MemoryController and the         *)
(* ordering rules of its two CommandQueues.                                *)
(*                                                                         *)
(* MemorySystem::update() is one call; "phase" is its program counter, so  *)
(* that every block of the code is an action of its own and the blocks run *)
(* in the order of the code:                                               *)
(*                                                                         *)
(*   idle -> rank -> pull -> command -> data -> burst -> pop -> enqueue    *)
(*        -> return -> idle                                                *)
(*                                                                         *)
(* What the bank timing and the rank decide (which command is issuable     *)
(* this cycle, when read data comes back) is a nondeterministic choice.    *)
(***************************************************************************)
EXTENDS Integers, Sequences, FiniteSets, BagsExt, SequencesExt

CONSTANTS
    MaxTxn,             \* transactions the driver submits (bound of the model)
    MaxBarriers,        \* addBarrier calls that reach a transaction (bound)
    TransDepth,         \* TRANS_QUEUE_DEPTH
    CmdDepth,           \* CMD_QUEUE_DEPTH
    WL,                 \* write latency in cycles
    BurstCycles,        \* BL / 2: cycles of data on the bus
    Addresses,          \* bank/row/column locations
    ControlAddresses,   \* those whose row has bit 13 set (PIM registers)
    Workloads,          \* the sequences of transactions the driver may submit
    BatchDriver,        \* TRUE: the driver submits a batch, then runs runPIM()
    RepeatBarriers      \* TRUE: addBarrier may follow addBarrier directly

Domain == {"LOGIC", "BANK"}
Route == {"CONTROL", "DATA"}

(* op: "DIRECT" is a write with logicAccumulatorDirect set (no data phase);  *)
(* bulk: the write completion class BULK_DATA.                               *)
Request == [dom : Domain, op : {"READ", "WRITE", "DIRECT"},
            bulk : BOOLEAN, addr : Addresses]

ASSUME ConstantsAssumption ==
    /\ MaxTxn \in Nat /\ MaxBarriers \in Nat
    /\ TransDepth \in Nat \ {0} /\ CmdDepth \in Nat \ {0}
    /\ WL \in Nat \ {0} /\ BurstCycles \in Nat \ {0}
    /\ ControlAddresses \subseteq Addresses
    /\ Workloads \subseteq [1 .. MaxTxn -> Request]
    /\ BatchDriver \in BOOLEAN /\ RepeatBarriers \in BOOLEAN

Ids == 1 .. MaxTxn      \* transactions, numbered in the order of submission
NoPacket == 0

Phases == {"idle", "rank", "pull", "command", "data", "burst", "pop",
           "enqueue", "return"}
Stages == {"none", "pending", "queued", "command", "issued"}

VARIABLES
    phase,          \* the block of update() that runs next
    draining,       \* the driver is inside runPIM()
    submitted,      \* number of transactions submitted so far
    fresh,          \* a transaction was submitted since the last addBarrier
    request,        \* what each transaction asks for
    bar,            \* its tag holds "BAR"
    epoch,          \* the epoch number its tag holds, once accepted
    stage,          \* where it is: which queue holds it, or issued
    finished,       \* transactions whose callback has been called
    pendingTransactions, transactionQueue, commandQueue,
    outgoingCmdPacket,
    writeDataToSend, writeDataCountdown, outgoingDataPacket, dataCyclesLeft,
    rankReads,      \* Rank::readReturnPacket and the packet on its data bus
    returnTransaction, pendingReadTransactions,
    epochToAssign, epochToIssue, epochOutstanding,
    nextLogicTransaction, numOnTheFly,
    barriers,       \* history: addBarrier calls per domain of the marked one
    fence           \* history: barriers[dom] when a transaction was submitted

driverVars == <<draining, submitted, fresh, request, barriers, fence>>
epochVars == <<epoch, epochToAssign, epochToIssue, epochOutstanding>>
queueVars == <<pendingTransactions, transactionQueue, commandQueue,
               nextLogicTransaction>>
writeVars == <<writeDataToSend, writeDataCountdown, outgoingDataPacket,
               dataCyclesLeft>>
readVars == <<rankReads, returnTransaction, pendingReadTransactions>>
doneVars == <<finished, numOnTheFly>>

vars == <<phase, driverVars, bar, epochVars, stage, queueVars,
          outgoingCmdPacket, writeVars, readVars, doneVars>>

Dom(t) == request[t].dom
Op(t) == request[t].op
Addr(t) == request[t].addr

(* MemoryController::isLogicControlTransaction / isLogicControlPacket       *)
RouteOf(t) ==
    IF Op(t) = "DIRECT" \/ Addr(t) \in ControlAddresses THEN "CONTROL" ELSE "DATA"

Submitted == 1 .. submitted

(* A transaction stops holding its epoch open: a READ when its command is   *)
(* issued, every other one when its callback is called.                     *)
EpochDone(t) == IF Op(t) = "READ" THEN stage[t] = "issued" ELSE t \in finished

(* A look-up in logicEpochOutstanding_ or bankEpochOutstanding_.            *)
Outstanding(d, e) ==
    IF e \in DOMAIN epochOutstanding[d] THEN epochOutstanding[d][e] ELSE 0

Accepted(t) == stage[t] \notin {"none", "pending"}

Init ==
    /\ phase = "idle"
    /\ draining = FALSE
    /\ submitted = 0
    /\ fresh = FALSE
    /\ request \in Workloads
    /\ bar = [t \in Ids |-> FALSE]
    /\ epoch = [t \in Ids |-> 0]
    /\ stage = [t \in Ids |-> "none"]
    /\ finished = {}
    /\ pendingTransactions = <<>>
    /\ transactionQueue = <<>>
    /\ commandQueue = [r \in Route |-> <<>>]
    /\ outgoingCmdPacket = NoPacket
    /\ writeDataToSend = <<>>
    /\ writeDataCountdown = <<>>
    /\ outgoingDataPacket = NoPacket
    /\ dataCyclesLeft = 0
    /\ rankReads = <<>>
    /\ returnTransaction = <<>>
    /\ pendingReadTransactions = <<>>
    /\ epochToAssign = [d \in Domain |-> 0]
    /\ epochToIssue = [d \in Domain |-> 0]
    /\ epochOutstanding = [d \in Domain |-> EmptyBag]
    /\ nextLogicTransaction = TRUE
    /\ numOnTheFly = 0
    /\ barriers = [d \in Domain |-> 0]
    /\ fence = [t \in Ids |-> 0]
-----------------------------------------------------------------------------
(* The driver.  It calls the channel only between two updates.              *)

(* Mistake: one slot of the queue is kept free.                             *)
WillAcceptOneLess == Len(transactionQueue) < TransDepth - 1

WillAcceptTransaction == Len(transactionQueue) < TransDepth

(* MemoryController::addTransaction after WillAcceptTransaction            *)
AddTransaction(t) ==
    LET d == Dom(t) IN
    /\ transactionQueue' = Append(transactionQueue, t)
    /\ stage' = [stage EXCEPT ![t] = "queued"]
    /\ epoch' = [epoch EXCEPT ![t] = epochToAssign[d]]
    /\ epochOutstanding' = [epochOutstanding EXCEPT ![d] = BagAdd(@, epochToAssign[d])]
    /\ epochToAssign' = [epochToAssign EXCEPT ![d] = IF bar[t] THEN @ + 1 ELSE @]
    /\ numOnTheFly' = numOnTheFly + 1

Submit(t) ==
    /\ phase = "idle" /\ ~draining
    /\ t = submitted + 1
    /\ submitted' = t
    /\ fresh' = TRUE
    /\ fence' = [fence EXCEPT ![t] = barriers[Dom(t)]]
    /\ UNCHANGED <<phase, draining, request, bar, epochToIssue, finished,
                   commandQueue, nextLogicTransaction, outgoingCmdPacket,
                   writeVars, readVars, barriers>>

(* MemorySystem::addTransaction, the controller takes it ...                *)
SubmitAccepted(t) ==
    /\ Submit(t)
    /\ WillAcceptTransaction
    /\ AddTransaction(t)
    /\ UNCHANGED pendingTransactions

(* ... or it waits in front of the controller.                              *)
SubmitPending(t) ==
    /\ Submit(t)
    /\ ~WillAcceptTransaction
    /\ pendingTransactions' = Append(pendingTransactions, t)
    /\ stage' = [stage EXCEPT ![t] = "pending"]
    /\ UNCHANGED <<transactionQueue, epoch, epochOutstanding, epochToAssign,
                   numOnTheFly>>

Barrier(t) ==
    /\ phase = "idle" /\ ~draining
    /\ fresh \/ RepeatBarriers
    /\ barriers["LOGIC"] + barriers["BANK"] < MaxBarriers
    /\ bar' = [bar EXCEPT ![t] = TRUE]
    /\ barriers' = [barriers EXCEPT ![Dom(t)] = @ + 1]
    /\ fresh' = FALSE
    /\ UNCHANGED <<phase, draining, submitted, request, fence, epoch,
                   epochToIssue, epochOutstanding, stage, queueVars,
                   outgoingCmdPacket, writeVars, readVars, doneVars>>

(* MemorySystem::addBarrier tags the newest pending transaction ...         *)
BarrierPending ==
    /\ pendingTransactions # <<>>
    /\ Barrier(Last(pendingTransactions))
    /\ UNCHANGED epochToAssign

(* Mistake: the controller closes the epoch of the LOGIC source only.       *)
BarrierQueuedLogicOnly ==
    /\ pendingTransactions = <<>> /\ transactionQueue # <<>>
    /\ Barrier(Last(transactionQueue))
    /\ epochToAssign' = [epochToAssign EXCEPT !["LOGIC"] = @ + 1]

(* ... and MemoryController::addBarrier the last of its queue.  With both   *)
(* queues empty the call does nothing.                                      *)
BarrierQueued ==
    /\ pendingTransactions = <<>> /\ transactionQueue # <<>>
    /\ LET t == Last(transactionQueue) IN
        /\ Barrier(t)
        /\ epochToAssign' = [epochToAssign EXCEPT ![Dom(t)] = @ + 1]

EnterRunPIM ==
    /\ BatchDriver /\ phase = "idle" /\ ~draining
    /\ draining' = TRUE
    /\ UNCHANGED <<phase, submitted, fresh, request, barriers, fence, bar, epochVars,
                   stage, queueVars, outgoingCmdPacket, writeVars, readVars,
                   doneVars>>

(* PIMKernel::runPIM: while (hasPendingTransactions()) update();            *)
LeaveRunPIM ==
    /\ phase = "idle" /\ draining /\ numOnTheFly = 0
    /\ draining' = FALSE
    /\ UNCHANGED <<phase, submitted, fresh, request, barriers, fence, bar, epochVars,
                   stage, queueVars, outgoingCmdPacket, writeVars, readVars,
                   doneVars>>

BeginUpdate ==
    /\ phase = "idle"
    /\ ~BatchDriver \/ (draining /\ numOnTheFly > 0)
    /\ phase' = "rank"
    /\ UNCHANGED <<driverVars, bar, epochVars, stage, queueVars,
                   outgoingCmdPacket, writeVars, readVars, doneVars>>
-----------------------------------------------------------------------------
(* Rank::update: the oldest read may have its data ready.                   *)

RankReturns ==
    /\ phase = "rank" /\ phase' = "pull"
    /\ rankReads # <<>>
    /\ returnTransaction' = Append(returnTransaction, Head(rankReads))
    /\ rankReads' = Tail(rankReads)
    /\ UNCHANGED <<driverVars, bar, epochVars, stage, queueVars,
                   outgoingCmdPacket, writeVars, pendingReadTransactions, doneVars>>

RankWaits ==
    /\ phase = "rank" /\ phase' = "pull"
    /\ UNCHANGED <<driverVars, bar, epochVars, stage, queueVars,
                   outgoingCmdPacket, writeVars, readVars, doneVars>>

(* Mistake: the newest waiting transaction moves in first.                  *)
PullNewestPending ==
    /\ phase = "pull" /\ phase' = "command"
    /\ pendingTransactions # <<>> /\ WillAcceptTransaction
    /\ AddTransaction(Last(pendingTransactions))
    /\ pendingTransactions' = Front(pendingTransactions)
    /\ UNCHANGED <<driverVars, bar, epochToIssue, commandQueue,
                   nextLogicTransaction, outgoingCmdPacket, writeVars, readVars,
                   finished>>

(* MemorySystem::update: one waiting transaction per cycle moves in.        *)
PullPending ==
    /\ phase = "pull" /\ phase' = "command"
    /\ pendingTransactions # <<>> /\ WillAcceptTransaction
    /\ AddTransaction(Head(pendingTransactions))
    /\ pendingTransactions' = Tail(pendingTransactions)
    /\ UNCHANGED <<driverVars, bar, epochToIssue, commandQueue,
                   nextLogicTransaction, outgoingCmdPacket, writeVars, readVars,
                   finished>>

PullNothing ==
    /\ phase = "pull" /\ phase' = "command"
    /\ pendingTransactions = <<>> \/ ~WillAcceptTransaction
    /\ UNCHANGED <<driverVars, bar, epochVars, stage, queueVars,
                   outgoingCmdPacket, writeVars, readVars, doneVars>>
-----------------------------------------------------------------------------
(* MemoryController::update, block by block.                                *)

(* Mistake: the map entry stays behind when its count reaches zero.         *)
CompleteEpochKeepsEntry(t) ==
    LET d == Dom(t) IN
    /\ epochOutstanding' = [epochOutstanding EXCEPT ![d][epoch[t]] = @ - 1]
    /\ epochToIssue' = [epochToIssue EXCEPT ![d] = IF bar[t] THEN @ + 1 ELSE @]
    /\ UNCHANGED <<epoch, epochToAssign>>

(* Mistake: a barrier only advances the epoch and is not counted off.       *)
CompleteEpochSkipsBarrier(t) ==
    LET d == Dom(t) IN
    /\ epochOutstanding' =
        IF bar[t] THEN epochOutstanding
        ELSE [epochOutstanding EXCEPT ![d] = BagRemove(@, epoch[t])]
    /\ epochToIssue' = [epochToIssue EXCEPT ![d] = IF bar[t] THEN @ + 1 ELSE @]
    /\ UNCHANGED <<epoch, epochToAssign>>

(* completeEpochAndAdvance                                                  *)
CompleteEpochAndAdvance(t) ==
    LET d == Dom(t) IN
    /\ epochOutstanding' = [epochOutstanding EXCEPT ![d] = BagRemove(@, epoch[t])]
    /\ epochToIssue' = [epochToIssue EXCEPT ![d] = IF bar[t] THEN @ + 1 ELSE @]
    /\ UNCHANGED <<epoch, epochToAssign>>

(* The callback of the upper level.                                         *)
CallBack(t) ==
    /\ finished' = finished \cup {t}
    /\ numOnTheFly' = numOnTheFly - 1

(* The command popped in the previous cycle reaches the rank (tCMD = 1).     *)
CommandBus ==
    /\ phase = "command" /\ phase' = "data"
    /\ outgoingCmdPacket' = NoPacket
    /\ UNCHANGED <<driverVars, bar, stage, queueVars, writeVars,
                   returnTransaction, pendingReadTransactions>>

CommandBusRead ==
    /\ outgoingCmdPacket # NoPacket /\ Op(outgoingCmdPacket) = "READ"
    /\ CommandBus
    /\ rankReads' = Append(rankReads, outgoingCmdPacket)
    /\ UNCHANGED <<epochVars, doneVars>>

CommandBusDirect ==
    /\ outgoingCmdPacket # NoPacket /\ Op(outgoingCmdPacket) = "DIRECT"
    /\ CommandBus
    /\ CompleteEpochAndAdvance(outgoingCmdPacket)
    /\ CallBack(outgoingCmdPacket)
    /\ UNCHANGED rankReads

CommandBusOther ==
    /\ outgoingCmdPacket # NoPacket => Op(outgoingCmdPacket) = "WRITE"
    /\ CommandBus
    /\ UNCHANGED <<rankReads, epochVars, doneVars>>

(* The write data on the bus: one cycle less, and at zero the write is done. *)
DataBusDone ==
    /\ phase = "data" /\ phase' = "burst"
    /\ outgoingDataPacket # NoPacket /\ dataCyclesLeft = 1
    /\ dataCyclesLeft' = 0
    /\ outgoingDataPacket' = NoPacket
    /\ CallBack(outgoingDataPacket)
    /\ CompleteEpochAndAdvance(outgoingDataPacket)
    /\ UNCHANGED <<driverVars, bar, stage, queueVars, outgoingCmdPacket,
                   writeDataToSend, writeDataCountdown, readVars>>

DataBusBusy ==
    /\ phase = "data" /\ phase' = "burst"
    /\ outgoingDataPacket # NoPacket => dataCyclesLeft > 1
    /\ dataCyclesLeft' =
        IF outgoingDataPacket # NoPacket THEN dataCyclesLeft - 1 ELSE dataCyclesLeft
    /\ UNCHANGED <<driverVars, bar, epochVars, stage, queueVars, outgoingCmdPacket,
                   writeDataToSend, writeDataCountdown, outgoingDataPacket,
                   readVars, doneVars>>

Decremented(countdown) == [i \in DOMAIN countdown |-> countdown[i] - 1]

(* The oldest issued write has waited WL cycles.  A bus that is still busy  *)
(* ends the program ("Data Bus Collision"): the step is not enabled then.   *)
WriteDataStarts ==
    /\ phase = "burst" /\ phase' = "pop"
    /\ writeDataToSend # <<>> /\ Head(writeDataCountdown) = 1
    /\ outgoingDataPacket = NoPacket
    /\ outgoingDataPacket' = Head(writeDataToSend)
    /\ dataCyclesLeft' = BurstCycles
    /\ writeDataToSend' = Tail(writeDataToSend)
    /\ writeDataCountdown' = Tail(Decremented(writeDataCountdown))
    /\ UNCHANGED <<driverVars, bar, epochVars, stage, queueVars, outgoingCmdPacket,
                   readVars, doneVars>>

WriteDataWaits ==
    /\ phase = "burst" /\ phase' = "pop"
    /\ writeDataToSend # <<>> => Head(writeDataCountdown) > 1
    /\ writeDataCountdown' = Decremented(writeDataCountdown)
    /\ UNCHANGED <<driverVars, bar, epochVars, stage, queueVars, outgoingCmdPacket,
                   writeDataToSend, outgoingDataPacket, dataCyclesLeft,
                   readVars, doneVars>>
-----------------------------------------------------------------------------
(* Mistake: only an earlier barrier holds a packet back.                    *)
HasPriorBarrier(queue, i) ==
    \E p \in 1 .. i - 1 :
        Dom(queue[p]) = Dom(queue[i]) /\ bar[queue[p]]

(* CommandQueue::hasPriorDependency, for the packet at position i            *)
HasPriorDependency(queue, i) ==
    \E p \in 1 .. i - 1 :
        /\ Dom(queue[p]) = Dom(queue[i])
        /\ Addr(queue[p]) = Addr(queue[i]) \/ bar[queue[p]]

(* Mistake: the burst of an earlier write is taken one cycle too short.     *)
HasWriteDataSlotShort ==
    /\ outgoingDataPacket # NoPacket => WL >= dataCyclesLeft
    /\ \A i \in DOMAIN writeDataCountdown :
        \/ writeDataCountdown[i] >= WL + BurstCycles
        \/ writeDataCountdown[i] + BurstCycles - 1 <= WL

(* MemoryController::hasWriteDataSlot                                       *)
HasWriteDataSlot ==
    /\ outgoingDataPacket # NoPacket => WL >= dataCyclesLeft
    /\ \A i \in DOMAIN writeDataCountdown :
        \/ writeDataCountdown[i] >= WL + BurstCycles
        \/ writeDataCountdown[i] + BurstCycles <= WL

(* Mistake: the barrier asks only whether its epoch is outstanding at all.  *)
CanIssueEpochBarrierEarly(t) ==
    bar[t] => Outstanding(Dom(t), epoch[t]) >= 1

(* Mistake: the barrier waits for its own completion too.                   *)
CanIssueEpochBarrierLate(t) ==
    bar[t] => Outstanding(Dom(t), epoch[t]) = 0

CanIssueEpochBarrier(t) ==
    bar[t] => Outstanding(Dom(t), epoch[t]) = 1

WriteBlocked(t) ==
    /\ Op(t) = "WRITE"
    /\ IF request[t].bulk
       THEN ~HasWriteDataSlot
       ELSE writeDataCountdown # <<>> \/ outgoingDataPacket # NoPacket

(* Mistake: a newer epoch than the open one passes too.                     *)
CanIssueNewerEpoch(t) ==
    /\ epoch[t] >= epochToIssue[Dom(t)]
    /\ CanIssueEpochBarrier(t)
    /\ ~WriteBlocked(t)

(* canIssueHierarchyCommand; what the rank answers is left open             *)
CanIssueHierarchyCommand(t) ==
    /\ epoch[t] = epochToIssue[Dom(t)]
    /\ CanIssueEpochBarrier(t)
    /\ ~WriteBlocked(t)

(* process_command and popDirect: a queue is scanned past what has to wait. *)
TakeCommand(t) ==
    /\ \E r \in Route : \E i \in DOMAIN commandQueue[r] :
        /\ commandQueue[r][i] = t
        /\ ~HasPriorDependency(commandQueue[r], i)
        /\ commandQueue' = [commandQueue EXCEPT ![r] = RemoveAt(@, i)]
    /\ CanIssueHierarchyCommand(t)

(* updateCommandQueue: a write's data follows WL cycles later.  A bus that   *)
(* is still busy ends the program ("Command Bus Collision").                *)
IssueCommand(t) ==
    /\ outgoingCmdPacket = NoPacket
    /\ outgoingCmdPacket' = t
    /\ writeDataToSend' =
        IF Op(t) = "WRITE" THEN Append(writeDataToSend, t) ELSE writeDataToSend
    /\ writeDataCountdown' =
        IF Op(t) = "WRITE" THEN Append(writeDataCountdown, WL) ELSE writeDataCountdown
    /\ UNCHANGED <<outgoingDataPacket, dataCyclesLeft>>

(* One of the two queues gives up the data command of transaction t.        *)
PopCommand(t) ==
    /\ phase = "pop" /\ phase' = "enqueue"
    /\ TakeCommand(t)
    /\ IssueCommand(t)
    /\ stage' = [stage EXCEPT ![t] = "issued"]
    /\ IF Op(t) = "READ"
       THEN CompleteEpochAndAdvance(t)
       ELSE UNCHANGED epochVars
    /\ UNCHANGED <<driverVars, bar, pendingTransactions, transactionQueue,
                   nextLogicTransaction, readVars, doneVars>>

(* Nothing is issuable, or the cycle goes to a row command or a refresh.    *)
PopNothing ==
    /\ phase = "pop" /\ phase' = "enqueue"
    /\ UNCHANGED <<driverVars, bar, epochVars, stage, queueVars,
                   outgoingCmdPacket, writeVars, readVars, doneVars>>
-----------------------------------------------------------------------------
(* updateTransactionQueue: first the domain whose turn it is, in each       *)
(* domain the oldest transaction whose command queue has room.              *)
HasRoomFor(t) == Len(commandQueue[RouteOf(t)]) < CmdDepth

Preferred(t) == (Dom(t) = "LOGIC") = nextLogicTransaction

Schedulable(i) ==
    /\ HasRoomFor(transactionQueue[i])
    /\ \A j \in DOMAIN transactionQueue \ {i} :
        HasRoomFor(transactionQueue[j]) =>
            IF Preferred(transactionQueue[i]) = Preferred(transactionQueue[j])
            THEN i < j
            ELSE Preferred(transactionQueue[i])

EnqueueCommand ==
    /\ phase = "enqueue" /\ phase' = "return"
    /\ \E i \in DOMAIN transactionQueue :
        LET t == transactionQueue[i] IN
        /\ Schedulable(i)
        /\ transactionQueue' = RemoveAt(transactionQueue, i)
        /\ commandQueue' = [commandQueue EXCEPT ![RouteOf(t)] = Append(@, t)]
        /\ stage' = [stage EXCEPT ![t] = "command"]
        /\ nextLogicTransaction' = (Dom(t) # "LOGIC")
        /\ pendingReadTransactions' =
            IF Op(t) = "READ" THEN Append(pendingReadTransactions, t)
            ELSE pendingReadTransactions
    /\ UNCHANGED <<driverVars, bar, epochVars, pendingTransactions,
                   outgoingCmdPacket, writeVars, rankReads, returnTransaction,
                   doneVars>>

EnqueueNothing ==
    /\ phase = "enqueue" /\ phase' = "return"
    /\ \A i \in DOMAIN transactionQueue : ~HasRoomFor(transactionQueue[i])
    /\ UNCHANGED <<driverVars, bar, epochVars, stage, queueVars,
                   outgoingCmdPacket, writeVars, readVars, doneVars>>
-----------------------------------------------------------------------------
(* Mistake: a returned packet is stapled to the oldest pending read.        *)
MatchesOldest(i) == i = 1

(* Mistake: the oldest pending read is erased instead of the matching one.  *)
ReturnErasesOldest ==
    /\ phase = "return" /\ phase' = "idle"
    /\ returnTransaction # <<>>
    /\ \E i \in DOMAIN pendingReadTransactions :
        /\ Addr(pendingReadTransactions[i]) = Addr(Head(returnTransaction))
        /\ CallBack(pendingReadTransactions[i])
        /\ pendingReadTransactions' = Tail(pendingReadTransactions)
    /\ returnTransaction' = Tail(returnTransaction)
    /\ UNCHANGED <<driverVars, bar, epochVars, stage, queueVars,
                   outgoingCmdPacket, writeVars, rankReads>>

(* A returned packet is stapled to the first pending read of its address.   *)
MatchesReturn(i) ==
    Addr(pendingReadTransactions[i]) = Addr(Head(returnTransaction))

ReturnReadData ==
    /\ phase = "return" /\ phase' = "idle"
    /\ returnTransaction # <<>>
    /\ \E i \in DOMAIN pendingReadTransactions :
        /\ MatchesReturn(i)
        /\ \A j \in 1 .. i - 1 : ~MatchesReturn(j)
        /\ CallBack(pendingReadTransactions[i])
        /\ pendingReadTransactions' = RemoveAt(pendingReadTransactions, i)
    /\ returnTransaction' = Tail(returnTransaction)
    /\ UNCHANGED <<driverVars, bar, epochVars, stage, queueVars,
                   outgoingCmdPacket, writeVars, rankReads>>

ReturnNothing ==
    /\ phase = "return" /\ phase' = "idle"
    /\ returnTransaction = <<>>
    /\ UNCHANGED <<driverVars, bar, epochVars, stage, queueVars,
                   outgoingCmdPacket, writeVars, readVars, doneVars>>
-----------------------------------------------------------------------------
Driver ==
    \/ \E t \in Ids : SubmitAccepted(t) \/ SubmitPending(t)
    \/ BarrierPending \/ BarrierQueued
    \/ EnterRunPIM \/ LeaveRunPIM

Update ==
    \/ BeginUpdate
    \/ RankReturns \/ RankWaits
    \/ PullPending \/ PullNothing
    \/ CommandBusRead \/ CommandBusDirect \/ CommandBusOther
    \/ DataBusDone \/ DataBusBusy
    \/ WriteDataStarts \/ WriteDataWaits
    \/ (\E t \in Ids : PopCommand(t)) \/ PopNothing
    \/ EnqueueCommand \/ EnqueueNothing
    \/ ReturnReadData \/ ReturnNothing

Next == Driver \/ Update

Spec == Init /\ [][Next]_vars

(* The clock keeps running; when the rules let a command pass over and      *)
(* over, the bank and the rank accept one some day; a read returns one day. *)
Fairness ==
    /\ WF_vars(Update) /\ WF_vars(LeaveRunPIM)
    /\ SF_vars(\E t \in Ids : PopCommand(t))
    /\ SF_vars(RankReturns)

LiveSpec == Spec /\ Fairness
-----------------------------------------------------------------------------
(* Types.                                                                   *)
DistinctIds(s) == \A i, j \in DOMAIN s : s[i] = s[j] => i = j

DriverType ==
    /\ draining \in BOOLEAN /\ fresh \in BOOLEAN
    /\ submitted \in 0 .. MaxTxn
    /\ request \in Workloads
    /\ barriers \in [Domain -> Nat]
    /\ fence \in [Ids -> Nat]

TransactionType ==
    /\ bar \in [Ids -> BOOLEAN]
    /\ stage \in [Ids -> Stages]
    /\ finished \subseteq Ids
    /\ numOnTheFly \in Int
    /\ outgoingCmdPacket \in Ids \cup {NoPacket}

EpochType ==
    /\ epoch \in [Ids -> Nat]
    /\ epochToAssign \in [Domain -> Nat]
    /\ epochToIssue \in [Domain -> Nat]
    /\ DOMAIN epochOutstanding = Domain
    /\ \A d \in Domain : IsABag(epochOutstanding[d])

QueueType ==
    /\ pendingTransactions \in Seq(Ids)
    /\ transactionQueue \in Seq(Ids)
    /\ commandQueue \in [Route -> Seq(Ids)]
    /\ nextLogicTransaction \in BOOLEAN

WriteType ==
    /\ writeDataToSend \in Seq(Ids)
    /\ writeDataCountdown \in Seq(1 .. WL)
    /\ Len(writeDataCountdown) = Len(writeDataToSend)
    /\ outgoingDataPacket \in Ids \cup {NoPacket}
    /\ dataCyclesLeft \in 0 .. BurstCycles

ReadType ==
    /\ rankReads \in Seq(Ids)
    /\ returnTransaction \in Seq(Ids)
    /\ pendingReadTransactions \in Seq(Ids)

TypeOK ==
    /\ phase \in Phases
    /\ DriverType /\ TransactionType /\ EpochType
    /\ QueueType /\ WriteType /\ ReadType
-----------------------------------------------------------------------------
(* The transactions of domain d that still hold epoch e open.               *)
Holding(d, e) ==
    {t \in Ids : Accepted(t) /\ Dom(t) = d /\ epoch[t] = e /\ ~EpochDone(t)}

(* The outstanding maps, kept up by three different blocks of update(), say  *)
(* how many transactions hold an epoch open: the count a barrier waits for   *)
(* in canIssueEpochBarrier is the real one.                                 *)
OutstandingExact ==
    \A d \in Domain :
        \A e \in 0 .. epochToAssign[d] :
            Outstanding(d, e) = Cardinality(Holding(d, e))

(* For any driver: once a transaction is issued, everything of an older     *)
(* epoch of its source is done, also what was accepted since, and beside a  *)
(* barrier in flight nothing of its epoch is open.  One counter per source, *)
(* moved on by whichever barrier completes, has to ensure it.               *)
EpochsInOrder ==
    \A t, u \in Ids :
        Accepted(t) /\ ~EpochDone(t) /\ stage[u] = "issued" /\ Dom(t) = Dom(u) =>
            /\ epoch[u] <= epoch[t]
            /\ bar[u] /\ ~EpochDone(u) /\ epoch[t] = epoch[u] => t = u

(* The controller implements the contract of the epochs: no command of a    *)
(* newer epoch, and no barrier that is not the last of its epoch, is issued *)
(* by comparing two counters and looking up one map entry.                  *)
Contract == INSTANCE EpochContract WITH
    Txn <- Ids,
    domain <- [t \in Ids |-> Dom(t)],
    open <- epochToAssign,
    marked <- {t \in Ids : bar[t]},
    age <- epoch,
    accepted <- {t \in Ids : Accepted(t)},
    started <- {t \in Ids : stage[t] = "issued"},
    done <- {t \in Ids : EpochDone(t)}

ImplementsContract == Contract!Spec

(* hasPendingTransactions counts only what the controller has accepted, and *)
(* still runPIM cannot leave its loop while anything is unfinished: neither *)
(* a transaction waiting in front of the controller nor one inside it.      *)
DrainedMeansFinished ==
    phase = "idle" /\ numOnTheFly = 0 => finished = Submitted

(* Two writes never meet on the data bus, whatever mix of ordered and bulk  *)
(* writes was let through by two different rules ("Data Bus Collision").    *)
NoDataBusCollision ==
    phase = "burst" /\ writeDataToSend # <<>> /\ Head(writeDataCountdown) = 1
        => outgoingDataPacket = NoPacket

(* Why that holds: the bursts on the bus and still to come are disjoint      *)
(* intervals, in the order of the queue.                                    *)
BurstsDisjoint ==
    /\ \A i, j \in DOMAIN writeDataCountdown :
        i < j => writeDataCountdown[i] + BurstCycles <= writeDataCountdown[j]
    /\ phase = "pop" =>
        \A i \in DOMAIN writeDataCountdown : writeDataCountdown[i] < WL
    /\ outgoingDataPacket # NoPacket =>
        /\ dataCyclesLeft > 0
        /\ \A i \in DOMAIN writeDataCountdown :
            /\ dataCyclesLeft <= writeDataCountdown[i]
            /\ phase = "burst" => dataCyclesLeft < writeDataCountdown[i]

(* A packet that comes back always finds a pending read of its address,     *)
(* although reads are matched by address and not by identity (abort()).     *)
ReturnHasMatch ==
    returnTransaction # <<>> =>
        \E i \in DOMAIN pendingReadTransactions : MatchesReturn(i)

(* While the driver keeps its discipline, each closed epoch that has not    *)
(* been left is closed by exactly one unfinished barrier: the counter       *)
(* epochToIssue can always move on, and moves on only once.                 *)
ClosedEpochHasBarrier ==
    \A d \in Domain :
        \A e \in epochToIssue[d] .. epochToAssign[d] - 1 :
            Cardinality({t \in Holding(d, e) : bar[t]}) = 1

(* What the driver means by a barrier: of one domain, nothing submitted     *)
(* after an addBarrier call is issued before everything submitted before    *)
(* the call is done, wherever the tag ended up.                             *)
BarrierRespected ==
    \A t, u \in Submitted :
        Dom(t) = Dom(u) /\ fence[t] < fence[u] /\ stage[u] = "issued"
            => EpochDone(t)

(* The queues let commands pass each other, but not those of one domain to  *)
(* one location in one command queue.                                       *)
SameAddressOrder ==
    \A t, u \in Submitted :
        /\ t < u /\ stage[u] = "issued"
        /\ Dom(t) = Dom(u) /\ Addr(t) = Addr(u) /\ RouteOf(t) = RouteOf(u)
        => stage[t] = "issued"

(* A read is reported complete only after its own command was issued.       *)
ReadCompletesAfterIssue ==
    \A t \in finished : Op(t) = "READ" => stage[t] = "issued"

(* "pendingTransactions is logically newer than every transaction already   *)
(* in the controller" (MemorySystem.cpp).                                   *)
PendingNewerThanController ==
    \A i \in DOMAIN pendingTransactions :
        \A t \in Ids : Accepted(t) => t < pendingTransactions[i]

(* runPIM returns: every barrier is passed and every transaction finishes.  *)
RunPIMReturns == draining ~> ~draining
=============================================================================
