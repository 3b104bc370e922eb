---------------------- MODULE HierarchyFrontEnd_proofs ----------------------
(***************************************************************************)
(* Theorems about HierarchyFrontEnd for every value of its constants.       *)
(***************************************************************************)
EXTENDS HierarchyFrontEnd, FiniteSetTheorems, SequenceTheorems, TLAPS

(* Erasing one position of a vector shifts the later ones down by one.      *)
LEMMA RemoveAtProperties ==
    ASSUME NEW S, NEW s \in Seq(S), NEW i \in 1 .. Len(s)
    PROVE  /\ RemoveAt(s, i) \in Seq(S)
           /\ Len(RemoveAt(s, i)) = Len(s) - 1
           /\ \A j \in 1 .. Len(s) - 1 :
                RemoveAt(s, i)[j] = s[IF j < i THEN j ELSE j + 1]
<1> DEFINE a == SubSeq(s, 1, i - 1)
           b == SubSeq(s, i + 1, Len(s))
<1>1. /\ a \in Seq(S) /\ Len(a) = i - 1
      /\ \A j \in 1 .. i - 1 : a[j] = s[j]
  BY SubSeqProperties
<1>2. /\ b \in Seq(S) /\ Len(b) = Len(s) - i
      /\ \A j \in 1 .. Len(s) - i : b[j] = s[j + i]
  BY SubSeqProperties
<1>3. RemoveAt(s, i) = a \o b
  BY DEF RemoveAt
<1> HIDE DEF a, b
<1>4. /\ a \o b \in Seq(S) /\ Len(a \o b) = Len(a) + Len(b)
      /\ \A j \in 1 .. Len(a) + Len(b) :
            (a \o b)[j] = IF j <= Len(a) THEN a[j] ELSE b[j - Len(a)]
  BY <1>1, <1>2, ConcatProperties
<1>5. Len(a) + Len(b) = Len(s) - 1
  BY <1>1, <1>2
<1>6. ASSUME NEW j \in 1 .. Len(s) - 1
      PROVE  (a \o b)[j] = s[IF j < i THEN j ELSE j + 1]
  <2>1. CASE j < i
    BY <2>1, <1>1, <1>4, <1>5
  <2>2. CASE ~(j < i)
    <3>1. (a \o b)[j] = b[j - (i - 1)]
      BY <2>2, <1>1, <1>4, <1>5
    <3>2. j - (i - 1) \in 1 .. Len(s) - i
      BY <2>2
    <3> QED
      BY <2>2, <3>1, <3>2, <1>2
  <2> QED
    BY <2>1, <2>2
<1> QED
  BY <1>3, <1>4, <1>5, <1>6

(* Adding to and removing from the map of outstanding counts.               *)
Count(B, e) == IF e \in DOMAIN B THEN B[e] ELSE 0

LEMMA BagAddCount ==
    ASSUME NEW B, IsABag(B), NEW e
    PROVE  /\ IsABag(BagAdd(B, e))
           /\ Count(BagAdd(B, e), e) = Count(B, e) + 1
           /\ \A x : x # e => Count(BagAdd(B, e), x) = Count(B, x)
BY DEF IsABag, BagAdd, Count

LEMMA BagRemoveCount ==
    ASSUME NEW B, IsABag(B), NEW e
    PROVE  /\ IsABag(BagRemove(B, e))
           /\ Count(B, e) > 0 => Count(BagRemove(B, e), e) = Count(B, e) - 1
           /\ \A x : x # e => Count(BagRemove(B, e), x) = Count(B, x)
BY DEF IsABag, BagRemove, Count
-----------------------------------------------------------------------------
LEMMA FunctionIsSeq ==
    ASSUME NEW n \in Nat, NEW S, NEW f \in [1 .. n -> S]
    PROVE  f \in Seq(S)
  OBVIOUS

(* The countdowns one cycle later.                                          *)
LEMMA DecrementedProperties ==
    ASSUME NEW s \in Seq(1 .. WL)
    PROVE  /\ Decremented(s) \in Seq(0 .. WL - 1)
           /\ Len(Decremented(s)) = Len(s)
           /\ \A i \in 1 .. Len(s) : Decremented(s)[i] = s[i] - 1
<1>1. Len(s) \in Nat /\ DOMAIN s = 1 .. Len(s) /\ \A i \in 1 .. Len(s) : s[i] \in 1 .. WL
  BY LenProperties, ElementOfSeq
<1>2. Decremented(s) \in [1 .. Len(s) -> 0 .. WL - 1]
  BY <1>1, ConstantsAssumption DEF Decremented
<1>3. Decremented(s) \in Seq(0 .. WL - 1)
  BY <1>1, <1>2, FunctionIsSeq
<1> QED
  BY <1>1, <1>2, <1>3, LenProperties DEF Decremented

LEMMA SeqOfPositive ==
    ASSUME NEW s \in Seq(0 .. WL - 1), \A i \in 1 .. Len(s) : s[i] >= 1
    PROVE  s \in Seq(1 .. WL)
<1>1. Len(s) \in Nat /\ s \in [1 .. Len(s) -> 0 .. WL - 1]
  BY LenProperties
<1>2. s \in [1 .. Len(s) -> 1 .. WL]
  BY <1>1, ConstantsAssumption
<1> QED
  BY <1>1, <1>2, FunctionIsSeq
-----------------------------------------------------------------------------
LEMMA RequestFields ==
    ASSUME DriverType
    PROVE  \A t \in Ids : Dom(t) \in Domain /\ RouteOf(t) \in Route
<1>1. request \in [Ids -> Request]
  BY ConstantsAssumption DEF DriverType, Ids
<1> QED
  BY <1>1 DEF Dom, RouteOf, Request, Route

(* The types do not stand alone: a countdown stays in 1 .. WL because the    *)
(* bursts on the data bus stay disjoint.                                    *)
LEMMA TypeInit == Init => TypeOK
<1> SUFFICES ASSUME Init PROVE TypeOK
  OBVIOUS
<1>1. DriverType
  <2>1. submitted \in 0 .. MaxTxn
    BY ConstantsAssumption DEF Init
  <2> QED
    BY <2>1 DEF Init, DriverType
<1>2. TransactionType
  BY DEF Init, TransactionType, Stages, NoPacket
<1>3. EpochType
  BY DEF Init, EpochType, EmptyBag, SetToBag, IsABag
<1>4. QueueType /\ WriteType /\ ReadType
  BY ConstantsAssumption DEF Init, QueueType, WriteType, ReadType, NoPacket
<1> QED
  BY <1>1, <1>2, <1>3, <1>4 DEF Init, TypeOK, Phases

(* A group of variables that a step leaves alone keeps its types.           *)
LEMMA TypeFrames ==
    ASSUME TypeOK
    PROVE  /\ UNCHANGED driverVars => DriverType'
           /\ UNCHANGED <<bar, stage, outgoingCmdPacket, doneVars>> => TransactionType'
           /\ UNCHANGED epochVars => EpochType'
           /\ UNCHANGED queueVars => QueueType'
           /\ UNCHANGED writeVars => WriteType'
           /\ UNCHANGED readVars => ReadType'
<1>1. UNCHANGED driverVars => DriverType'
  BY DEF TypeOK, DriverType, driverVars
<1>2. UNCHANGED <<bar, stage, outgoingCmdPacket, doneVars>> => TransactionType'
  BY DEF TypeOK, TransactionType, doneVars
<1>3. UNCHANGED epochVars => EpochType'
  BY DEF TypeOK, EpochType, epochVars
<1>4. UNCHANGED queueVars => QueueType'
  BY DEF TypeOK, QueueType, queueVars
<1>5. UNCHANGED writeVars => WriteType'
  BY DEF TypeOK, WriteType, writeVars
<1>6. UNCHANGED readVars => ReadType'
  BY DEF TypeOK, ReadType, readVars
<1> QED
  BY <1>1, <1>2, <1>3, <1>4, <1>5, <1>6

LEMMA TypeAddTransaction ==
    ASSUME TypeOK, NEW t \in Ids, AddTransaction(t), UNCHANGED epochToIssue
    PROVE  EpochType'
<1>1. Dom(t) \in Domain
  BY RequestFields DEF TypeOK
<1> QED
  BY <1>1, BagAddCount DEF TypeOK, EpochType, AddTransaction

LEMMA TypeComplete ==
    ASSUME TypeOK, NEW t \in Ids, CompleteEpochAndAdvance(t)
    PROVE  EpochType'
<1>1. Dom(t) \in Domain
  BY RequestFields DEF TypeOK
<1> QED
  BY <1>1, BagRemoveCount DEF TypeOK, EpochType, CompleteEpochAndAdvance

LEMMA TypeDriver == TypeOK /\ Driver => TypeOK'
<1> SUFFICES ASSUME TypeOK, Driver PROVE TypeOK'
  OBVIOUS
<1>1. ASSUME NEW t \in Ids, Submit(t) PROVE DriverType' /\ phase' \in Phases
  <2>1. submitted' \in 0 .. MaxTxn
    BY <1>1 DEF Submit, Ids
  <2>2. fence' \in [Ids -> Nat]
    BY <1>1, RequestFields DEF Submit, TypeOK, DriverType
  <2> QED
    BY <1>1, <2>1, <2>2 DEF Submit, TypeOK, DriverType
<1>2. ASSUME NEW t \in Ids, SubmitAccepted(t) PROVE TypeOK'
  <2>1. EpochType'
    BY <1>2, TypeAddTransaction DEF SubmitAccepted, Submit
  <2>2. TransactionType' /\ QueueType'
    BY <1>2 DEF TypeOK, TransactionType, QueueType, SubmitAccepted, Submit,
                AddTransaction, Stages
  <2>3. WriteType' /\ ReadType'
    BY <1>2, TypeFrames DEF SubmitAccepted, Submit
  <2> QED
    BY <1>1, <1>2, <2>1, <2>2, <2>3 DEF TypeOK, SubmitAccepted
<1>3. ASSUME NEW t \in Ids, SubmitPending(t) PROVE TypeOK'
  <2>1. TransactionType' /\ QueueType'
    BY <1>3 DEF TypeOK, TransactionType, QueueType, SubmitPending, Submit, Stages
  <2>2. EpochType' /\ WriteType' /\ ReadType'
    BY <1>3, TypeFrames DEF SubmitPending, Submit, epochVars
  <2> QED
    BY <1>1, <1>3, <2>1, <2>2 DEF TypeOK, SubmitPending
<1>4. ASSUME NEW t \in Ids, Barrier(t)
      PROVE  /\ phase' \in Phases /\ DriverType' /\ TransactionType'
             /\ QueueType' /\ WriteType' /\ ReadType'
  <2>1. barriers' \in [Domain -> Nat]
    BY <1>4, RequestFields DEF Barrier, TypeOK, DriverType
  <2>2. DriverType'
    BY <1>4, <2>1 DEF Barrier, TypeOK, DriverType
  <2>3. TransactionType'
    BY <1>4 DEF Barrier, TypeOK, TransactionType, doneVars
  <2> QED
    BY <1>4, <2>2, <2>3, TypeFrames DEF Barrier, TypeOK
<1>5. CASE BarrierPending
  <2>1. Last(pendingTransactions) \in Ids
    BY <1>5 DEF BarrierPending, TypeOK, QueueType, Last
  <2>2. EpochType'
    BY <1>5, TypeFrames DEF BarrierPending, Barrier, epochVars
  <2> QED
    BY <1>4, <1>5, <2>1, <2>2 DEF BarrierPending, TypeOK
<1>6. CASE BarrierQueued
  <2>1. Last(transactionQueue) \in Ids
    BY <1>6 DEF BarrierQueued, TypeOK, QueueType, Last
  <2>2. EpochType'
    BY <1>6, <2>1, RequestFields DEF BarrierQueued, Barrier, TypeOK, EpochType
  <2> QED
    BY <1>4, <1>6, <2>1, <2>2 DEF BarrierQueued, TypeOK
<1>7. CASE EnterRunPIM \/ LeaveRunPIM
  <2>1. DriverType' /\ phase' \in Phases
    BY <1>7 DEF EnterRunPIM, LeaveRunPIM, TypeOK, DriverType
  <2> QED
    BY <1>7, <2>1, TypeFrames DEF EnterRunPIM, LeaveRunPIM, TypeOK
<1> QED
  BY <1>2, <1>3, <1>5, <1>6, <1>7 DEF Driver

LEMMA TypeUpdate == TypeOK /\ BurstsDisjoint /\ Update => TypeOK'
<1> SUFFICES ASSUME TypeOK, BurstsDisjoint, Update PROVE TypeOK'
  OBVIOUS
<1> USE DEF Phases, NoPacket
<1>1. CASE BeginUpdate \/ RankWaits \/ PullNothing \/ PopNothing \/ EnqueueNothing \/ ReturnNothing
  BY <1>1, TypeFrames
     DEF TypeOK, BeginUpdate, RankWaits, PullNothing, PopNothing, EnqueueNothing,
         ReturnNothing
<1>2. CASE RankReturns
  <2>1. ReadType'
    BY <1>2 DEF TypeOK, ReadType, RankReturns
  <2> QED
    BY <1>2, <2>1, TypeFrames DEF TypeOK, RankReturns
<1>3. CASE PullPending
  <2>1. Head(pendingTransactions) \in Ids
    BY <1>3 DEF TypeOK, QueueType, PullPending
  <2>2. EpochType'
    BY <1>3, <2>1, TypeAddTransaction DEF PullPending
  <2>3. TransactionType' /\ QueueType'
    BY <1>3, <2>1
       DEF TypeOK, TransactionType, QueueType, PullPending, AddTransaction, Stages
  <2> QED
    BY <1>3, <2>2, <2>3, TypeFrames DEF TypeOK, PullPending
<1>4. CASE CommandBusRead
  <2>1. ReadType' /\ TransactionType'
    BY <1>4 DEF TypeOK, ReadType, TransactionType, CommandBusRead, CommandBus, doneVars
  <2> QED
    BY <1>4, <2>1, TypeFrames DEF TypeOK, CommandBusRead, CommandBus
<1>5. CASE CommandBusDirect
  <2>1. EpochType'
    BY <1>5, TypeComplete DEF TypeOK, TransactionType, CommandBusDirect
  <2>2. TransactionType'
    BY <1>5 DEF TypeOK, TransactionType, CommandBusDirect, CommandBus, CallBack
  <2>3. ReadType'
    BY <1>5, TypeFrames DEF CommandBusDirect, CommandBus, readVars
  <2> QED
    BY <1>5, <2>1, <2>2, <2>3, TypeFrames DEF TypeOK, CommandBusDirect, CommandBus
<1>6. CASE CommandBusOther
  <2>1. TransactionType'
    BY <1>6 DEF TypeOK, TransactionType, CommandBusOther, CommandBus, doneVars
  <2>2. ReadType'
    BY <1>6, TypeFrames DEF CommandBusOther, CommandBus, readVars
  <2> QED
    BY <1>6, <2>1, <2>2, TypeFrames DEF TypeOK, CommandBusOther, CommandBus
<1>7. CASE DataBusDone
  <2>1. EpochType'
    BY <1>7, TypeComplete DEF TypeOK, WriteType, DataBusDone
  <2>2. TransactionType' /\ WriteType'
    BY <1>7, ConstantsAssumption
       DEF TypeOK, TransactionType, WriteType, DataBusDone, CallBack
  <2> QED
    BY <1>7, <2>1, <2>2, TypeFrames DEF TypeOK, DataBusDone
<1>8. CASE DataBusBusy
  <2>1. WriteType'
    BY <1>8, ConstantsAssumption DEF TypeOK, WriteType, DataBusBusy
  <2> QED
    BY <1>8, <2>1, TypeFrames DEF TypeOK, DataBusBusy
<1>9. CASE WriteDataStarts \/ WriteDataWaits
  <2> DEFINE s == writeDataCountdown
             d == Decremented(s)
  <2>1. /\ s \in Seq(1 .. WL) /\ d \in Seq(0 .. WL - 1) /\ Len(d) = Len(s)
        /\ \A i \in 1 .. Len(s) : d[i] = s[i] - 1
    BY DecrementedProperties DEF TypeOK, WriteType
  <2>2. \A i \in 2 .. Len(s) : s[1] + BurstCycles <= s[i]
    BY <2>1, LenProperties DEF BurstsDisjoint
  <2>3. \A i \in 1 .. Len(s) : s[i] \in 1 .. WL
    BY <2>1, ElementOfSeq
  <2>4. ASSUME NEW i \in 2 .. Len(s) PROVE d[i] >= 1
    <3>1. /\ Len(s) \in Nat /\ i \in 1 .. Len(s) /\ 1 \in 1 .. Len(s)
      BY <2>1, LenProperties
    <3>2. d[i] = s[i] - 1 /\ s[1] + BurstCycles <= s[i] /\ s[i] \in 1 .. WL /\ s[1] \in 1 .. WL
      BY <3>1, <2>1, <2>2, <2>3
    <3> QED
      BY <3>2, ConstantsAssumption
  <2>5. CASE WriteDataStarts
    <3>1. s # <<>> /\ writeDataToSend # <<>>
      BY <2>5, <2>1 DEF WriteDataStarts, TypeOK, WriteType
    <3>2. /\ Tail(d) \in Seq(0 .. WL - 1) /\ Len(Tail(d)) = Len(s) - 1
          /\ \A i \in 1 .. Len(Tail(d)) : Tail(d)[i] >= 1
      BY <3>1, <2>1, <2>4, HeadTailProperties, EmptySeq, LenProperties
    <3>3. Tail(d) \in Seq(1 .. WL)
      BY <3>2, SeqOfPositive
    <3>4. WriteType'
      BY <3>1, <3>2, <3>3, <2>1, <2>5, HeadTailProperties, ConstantsAssumption
         DEF WriteDataStarts, TypeOK, WriteType
    <3> QED
      BY <2>5, <3>4, TypeFrames DEF TypeOK, WriteDataStarts
  <2>6. CASE WriteDataWaits
    <3>1. \A i \in 1 .. Len(d) : d[i] >= 1
      <4>1. Len(s) > 0 => s[1] > 1
        BY <2>1, <2>6 DEF WriteDataWaits, TypeOK, WriteType
      <4> QED
        BY <4>1, <2>1, <2>3, <2>4
    <3>2. d \in Seq(1 .. WL)
      BY <3>1, <2>1, SeqOfPositive
    <3>3. WriteType'
      BY <3>2, <2>1, <2>6 DEF WriteDataWaits, TypeOK, WriteType
    <3> QED
      BY <2>6, <3>3, TypeFrames DEF TypeOK, WriteDataWaits
  <2> QED
    BY <1>9, <2>5, <2>6
<1>10. ASSUME NEW t \in Ids, PopCommand(t) PROVE TypeOK'
  <2>1. EpochType'
    BY <1>10, TypeComplete, TypeFrames DEF PopCommand
  <2>2. TransactionType'
    BY <1>10 DEF TypeOK, TransactionType, PopCommand, IssueCommand, Stages, doneVars
  <2>3. QueueType'
    <3>1. PICK r \in Route : \E i \in DOMAIN commandQueue[r] :
            commandQueue' = [commandQueue EXCEPT ![r] = RemoveAt(@, i)]
      BY <1>10 DEF PopCommand, TakeCommand
    <3>2. PICK i \in DOMAIN commandQueue[r] :
            commandQueue' = [commandQueue EXCEPT ![r] = RemoveAt(@, i)]
      BY <3>1
    <3>3. commandQueue[r] \in Seq(Ids) /\ i \in 1 .. Len(commandQueue[r])
      BY <3>2 DEF TypeOK, QueueType
    <3>4. RemoveAt(commandQueue[r], i) \in Seq(Ids)
      BY <3>3, RemoveAtProperties
    <3>5. commandQueue' \in [Route -> Seq(Ids)]
      BY <3>2, <3>4 DEF TypeOK, QueueType
    <3> QED
      BY <1>10, <3>5 DEF TypeOK, QueueType, PopCommand
  <2>4. writeDataToSend' \in Seq(Ids)
    BY <1>10 DEF TypeOK, WriteType, PopCommand, IssueCommand
  <2>5. writeDataCountdown' \in Seq(1 .. WL)
    <3>1. WL \in 1 .. WL
      BY ConstantsAssumption
    <3>2. Append(writeDataCountdown, WL) \in Seq(1 .. WL)
      BY <3>1, AppendProperties DEF TypeOK, WriteType
    <3> QED
      BY <1>10, <3>2 DEF TypeOK, WriteType, PopCommand, IssueCommand
  <2>6. Len(writeDataCountdown') = Len(writeDataToSend')
    BY <1>10 DEF TypeOK, WriteType, PopCommand, IssueCommand
  <2>7. WriteType'
    BY <1>10, <2>4, <2>5, <2>6 DEF TypeOK, WriteType, PopCommand, IssueCommand
  <2> QED
    BY <1>10, <2>1, <2>2, <2>3, <2>7, TypeFrames DEF TypeOK, PopCommand
<1>11. CASE EnqueueCommand
  <2>1. PICK i \in DOMAIN transactionQueue :
            /\ transactionQueue' = RemoveAt(transactionQueue, i)
            /\ commandQueue' = [commandQueue EXCEPT
                    ![RouteOf(transactionQueue[i])] = Append(@, transactionQueue[i])]
            /\ stage' = [stage EXCEPT ![transactionQueue[i]] = "command"]
            /\ nextLogicTransaction' = (Dom(transactionQueue[i]) # "LOGIC")
            /\ pendingReadTransactions' =
                IF Op(transactionQueue[i]) = "READ"
                THEN Append(pendingReadTransactions, transactionQueue[i])
                ELSE pendingReadTransactions
    BY <1>11 DEF EnqueueCommand
  <2>2. transactionQueue[i] \in Ids /\ RouteOf(transactionQueue[i]) \in Route
    BY RequestFields DEF TypeOK, QueueType
  <2>3. QueueType'
    <3> DEFINE r == RouteOf(transactionQueue[i])
    <3>1. RemoveAt(transactionQueue, i) \in Seq(Ids)
      BY RemoveAtProperties DEF TypeOK, QueueType
    <3>2. Append(commandQueue[r], transactionQueue[i]) \in Seq(Ids)
      BY <2>2, AppendProperties DEF TypeOK, QueueType
    <3> HIDE DEF r
    <3>3. commandQueue' \in [Route -> Seq(Ids)]
      BY <2>1, <2>2, <3>2 DEF TypeOK, QueueType, r
    <3> QED
      BY <1>11, <2>1, <3>1, <3>3 DEF TypeOK, QueueType, EnqueueCommand
  <2>4. TransactionType'
    BY <1>11, <2>1, <2>2 DEF TypeOK, TransactionType, EnqueueCommand, Stages, doneVars
  <2>5. ReadType'
    BY <1>11, <2>1, <2>2, AppendProperties DEF TypeOK, ReadType, EnqueueCommand
  <2> QED
    BY <1>11, <2>3, <2>4, <2>5, TypeFrames DEF TypeOK, EnqueueCommand
<1>12. CASE ReturnReadData
  <2>1. PICK i \in DOMAIN pendingReadTransactions :
            /\ CallBack(pendingReadTransactions[i])
            /\ pendingReadTransactions' = RemoveAt(pendingReadTransactions, i)
    BY <1>12 DEF ReturnReadData
  <2>2. ReadType' /\ TransactionType'
    BY <1>12, <2>1, RemoveAtProperties
       DEF TypeOK, TransactionType, ReadType, ReturnReadData, CallBack
  <2> QED
    BY <1>12, <2>2, TypeFrames DEF TypeOK, ReturnReadData
<1> QED
  BY <1>1, <1>2, <1>3, <1>4, <1>5, <1>6, <1>7, <1>8, <1>9, <1>10, <1>11, <1>12
     DEF Update
-----------------------------------------------------------------------------
(* The bursts on the data bus.                                              *)

LEMMA BurstsInit == Init => BurstsDisjoint
  BY DEF Init, BurstsDisjoint, NoPacket

(* What BurstsDisjoint says, in the form the steps below use it.            *)
LEMMA BurstsFacts ==
    ASSUME TypeOK, BurstsDisjoint
    PROVE  /\ writeDataCountdown \in Seq(1 .. WL)
           /\ DOMAIN writeDataCountdown = 1 .. Len(writeDataCountdown)
           /\ Len(writeDataCountdown) = Len(writeDataToSend)
           /\ Len(writeDataCountdown) \in Nat
           /\ \A i \in 1 .. Len(writeDataCountdown) : writeDataCountdown[i] \in 1 .. WL
           /\ dataCyclesLeft \in 0 .. BurstCycles
           /\ writeDataToSend # <<>> =>
                /\ Len(writeDataCountdown) >= 1
                /\ Head(writeDataCountdown) = writeDataCountdown[1]
           /\ \A i, j \in 1 .. Len(writeDataCountdown) :
                i < j => writeDataCountdown[i] + BurstCycles <= writeDataCountdown[j]
<1>1. /\ writeDataCountdown \in Seq(1 .. WL) /\ dataCyclesLeft \in 0 .. BurstCycles
      /\ Len(writeDataCountdown) = Len(writeDataToSend) /\ writeDataToSend \in Seq(Ids)
  BY DEF TypeOK, WriteType
<1>2. writeDataToSend # <<>> => Len(writeDataToSend) >= 1
  BY <1>1, EmptySeq, LenProperties
<1>3. /\ DOMAIN writeDataCountdown = 1 .. Len(writeDataCountdown)
      /\ Len(writeDataCountdown) \in Nat
      /\ \A i \in 1 .. Len(writeDataCountdown) : writeDataCountdown[i] \in 1 .. WL
  BY <1>1, LenProperties, ElementOfSeq
<1>4. \A i, j \in 1 .. Len(writeDataCountdown) :
        i < j => writeDataCountdown[i] + BurstCycles <= writeDataCountdown[j]
  BY <1>3 DEF BurstsDisjoint
<1> QED
  BY <1>1, <1>2, <1>3, <1>4

LEMMA BurstsNext == TypeOK /\ BurstsDisjoint /\ [Next]_vars => BurstsDisjoint'
<1> SUFFICES ASSUME TypeOK, BurstsDisjoint, [Next]_vars PROVE BurstsDisjoint'
  OBVIOUS
<1> DEFINE c == writeDataCountdown
<1> WL \in Nat \ {0} /\ BurstCycles \in Nat \ {0}
  BY ConstantsAssumption
<1>f. /\ c \in Seq(1 .. WL) /\ DOMAIN c = 1 .. Len(c)
      /\ Len(c) = Len(writeDataToSend) /\ Len(c) \in Nat
      /\ dataCyclesLeft \in 0 .. BurstCycles
      /\ writeDataToSend # <<>> => Len(c) >= 1 /\ Head(c) = c[1]
  BY BurstsFacts
<1>i. \A i \in 1 .. Len(c) : c[i] \in 1 .. WL
  BY BurstsFacts
<1>s. \A i, j \in 1 .. Len(c) : i < j => c[i] + BurstCycles <= c[j]
  BY BurstsFacts
(* A step that leaves the bus alone and does not enter the two phases in    *)
(* which the invariant says more.                                           *)
<1>1. ASSUME UNCHANGED writeVars, phase' = phase \/ phase' \notin {"burst", "pop"}
      PROVE  BurstsDisjoint'
  BY <1>1 DEF BurstsDisjoint, writeVars
<1>2. CASE DataBusDone
  BY <1>2 DEF DataBusDone, BurstsDisjoint
<1>3. CASE DataBusBusy
  <2>1. c' = c /\ outgoingDataPacket' = outgoingDataPacket /\ phase' = "burst" /\ phase = "data"
    BY <1>3 DEF DataBusBusy
  <2>2. outgoingDataPacket # NoPacket => dataCyclesLeft > 1 /\ dataCyclesLeft' = dataCyclesLeft - 1
    BY <1>3 DEF DataBusBusy
  <2> QED
    BY <2>1, <2>2, <1>f, <1>i DEF BurstsDisjoint
<1>4. CASE WriteDataWaits
  <2>1. /\ c' \in Seq(0 .. WL - 1) /\ Len(c') = Len(c)
        /\ \A i \in 1 .. Len(c) : c'[i] = c[i] - 1
    BY <1>4, <1>f, DecrementedProperties DEF WriteDataWaits
  <2>2. DOMAIN c' = 1 .. Len(c)
    BY <2>1, LenProperties
  <2>3. /\ phase = "burst" /\ phase' = "pop"
        /\ UNCHANGED <<outgoingDataPacket, dataCyclesLeft>>
    BY <1>4 DEF WriteDataWaits
  <2>4. ASSUME NEW i \in 1 .. Len(c), NEW j \in 1 .. Len(c), i < j
        PROVE  c'[i] + BurstCycles <= c'[j]
    <3>1. c[i] + BurstCycles <= c[j] /\ c[i] \in 1 .. WL /\ c[j] \in 1 .. WL
      BY <2>4, <1>i, <1>s
    <3>2. c'[i] = c[i] - 1 /\ c'[j] = c[j] - 1
      BY <2>1
    <3> QED
      BY <3>1, <3>2
  <2>5. ASSUME NEW i \in 1 .. Len(c) PROVE c'[i] < WL
    <3>1. c'[i] = c[i] - 1 /\ c[i] \in 1 .. WL
      BY <2>1, <1>i
    <3> QED
      BY <3>1
  <2>6. outgoingDataPacket # NoPacket =>
          dataCyclesLeft > 0 /\ \A i \in 1 .. Len(c) : dataCyclesLeft <= c'[i]
    <3>1. outgoingDataPacket # NoPacket =>
            dataCyclesLeft > 0 /\ \A i \in 1 .. Len(c) : dataCyclesLeft < c[i]
      BY <2>3, <1>f DEF BurstsDisjoint
    <3>2. ASSUME NEW i \in 1 .. Len(c), outgoingDataPacket # NoPacket
          PROVE  dataCyclesLeft <= c'[i]
      <4>1. c'[i] = c[i] - 1 /\ c[i] \in 1 .. WL /\ dataCyclesLeft < c[i]
        BY <2>1, <1>i, <3>1, <3>2
      <4> QED
        BY <4>1, <1>f
    <3> QED
      BY <3>1, <3>2
  <2> QED
    BY <2>2, <2>3, <2>4, <2>5, <2>6 DEF BurstsDisjoint
<1>5. CASE WriteDataStarts
  <2> DEFINE d == Decremented(c)
  <2>1. Len(c) >= 1 /\ c[1] = 1 /\ c # <<>>
    BY <1>5, <1>f DEF WriteDataStarts
  <2>2. /\ d \in Seq(0 .. WL - 1) /\ Len(d) = Len(c)
        /\ \A i \in 1 .. Len(c) : d[i] = c[i] - 1
    BY <1>f, DecrementedProperties
  <2>3. c' = Tail(d) /\ phase = "burst" /\ phase' = "pop" /\ dataCyclesLeft' = BurstCycles
    BY <1>5 DEF WriteDataStarts
  <2> HIDE DEF d
  <2>4. /\ DOMAIN c' = 1 .. Len(c) - 1
        /\ \A i \in 1 .. Len(c) - 1 : c'[i] = c[i + 1] - 1
    <3>1. d # <<>>
      BY <2>1, <2>2
    <3>2. /\ Tail(d) \in Seq(0 .. WL - 1) /\ Len(Tail(d)) = Len(d) - 1
          /\ \A i \in 1 .. Len(d) - 1 : Tail(d)[i] = d[i + 1]
      BY <3>1, <2>2, HeadTailProperties
    <3>3. \A i \in 1 .. Len(c) - 1 : i + 1 \in 1 .. Len(c)
      BY <1>f
    <3> QED
      BY <2>2, <2>3, <3>2, <3>3, LenProperties
  <2>5. \A i \in 1 .. Len(c) - 1 : i + 1 \in 1 .. Len(c) /\ c[i + 1] \in 1 .. WL
    <3>1. \A i \in 1 .. Len(c) - 1 : i + 1 \in 1 .. Len(c)
      BY <1>f
    <3> QED
      BY <3>1, <1>i
  <2>6. ASSUME NEW i \in 1 .. Len(c) - 1 PROVE 1 + BurstCycles <= c[i + 1]
    <3>1. i + 1 \in 1 .. Len(c) /\ 1 \in 1 .. Len(c) /\ 1 < i + 1
      BY <1>f, <2>1
    <3> QED
      BY <3>1, <2>1, <1>s
  <2>7. ASSUME NEW i \in 1 .. Len(c) - 1, NEW j \in 1 .. Len(c) - 1, i < j
        PROVE  c[i + 1] + BurstCycles <= c[j + 1]
    <3>1. i + 1 \in 1 .. Len(c) /\ j + 1 \in 1 .. Len(c) /\ i + 1 < j + 1
      BY <1>f, <2>7
    <3> QED
      BY <3>1, <1>s
  <2>8. ASSUME NEW i \in 1 .. Len(c) - 1, NEW j \in 1 .. Len(c) - 1, i < j
        PROVE  c'[i] + BurstCycles <= c'[j]
    <3>1. /\ c[i + 1] + BurstCycles <= c[j + 1]
          /\ c[i + 1] \in 1 .. WL /\ c[j + 1] \in 1 .. WL
      BY <2>5, <2>7, <2>8
    <3>2. c'[i] = c[i + 1] - 1 /\ c'[j] = c[j + 1] - 1
      BY <2>4
    <3> QED
      BY <3>1, <3>2
  <2>9. ASSUME NEW i \in 1 .. Len(c) - 1 PROVE c'[i] < WL /\ BurstCycles <= c'[i]
    <3>1. c'[i] = c[i + 1] - 1 /\ c[i + 1] \in 1 .. WL /\ 1 + BurstCycles <= c[i + 1]
      BY <2>4, <2>5, <2>6
    <3> QED
      BY <3>1
  <2>10. \A i, j \in DOMAIN c' : i < j => c'[i] + BurstCycles <= c'[j]
    BY <2>4, <2>8
  <2>11. \A i \in DOMAIN c' : c'[i] < WL /\ dataCyclesLeft' <= c'[i]
    BY <2>3, <2>4, <2>9
  <2>12. phase' # "burst" /\ dataCyclesLeft' > 0
    BY <2>3
  <2> HIDE DEF c
  <2> QED
    BY <2>10, <2>11, <2>12 DEF BurstsDisjoint, c
<1>6. ASSUME NEW t \in Ids, PopCommand(t) PROVE BurstsDisjoint'
  <2>1. /\ phase = "pop" /\ phase' = "enqueue" /\ ~WriteBlocked(t)
        /\ UNCHANGED <<outgoingDataPacket, dataCyclesLeft>>
    BY <1>6 DEF PopCommand, TakeCommand, IssueCommand, CanIssueHierarchyCommand
  <2>2. CASE Op(t) # "WRITE"
    <3>1. c' = c
      BY <1>6, <2>2 DEF PopCommand, IssueCommand
    <3> QED
      BY <2>1, <3>1 DEF BurstsDisjoint
  <2>3. CASE Op(t) = "WRITE"
    <3>1. c' = Append(c, WL)
      BY <1>6, <2>3 DEF PopCommand, IssueCommand
    <3>2. /\ DOMAIN c' = 1 .. Len(c) + 1 /\ c'[Len(c) + 1] = WL
          /\ \A i \in 1 .. Len(c) : c'[i] = c[i]
      BY <3>1, <1>f, AppendProperties
    <3>3. \A i \in 1 .. Len(c) : c[i] < WL
      BY <2>1, <1>f DEF BurstsDisjoint
    <3>4. /\ outgoingDataPacket # NoPacket => WL >= dataCyclesLeft
          /\ \A i \in 1 .. Len(c) : c[i] + BurstCycles <= WL
      <4>1. CASE HasWriteDataSlot
        <5>1. outgoingDataPacket # NoPacket => WL >= dataCyclesLeft
          BY <4>1 DEF HasWriteDataSlot
        <5>2. ASSUME NEW i \in 1 .. Len(c) PROVE c[i] + BurstCycles <= WL
          <6>1. c[i] < WL /\ c[i] \in 1 .. WL
            BY <3>3, <1>i
          <6>2. c[i] >= WL + BurstCycles \/ c[i] + BurstCycles <= WL
            BY <4>1, <1>f DEF HasWriteDataSlot
          <6> QED
            BY <6>1, <6>2
        <5> QED
          BY <5>1, <5>2
      <4>2. CASE ~HasWriteDataSlot
        <5>1. c = <<>> /\ outgoingDataPacket = NoPacket
          BY <4>2, <2>1, <2>3 DEF WriteBlocked
        <5>2. Len(c) = 0
          BY <5>1, LenProperties
        <5> QED
          BY <5>1, <5>2
      <4> QED
        BY <4>1, <4>2
    <3>5. ASSUME NEW i \in 1 .. Len(c) + 1, NEW j \in 1 .. Len(c) + 1, i < j
          PROVE  c'[i] + BurstCycles <= c'[j]
      <4>1. i \in 1 .. Len(c) /\ c'[i] = c[i]
        BY <3>2, <3>5, <1>f
      <4>2. CASE j = Len(c) + 1
        <5>1. c'[i] = c[i] /\ c'[j] = WL /\ c[i] + BurstCycles <= WL
          BY <4>1, <4>2, <3>2, <3>4
        <5> QED
          BY <5>1
      <4>3. CASE j # Len(c) + 1
        <5>1. j \in 1 .. Len(c) /\ c'[j] = c[j]
          BY <4>3, <3>2, <1>f
        <5> QED
          BY <4>1, <5>1, <3>5, <1>s
      <4> QED
        BY <4>2, <4>3
    <3>6. outgoingDataPacket # NoPacket =>
            dataCyclesLeft > 0 /\ \A i \in 1 .. Len(c) + 1 : dataCyclesLeft <= c'[i]
      <4>1. ASSUME NEW i \in 1 .. Len(c) + 1, outgoingDataPacket # NoPacket
            PROVE  dataCyclesLeft <= c'[i]
        <5>1. CASE i = Len(c) + 1
          BY <5>1, <4>1, <3>2, <3>4
        <5>2. CASE i # Len(c) + 1
          <6>1. i \in DOMAIN c /\ c'[i] = c[i]
            BY <5>2, <1>f, <3>2
          <6> QED
            BY <6>1, <4>1 DEF BurstsDisjoint
        <5> QED
          BY <5>1, <5>2
      <4> QED
        BY <4>1 DEF BurstsDisjoint
    <3> QED
      BY <2>1, <3>2, <3>5, <3>6 DEF BurstsDisjoint
  <2> QED
    BY <2>2, <2>3
<1>7. CASE UNCHANGED vars
  BY <1>1, <1>7 DEF vars
<1>8. CASE Driver
  <2>1. UNCHANGED writeVars /\ phase' = phase
    BY <1>8 DEF Driver, SubmitAccepted, SubmitPending, Submit, BarrierPending,
                BarrierQueued, Barrier, EnterRunPIM, LeaveRunPIM
  <2> QED
    BY <1>1, <2>1
<1>9. CASE \/ BeginUpdate \/ RankReturns \/ RankWaits \/ PullPending \/ PullNothing
           \/ CommandBusRead \/ CommandBusDirect \/ CommandBusOther \/ PopNothing
           \/ EnqueueCommand \/ EnqueueNothing \/ ReturnReadData \/ ReturnNothing
  <2>1. UNCHANGED writeVars /\ phase' \notin {"burst", "pop"}
    BY <1>9 DEF BeginUpdate, RankReturns, RankWaits, PullPending, PullNothing,
                CommandBusRead, CommandBusDirect, CommandBusOther, CommandBus,
                PopNothing, EnqueueCommand, EnqueueNothing, ReturnReadData,
                ReturnNothing
  <2> QED
    BY <1>1, <2>1
<1> QED
  BY <1>2, <1>3, <1>4, <1>5, <1>6, <1>7, <1>8, <1>9 DEF Next, Update
-----------------------------------------------------------------------------
(* The inductive invariant: types and the disjointness of the bursts need   *)
(* each other.                                                              *)
LEMMA TypeAndBursts == Spec => [](TypeOK /\ BurstsDisjoint)
<1>1. Init => TypeOK /\ BurstsDisjoint
  BY TypeInit, BurstsInit
<1>2. TypeOK /\ BurstsDisjoint /\ [Next]_vars => (TypeOK /\ BurstsDisjoint)'
  <2> SUFFICES ASSUME TypeOK, BurstsDisjoint, [Next]_vars PROVE TypeOK'
    BY BurstsNext
  <2>1. CASE Next
    BY <2>1, TypeDriver, TypeUpdate DEF Next
  <2>2. CASE UNCHANGED vars
    BY <2>2, TypeFrames DEF TypeOK, vars, queueVars, readVars, doneVars
  <2> QED
    BY <2>1, <2>2
<1> QED
  BY <1>1, <1>2, PTL DEF Spec

(* Every variable keeps its type; in particular a write's countdown reaches *)
(* zero only by leaving the queue, and counts and data stay paired.         *)
THEOREM TypeCorrect == Spec => []TypeOK
  BY TypeAndBursts, PTL

(* The bursts of the writes that were let onto the data bus, by either of   *)
(* the two rules of canIssueHierarchyCommand, never overlap.                *)
THEOREM BurstsStayDisjoint == Spec => []BurstsDisjoint
  BY TypeAndBursts, PTL

(* The "Data Bus Collision" exit of MemoryController::update is unreachable *)
(* for every write latency, burst length, queue depth and traffic.          *)
THEOREM DataBusSafe == Spec => []NoDataBusCollision
<1>1. TypeOK /\ BurstsDisjoint => NoDataBusCollision
  BY BurstsFacts DEF BurstsDisjoint, NoDataBusCollision
<1> QED
  BY <1>1, TypeAndBursts, PTL
=============================================================================
