-------------------------- MODULE EpochOrder_proofs --------------------------
(***************************************************************************)
(* The epochs of HierarchyFrontEnd: the outstanding counts are exact, and   *)
(* the controller implements EpochContract.                                 *)
(*                                                                         *)
(* Every step of the controller has one of five effects on the epochs       *)
(* (EffectOfNext), whatever else it does to queues and buses.  EpochInv     *)
(* says what the counters and the maps mean; each effect preserves it       *)
(* (EpochNext), and each effect is a step of the contract (ContractStep).   *)
(***************************************************************************)
EXTENDS TransactionPlaces_proofs

AcceptedSet == {t \in Ids : Accepted(t)}
IssuedSet == {t \in Ids : stage[t] = "issued"}
DoneSet == {t \in Ids : EpochDone(t)}

(* The five effects.                                                        *)
Quiet ==
    /\ UNCHANGED <<bar, epochVars>>
    /\ AcceptedSet' = AcceptedSet /\ IssuedSet' = IssuedSet /\ DoneSet' = DoneSet

Accepting(t) ==
    /\ t \notin AcceptedSet /\ AcceptedSet' = AcceptedSet \cup {t}
    /\ IssuedSet' = IssuedSet /\ DoneSet' = DoneSet
    /\ epoch' = [epoch EXCEPT ![t] = epochToAssign[Dom(t)]]
    /\ epochOutstanding' =
        [epochOutstanding EXCEPT ![Dom(t)] = BagAdd(@, epochToAssign[Dom(t)])]
    /\ epochToAssign' = [epochToAssign EXCEPT ![Dom(t)] = IF bar[t] THEN @ + 1 ELSE @]
    /\ UNCHANGED <<bar, epochToIssue>>

Marking(t) ==
    /\ AcceptedSet' = AcceptedSet /\ IssuedSet' = IssuedSet /\ DoneSet' = DoneSet
    /\ bar' = [bar EXCEPT ![t] = TRUE]
    /\ UNCHANGED <<epoch, epochToIssue, epochOutstanding>>
    /\ \/ t \notin AcceptedSet /\ UNCHANGED epochToAssign
       \/ /\ t \in AcceptedSet \ IssuedSet
          /\ epochToAssign' = [epochToAssign EXCEPT ![Dom(t)] = @ + 1]

Issuing(t) ==
    /\ t \in AcceptedSet \ IssuedSet
    /\ epoch[t] = epochToIssue[Dom(t)] /\ CanIssueEpochBarrier(t)
    /\ AcceptedSet' = AcceptedSet /\ IssuedSet' = IssuedSet \cup {t}
    /\ UNCHANGED bar
    /\ \/ DoneSet' = DoneSet /\ UNCHANGED epochVars
       \/ DoneSet' = DoneSet \cup {t} /\ CompleteEpochAndAdvance(t)

Completing(t) ==
    /\ t \in IssuedSet \ DoneSet
    /\ AcceptedSet' = AcceptedSet /\ IssuedSet' = IssuedSet
    /\ DoneSet' = DoneSet \cup {t}
    /\ UNCHANGED bar
    /\ CompleteEpochAndAdvance(t)

(* Without a barrier call there are four.                                  *)
Progress ==
    \/ Quiet
    \/ \E t \in Ids : Accepting(t) \/ Issuing(t) \/ Completing(t)

Effect == Progress \/ \E t \in Ids : Marking(t)

(* Which sets a transaction is in follows from its stage.                   *)
LEMMA SetsOfPlaces ==
    ASSUME TypeOK, PlacesInv
    PROVE  /\ DoneSet \subseteq IssuedSet /\ IssuedSet \subseteq AcceptedSet
           /\ AcceptedSet \subseteq Ids
           /\ \A t \in Ids : t \in AcceptedSet <=> stage[t] \in {"queued", "command", "issued"}
           /\ \A t \in Ids : Op(t) = "READ" => (t \in DoneSet <=> t \in IssuedSet)
           /\ \A t \in Ids : Op(t) # "READ" => (t \in DoneSet <=> t \in finished)
<1>1. stage \in [Ids -> Stages]
  BY DEF TypeOK, TransactionType
<1>2. \A t \in Ids : t \in AcceptedSet <=> stage[t] \in {"queued", "command", "issued"}
  BY <1>1 DEF AcceptedSet, Accepted, Stages
<1>3. /\ \A t \in Ids : Op(t) = "READ" => (t \in DoneSet <=> t \in IssuedSet)
      /\ \A t \in Ids : Op(t) # "READ" => (t \in DoneSet <=> t \in finished)
  BY DEF DoneSet, EpochDone, IssuedSet
<1>4. DoneSet \subseteq IssuedSet
  BY <1>3 DEF PlacesInv, ReadPlaces, DoneSet, IssuedSet
<1> QED
  BY <1>2, <1>3, <1>4 DEF AcceptedSet, IssuedSet

(* Steps that leave the sets alone.                                         *)
LEMMA SetsFrames ==
    ASSUME UNCHANGED request
    PROVE  /\ (\A u \in Ids : stage'[u] = stage[u]) =>
                AcceptedSet' = AcceptedSet /\ IssuedSet' = IssuedSet
           /\ (\A u \in Ids : stage'[u] = stage[u]) /\ finished' = finished =>
                DoneSet' = DoneSet
           /\ (\A u \in Ids : stage'[u] = "issued" <=> stage[u] = "issued") =>
                IssuedSet' = IssuedSet
           /\ (\A u \in Ids : stage'[u] = "issued" <=> stage[u] = "issued")
              /\ finished' = finished => DoneSet' = DoneSet
<1>1. \A t : Op(t)' = Op(t)
  BY RequestOperators
<1> QED
  BY <1>1 DEF AcceptedSet, IssuedSet, DoneSet, EpochDone, Accepted
-----------------------------------------------------------------------------
(* AddTransaction, called for a new transaction or for a waiting one.       *)
LEMMA EffectOfAdd ==
    ASSUME TypeOK, PlacesInv, UNCHANGED request, NEW t \in Ids, AddTransaction(t),
           stage[t] \in {"none", "pending"}, UNCHANGED <<bar, epochToIssue, finished>>
    PROVE  Accepting(t)
<1>1. stage' = [stage EXCEPT ![t] = "queued"] /\ stage \in [Ids -> Stages]
  BY DEF AddTransaction, TypeOK, TransactionType
<1>2. \A u \in Ids : stage'[u] = "issued" <=> stage[u] = "issued"
  BY <1>1
<1>3. IssuedSet' = IssuedSet /\ DoneSet' = DoneSet
  BY <1>2, SetsFrames
<1>4. t \notin AcceptedSet /\ AcceptedSet' = AcceptedSet \cup {t}
  BY <1>1 DEF AcceptedSet, Accepted
<1> QED
  BY <1>3, <1>4 DEF Accepting, AddTransaction

LEMMA EffectOfDriver ==
    ASSUME TypeOK, PlacesInv, UNCHANGED request, Driver
    PROVE  /\ Effect
           /\ ~BarrierPending /\ ~BarrierQueued => Progress
<1> USE DEF PlacesInv
<1>s. stage \in [Ids -> Stages] /\ submitted \in Int /\ \A u \in Ids : u \in Int
  BY DEF TypeOK, TransactionType, DriverType, Ids
<1>1. ASSUME NEW t \in Ids, Submit(t) PROVE stage[t] = "none"
  <2>1. t > submitted
    BY <1>1, <1>s DEF Submit
  <2> QED
    BY <2>1 DEF QueuePlaces
<1>2. ASSUME NEW t \in Ids, SubmitAccepted(t) PROVE Progress
  <2>1. /\ stage[t] \in {"none", "pending"} /\ AddTransaction(t)
        /\ UNCHANGED <<bar, epochToIssue, finished>>
    BY <1>1, <1>2 DEF SubmitAccepted, Submit
  <2> QED
    BY <2>1, EffectOfAdd DEF Progress
<1>3. ASSUME NEW t \in Ids, SubmitPending(t) PROVE Progress
  <2>1. /\ stage[t] = "none" /\ stage' = [stage EXCEPT ![t] = "pending"]
        /\ UNCHANGED <<bar, epochVars, finished>>
    BY <1>1, <1>3 DEF SubmitPending, Submit, epochVars
  <2>2. /\ \A u \in Ids : stage'[u] = "issued" <=> stage[u] = "issued"
        /\ AcceptedSet' = AcceptedSet
    BY <2>1, <1>s DEF AcceptedSet, Accepted
  <2> QED
    BY <2>1, <2>2, SetsFrames DEF Progress, Quiet
<1>4. ASSUME NEW t \in Ids, Barrier(t),
             \/ stage[t] = "pending" /\ UNCHANGED epochToAssign
             \/ /\ stage[t] = "queued"
                /\ epochToAssign' = [epochToAssign EXCEPT ![Dom(t)] = @ + 1]
      PROVE  Effect
  <2>1. /\ bar' = [bar EXCEPT ![t] = TRUE] /\ UNCHANGED <<stage, finished>>
        /\ UNCHANGED <<epoch, epochToIssue, epochOutstanding>>
    BY <1>4 DEF Barrier, doneVars
  <2>2. AcceptedSet' = AcceptedSet /\ IssuedSet' = IssuedSet /\ DoneSet' = DoneSet
    BY <2>1, SetsFrames
  <2>3. /\ stage[t] = "pending" => t \notin AcceptedSet
        /\ stage[t] = "queued" => t \in AcceptedSet \ IssuedSet
    BY DEF AcceptedSet, IssuedSet, Accepted
  <2> QED
    BY <1>4, <2>1, <2>2, <2>3 DEF Effect, Marking
<1>5. BarrierPending => Effect
  BY <1>4, QueueFacts DEF BarrierPending
<1>6. BarrierQueued => Effect
  BY <1>4, QueueFacts DEF BarrierQueued
<1>7. EnterRunPIM \/ LeaveRunPIM => Progress
  <2>1. EnterRunPIM \/ LeaveRunPIM => UNCHANGED <<bar, epochVars, stage, finished>>
    BY DEF EnterRunPIM, LeaveRunPIM, doneVars
  <2> QED
    BY <2>1, SetsFrames DEF Progress, Quiet
<1> QED
  BY <1>2, <1>3, <1>5, <1>6, <1>7 DEF Driver, Effect

(* A write that is on a bus completes.                                      *)
LEMMA EffectOfCallBack ==
    ASSUME TypeOK, PlacesInv, UNCHANGED request, NEW t \in Ids, Op(t) # "READ",
           InFlight(t), CallBack(t), CompleteEpochAndAdvance(t), UNCHANGED <<bar, stage>>
    PROVE  Completing(t)
<1>1. AcceptedSet' = AcceptedSet /\ IssuedSet' = IssuedSet
  BY SetsFrames
<1>2. \A u : Op(u)' = Op(u)
  BY RequestOperators
<1>3. DoneSet' = DoneSet \cup {t}
  BY <1>2 DEF DoneSet, EpochDone, CallBack
<1>4. t \in IssuedSet \ DoneSet
  BY DEF IssuedSet, DoneSet, EpochDone, InFlight
<1> QED
  BY <1>1, <1>3, <1>4 DEF Completing

LEMMA EffectOfUpdate ==
    ASSUME TypeOK, PlacesInv, UNCHANGED request, Update
    PROVE  Progress
<1> USE DEF PlacesInv, BusPlaces
<1>s. stage \in [Ids -> Stages]
  BY DEF TypeOK, TransactionType
<1>o. \A u : Op(u)' = Op(u)
  BY RequestOperators
<1>q. UNCHANGED <<bar, epochVars, stage, finished>> => Progress
  BY SetsFrames DEF Progress, Quiet
<1>1. CASE \/ BeginUpdate \/ RankReturns \/ RankWaits \/ PullNothing
           \/ CommandBusRead \/ CommandBusOther \/ DataBusBusy
           \/ WriteDataStarts \/ WriteDataWaits \/ PopNothing
           \/ EnqueueNothing \/ ReturnNothing
  <2>1. UNCHANGED <<bar, epochVars, stage, finished>>
    BY <1>1 DEF BeginUpdate, RankReturns, RankWaits, PullNothing, CommandBusRead,
                CommandBusOther, CommandBus, DataBusBusy, WriteDataStarts,
                WriteDataWaits, PopNothing, EnqueueNothing, ReturnNothing, doneVars
  <2> QED
    BY <2>1, <1>q
<1>2. CASE PullPending
  <2> DEFINE t == Head(pendingTransactions)
  <2>1. /\ t \in Ids /\ stage[t] = "pending" /\ AddTransaction(t)
        /\ UNCHANGED <<bar, epochToIssue, finished>>
    BY <1>2, QueueFacts DEF PullPending
  <2>2. Accepting(t)
    BY <2>1, EffectOfAdd
  <2> QED
    BY <2>1, <2>2 DEF Progress
<1>3. CASE CommandBusDirect
  <2>1. /\ outgoingCmdPacket # NoPacket /\ Op(outgoingCmdPacket) = "DIRECT"
        /\ CallBack(outgoingCmdPacket) /\ CompleteEpochAndAdvance(outgoingCmdPacket)
        /\ UNCHANGED <<bar, stage>>
    BY <1>3 DEF CommandBusDirect, CommandBus
  <2>2. outgoingCmdPacket \in Ids /\ InFlight(outgoingCmdPacket)
    BY <2>1, BusFacts DEF CommandBusPlaces, InFlight
  <2> QED
    BY <2>1, <2>2, EffectOfCallBack DEF Progress
<1>4. CASE DataBusDone
  <2>1. /\ outgoingDataPacket # NoPacket
        /\ CallBack(outgoingDataPacket) /\ CompleteEpochAndAdvance(outgoingDataPacket)
        /\ UNCHANGED <<bar, stage>>
    BY <1>4 DEF DataBusDone
  <2>2. /\ outgoingDataPacket \in Ids /\ InFlight(outgoingDataPacket)
        /\ Op(outgoingDataPacket) = "WRITE"
    BY <2>1, BusFacts DEF DataBusPlaces
  <2> QED
    BY <2>1, <2>2, EffectOfCallBack DEF Progress
<1>5. ASSUME NEW t \in Ids, PopCommand(t) PROVE Progress
  <2>1. stage[t] = "command"
    <3>1. PICK r \in Route : \E i \in DOMAIN commandQueue[r] : commandQueue[r][i] = t
      BY <1>5 DEF PopCommand, TakeCommand
    <3>2. PICK i \in 1 .. Len(commandQueue[r]) : commandQueue[r][i] = t
      BY <3>1, QueueFacts, LenProperties
    <3> QED
      BY <3>2 DEF QueuePlaces, Holds
  <2>2. /\ epoch[t] = epochToIssue[Dom(t)] /\ CanIssueEpochBarrier(t)
        /\ stage' = [stage EXCEPT ![t] = "issued"] /\ UNCHANGED <<bar, finished>>
        /\ IF Op(t) = "READ" THEN CompleteEpochAndAdvance(t) ELSE UNCHANGED epochVars
    BY <1>5 DEF PopCommand, TakeCommand, CanIssueHierarchyCommand, doneVars
  <2>3. stage'[t] = "issued" /\ \A u \in Ids : u # t => stage'[u] = stage[u]
    BY <2>2, <1>s
  <2>4. /\ t \in AcceptedSet \ IssuedSet /\ AcceptedSet' = AcceptedSet
        /\ IssuedSet' = IssuedSet \cup {t}
    BY <2>1, <2>3 DEF AcceptedSet, IssuedSet, Accepted
  <2>5. DoneSet' = IF Op(t) = "READ" THEN DoneSet \cup {t} ELSE DoneSet
    BY <2>1, <2>2, <2>3, <1>o DEF DoneSet, EpochDone
  <2> QED
    BY <2>2, <2>4, <2>5 DEF Progress, Issuing
<1>6. CASE EnqueueCommand
  <2>1. PICK i \in DOMAIN transactionQueue :
          stage' = [stage EXCEPT ![transactionQueue[i]] = "command"]
    BY <1>6 DEF EnqueueCommand
  <2>2. transactionQueue[i] \in Ids /\ stage[transactionQueue[i]] = "queued"
    BY QueueFacts, ElementOfSeq, LenProperties DEF QueuePlaces, Holds
  <2>3. UNCHANGED <<bar, epochVars, finished>>
    BY <1>6 DEF EnqueueCommand, doneVars
  <2>4. /\ \A u \in Ids : stage'[u] = "issued" <=> stage[u] = "issued"
        /\ AcceptedSet' = AcceptedSet
    BY <2>1, <2>2, <1>s DEF AcceptedSet, Accepted
  <2> QED
    BY <2>3, <2>4, SetsFrames DEF Progress, Quiet
<1>7. CASE ReturnReadData
  <2>1. PICK i \in DOMAIN pendingReadTransactions :
          finished' = finished \cup {pendingReadTransactions[i]}
    BY <1>7 DEF ReturnReadData, CallBack
  <2>2. Op(pendingReadTransactions[i]) = "READ"
    BY LenProperties DEF ReadPlaces, TypeOK, ReadType
  <2>3. UNCHANGED <<bar, epochVars, stage>>
    BY <1>7 DEF ReturnReadData
  <2>4. DoneSet' = DoneSet
    BY <2>1, <2>2, <2>3, <1>o DEF DoneSet, EpochDone
  <2> QED
    BY <2>3, <2>4, SetsFrames DEF Progress, Quiet
<1> QED
  BY <1>1, <1>2, <1>3, <1>4, <1>5, <1>6, <1>7 DEF Update

LEMMA EffectOfNext ==
    ASSUME TypeOK, PlacesInv, [Next]_vars
    PROVE  /\ UNCHANGED request /\ Effect
           /\ ~BarrierPending /\ ~BarrierQueued => Progress
<1>1. UNCHANGED request
  BY RequestFixed
<1>2. CASE UNCHANGED vars
  <2>1. UNCHANGED <<bar, epochVars, stage, finished>>
    BY <1>2 DEF vars, doneVars
  <2> QED
    BY <1>1, <2>1, SetsFrames DEF Effect, Progress, Quiet
<1> QED
  BY <1>1, <1>2, EffectOfDriver, EffectOfUpdate DEF Next, Effect
-----------------------------------------------------------------------------
(* What the counters mean.  The map counts the transactions that hold an    *)
(* epoch open;                                                              *)
CountsInv ==
    \A d \in Domain : \A e \in Nat : Outstanding(d, e) = Cardinality(Holding(d, e))

(* an accepted transaction is in a closed epoch or in the one being filled, *)
(* and a barrier in a closed one;                                           *)
AssignInv ==
    \A t \in AcceptedSet :
        /\ epoch[t] <= epochToAssign[Dom(t)]
        /\ bar[t] => epoch[t] < epochToAssign[Dom(t)]

(* what is open is in the issuing epoch or a later one, and what is issued  *)
(* is not in a later one;                                                   *)
IssueInv ==
    /\ \A d \in Domain : epochToIssue[d] <= epochToAssign[d]
    /\ \A t \in AcceptedSet \ DoneSet : epochToIssue[Dom(t)] <= epoch[t]
    /\ \A t \in IssuedSet : epoch[t] <= epochToIssue[Dom(t)]

(* and a barrier in flight is alone in its epoch.                           *)
AloneInv ==
    \A t \in IssuedSet \ DoneSet : bar[t] =>
        \A u \in AcceptedSet \ DoneSet :
            Dom(u) = Dom(t) /\ epoch[u] = epoch[t] => u = t

EpochInv == CountsInv /\ AssignInv /\ IssueInv /\ AloneInv

(* Holding in terms of the sets.                                            *)
LEMMA HoldingSets ==
    /\ \A d, e : Holding(d, e) =
        {t \in AcceptedSet \ DoneSet : Dom(t) = d /\ epoch[t] = e}
    /\ \A d, e : IsFiniteSet(Holding(d, e))
<1>1. \A d, e : Holding(d, e) =
        {t \in AcceptedSet \ DoneSet : Dom(t) = d /\ epoch[t] = e}
  BY DEF Holding, AcceptedSet, DoneSet
<1>2. IsFiniteSet(Ids)
  BY FS_Interval, ConstantsAssumption DEF Ids
<1>3. \A d, e : Holding(d, e) \in SUBSET Ids
  BY DEF Holding
<1> QED
  BY <1>1, <1>2, <1>3, FS_Subset

LEMMA EpochTypes ==
    ASSUME TypeOK
    PROVE  /\ \A t \in Ids : Dom(t) \in Domain /\ epoch[t] \in Nat /\ bar[t] \in BOOLEAN
           /\ epoch \in [Ids -> Nat]
           /\ epochToAssign \in [Domain -> Nat] /\ epochToIssue \in [Domain -> Nat]
           /\ bar \in [Ids -> BOOLEAN]
           /\ DOMAIN epochOutstanding = Domain
           /\ \A d \in Domain : IsABag(epochOutstanding[d])
           /\ \A d, e : Outstanding(d, e) = Count(epochOutstanding[d], e)
<1>1. \A t \in Ids : Dom(t) \in Domain
  BY RequestFields DEF TypeOK
<1>2. \A d, e : Outstanding(d, e) = Count(epochOutstanding[d], e)
  BY DEF Outstanding, Count
<1> QED
  BY <1>1, <1>2 DEF TypeOK, EpochType, TransactionType

LEMMA EpochInit == Init => EpochInv
<1> SUFFICES ASSUME Init PROVE EpochInv
  OBVIOUS
<1>1. AcceptedSet = {} /\ IssuedSet = {}
  BY DEF Init, AcceptedSet, IssuedSet, Accepted
<1>2. \A d, e : Holding(d, e) = {}
  BY <1>1, HoldingSets
<1>3. \A d \in Domain : \A e : Outstanding(d, e) = 0
  BY DEF Init, Outstanding, EmptyBag, SetToBag
<1>4. CountsInv
  BY <1>2, <1>3, FS_EmptySet DEF CountsInv
<1> QED
  BY <1>1, <1>4 DEF EpochInv, AssignInv, IssueInv, AloneInv, Init

(* A transaction that is accepted starts to hold the open epoch.            *)
LEMMA CountsAccepting ==
    ASSUME TypeOK, PlacesInv, CountsInv, UNCHANGED request, NEW t \in Ids, Accepting(t)
    PROVE  CountsInv'
<1> DEFINE c == epochToAssign[Dom(t)]
<1>1. /\ Dom(t) \in Domain /\ c \in Nat /\ epoch \in [Ids -> Nat]
      /\ DOMAIN epochOutstanding = Domain /\ IsABag(epochOutstanding[Dom(t)])
  BY EpochTypes
<1>2. \A u : Dom(u)' = Dom(u)
  BY RequestOperators
<1>3. t \notin DoneSet /\ t \notin AcceptedSet /\ AcceptedSet \subseteq Ids
  BY SetsOfPlaces DEF Accepting
<1>4. \A u \in Ids : epoch'[u] = IF u = t THEN c ELSE epoch[u]
  BY <1>1 DEF Accepting
<1>5. \A d, e : Holding(d, e)' =
        {u \in AcceptedSet' \ DoneSet' : Dom(u)' = d /\ epoch'[u] = e}
  BY DEF Holding, AcceptedSet, DoneSet
<1>6. \A d, e : d = Dom(t) /\ e = c => Holding(d, e)' = Holding(d, e) \cup {t}
  BY <1>2, <1>3, <1>4, <1>5, HoldingSets DEF Accepting
<1>7. \A d, e : d # Dom(t) \/ e # c => Holding(d, e)' = Holding(d, e)
  BY <1>2, <1>3, <1>4, <1>5, HoldingSets DEF Accepting
<1>8. /\ epochOutstanding'[Dom(t)] = BagAdd(epochOutstanding[Dom(t)], c)
      /\ \A d \in Domain : d # Dom(t) => epochOutstanding'[d] = epochOutstanding[d]
  BY <1>1 DEF Accepting
<1>9. \A d, e : Outstanding(d, e)' = Count(epochOutstanding'[d], e)
  BY DEF Outstanding, Count
<1>10. /\ \A d, e : d = Dom(t) /\ e = c => Outstanding(d, e)' = Outstanding(d, e) + 1
       /\ \A d \in Domain : \A e : d # Dom(t) \/ e # c =>
            Outstanding(d, e)' = Outstanding(d, e)
  BY <1>1, <1>8, <1>9, EpochTypes, BagAddCount
<1>11. \A d, e : Cardinality(Holding(d, e) \cup {t}) = Cardinality(Holding(d, e)) + 1
  <2>1. \A d, e : IsFiniteSet(Holding(d, e)) /\ t \notin Holding(d, e)
    BY <1>3, HoldingSets
  <2> QED
    BY <2>1, FS_AddElement
<1> SUFFICES ASSUME NEW d \in Domain, NEW e \in Nat
             PROVE  Outstanding(d, e)' = Cardinality(Holding(d, e)')
  BY DEF CountsInv
<1>12. Outstanding(d, e) = Cardinality(Holding(d, e))
  BY DEF CountsInv
<1>13. CASE d = Dom(t) /\ e = c
  <2>1. /\ Outstanding(d, e)' = Outstanding(d, e) + 1
        /\ Holding(d, e)' = Holding(d, e) \cup {t}
    BY <1>6, <1>10, <1>13
  <2> QED
    BY <2>1, <1>11, <1>12
<1>14. CASE d # Dom(t) \/ e # c
  <2>1. Outstanding(d, e)' = Outstanding(d, e) /\ Holding(d, e)' = Holding(d, e)
    BY <1>7, <1>10, <1>14
  <2> QED
    BY <2>1, <1>12
<1> QED
  BY <1>13, <1>14

(* A transaction that is done stops to hold its epoch.                      *)
LEMMA CountsClosing ==
    ASSUME TypeOK, PlacesInv, CountsInv, UNCHANGED request, NEW t \in Ids,
           t \in AcceptedSet \ DoneSet,
           AcceptedSet' = AcceptedSet, DoneSet' = DoneSet \cup {t},
           CompleteEpochAndAdvance(t)
    PROVE  CountsInv'
<1> DEFINE c == epoch[t]
<1>1. /\ Dom(t) \in Domain /\ c \in Nat
      /\ DOMAIN epochOutstanding = Domain /\ IsABag(epochOutstanding[Dom(t)])
  BY EpochTypes
<1>2. (\A u : Dom(u)' = Dom(u)) /\ epoch' = epoch
  BY RequestOperators DEF CompleteEpochAndAdvance
<1>3. \A d, e : Holding(d, e)' =
        {u \in AcceptedSet' \ DoneSet' : Dom(u)' = d /\ epoch'[u] = e}
  BY DEF Holding, AcceptedSet, DoneSet
<1>4. /\ \A d, e : d = Dom(t) /\ e = c => Holding(d, e)' = Holding(d, e) \ {t}
      /\ t \in Holding(Dom(t), c)
  BY <1>2, <1>3, HoldingSets
<1>5. \A d, e : d # Dom(t) \/ e # c => Holding(d, e)' = Holding(d, e)
  BY <1>2, <1>3, HoldingSets
<1>6. /\ Cardinality(Holding(Dom(t), c) \ {t}) = Cardinality(Holding(Dom(t), c)) - 1
      /\ Cardinality(Holding(Dom(t), c)) \in Nat
      /\ Cardinality(Holding(Dom(t), c)) # 0
  <2> DEFINE H == Holding(Dom(t), c)
  <2>1. IsFiniteSet(H) /\ t \in H /\ H # {}
    BY <1>4, HoldingSets
  <2> HIDE DEF H
  <2>2. Cardinality(H \ {t}) = Cardinality(H) - 1
    BY <2>1, FS_RemoveElement
  <2>3. Cardinality(H) \in Nat /\ Cardinality(H) # 0
    BY <2>1, FS_CardinalityType, FS_EmptySet
  <2> QED
    BY <2>2, <2>3 DEF H
<1>7. Count(epochOutstanding[Dom(t)], c) > 0
  BY <1>1, <1>6, EpochTypes DEF CountsInv
<1>8. /\ epochOutstanding'[Dom(t)] = BagRemove(epochOutstanding[Dom(t)], c)
      /\ \A d \in Domain : d # Dom(t) => epochOutstanding'[d] = epochOutstanding[d]
  BY <1>1 DEF CompleteEpochAndAdvance
<1>9. \A d, e : Outstanding(d, e)' = Count(epochOutstanding'[d], e)
  BY DEF Outstanding, Count
<1>10. /\ \A d, e : d = Dom(t) /\ e = c => Outstanding(d, e)' = Outstanding(d, e) - 1
       /\ \A d \in Domain : \A e : d # Dom(t) \/ e # c =>
            Outstanding(d, e)' = Outstanding(d, e)
  BY <1>1, <1>7, <1>8, <1>9, EpochTypes, BagRemoveCount
<1> SUFFICES ASSUME NEW d \in Domain, NEW e \in Nat
             PROVE  Outstanding(d, e)' = Cardinality(Holding(d, e)')
  BY DEF CountsInv
<1>11. Outstanding(d, e) = Cardinality(Holding(d, e))
  BY DEF CountsInv
<1>12. CASE d = Dom(t) /\ e = c
  <2>1. /\ Outstanding(d, e)' = Outstanding(d, e) - 1
        /\ Holding(d, e)' = Holding(d, e) \ {t}
    BY <1>4, <1>10, <1>12
  <2>2. Cardinality(Holding(d, e) \ {t}) = Cardinality(Holding(d, e)) - 1
    BY <1>6, <1>12
  <2> QED
    BY <2>1, <2>2, <1>11
<1>13. CASE d # Dom(t) \/ e # c
  <2>1. Outstanding(d, e)' = Outstanding(d, e) /\ Holding(d, e)' = Holding(d, e)
    BY <1>5, <1>10, <1>13
  <2> QED
    BY <2>1, <1>11
<1> QED
  BY <1>12, <1>13
-----------------------------------------------------------------------------
(* A step that changes neither who holds which epoch nor the maps.          *)
LEMMA CountsFrame ==
    ASSUME CountsInv, UNCHANGED <<request, epoch, epochOutstanding>>,
           AcceptedSet' = AcceptedSet, DoneSet' = DoneSet
    PROVE  CountsInv'
<1>1. \A u : Dom(u)' = Dom(u)
  BY RequestOperators
<1>2. \A d, e : Holding(d, e)' =
        {u \in AcceptedSet' \ DoneSet' : Dom(u)' = d /\ epoch'[u] = e}
  BY DEF Holding, AcceptedSet, DoneSet
<1>3. \A d, e : Holding(d, e)' = Holding(d, e) /\ Outstanding(d, e)' = Outstanding(d, e)
  BY <1>1, <1>2, HoldingSets DEF Outstanding
<1> QED
  BY <1>3 DEF CountsInv

(* What the count of one tells a barrier: nobody else holds its epoch.      *)
LEMMA LastOfEpoch ==
    ASSUME TypeOK, CountsInv, NEW t \in AcceptedSet \ DoneSet, bar[t],
           CanIssueEpochBarrier(t)
    PROVE  \A u \in AcceptedSet \ DoneSet :
                Dom(u) = Dom(t) /\ epoch[u] = epoch[t] => u = t
<1> DEFINE H == Holding(Dom(t), epoch[t])
<1>1. t \in Ids
  BY DEF AcceptedSet
<1>2. Cardinality(H) = 1
  BY <1>1, EpochTypes DEF CanIssueEpochBarrier, CountsInv
<1>3. IsFiniteSet(H) /\ t \in H
  BY HoldingSets
<1>4. \A u \in AcceptedSet \ DoneSet : Dom(u) = Dom(t) /\ epoch[u] = epoch[t] => u \in H
  BY HoldingSets
<1> HIDE DEF H
<1>5. PICK x : H = {x}
  BY <1>2, <1>3, FS_Singleton
<1> QED
  BY <1>3, <1>4, <1>5

LEMMA QuietNext ==
    ASSUME EpochInv, UNCHANGED request, Quiet
    PROVE  EpochInv'
<1>1. \A u : Dom(u)' = Dom(u)
  BY RequestOperators
<1>2. CountsInv'
  BY CountsFrame DEF EpochInv, Quiet, epochVars
<1>3. AssignInv' /\ IssueInv' /\ AloneInv'
  BY <1>1 DEF EpochInv, Quiet, epochVars, AssignInv, IssueInv, AloneInv
<1> QED
  BY <1>2, <1>3 DEF EpochInv

LEMMA AcceptingNext ==
    ASSUME TypeOK, PlacesInv, EpochInv, UNCHANGED request, NEW t \in Ids, Accepting(t)
    PROVE  EpochInv'
<1> USE DEF EpochInv
<1> DEFINE a == epochToAssign[Dom(t)]
<1>1. \A u : Dom(u)' = Dom(u)
  BY RequestOperators
<1>2. /\ \A u \in Ids : Dom(u) \in Domain /\ epoch[u] \in Nat /\ bar[u] \in BOOLEAN
      /\ epoch \in [Ids -> Nat] /\ epochToAssign \in [Domain -> Nat]
      /\ epochToIssue \in [Domain -> Nat]
  BY EpochTypes
<1>3. /\ t \notin AcceptedSet /\ t \notin IssuedSet /\ t \notin DoneSet
      /\ AcceptedSet \subseteq Ids /\ IssuedSet \subseteq AcceptedSet
  BY SetsOfPlaces DEF Accepting
<1>4. /\ AcceptedSet' = AcceptedSet \cup {t}
      /\ IssuedSet' = IssuedSet /\ DoneSet' = DoneSet
      /\ bar' = bar /\ epochToIssue' = epochToIssue
  BY DEF Accepting
<1>5. epoch'[t] = a /\ \A u \in Ids : u # t => epoch'[u] = epoch[u]
  BY <1>2 DEF Accepting
<1>6. /\ epochToAssign'[Dom(t)] = IF bar[t] THEN a + 1 ELSE a
      /\ \A d \in Domain : epochToAssign'[d] >= epochToAssign[d]
      /\ \A d \in Domain : epochToAssign'[d] \in Nat
  BY <1>2 DEF Accepting
<1>7. CountsInv'
  BY CountsAccepting
<1>8. AssignInv'
  <2>1. ASSUME NEW u \in AcceptedSet
        PROVE  /\ epoch'[u] <= epochToAssign'[Dom(u)]
               /\ bar[u] => epoch'[u] < epochToAssign'[Dom(u)]
    BY <1>2, <1>3, <1>5, <1>6 DEF AssignInv
  <2>2. /\ epoch'[t] <= epochToAssign'[Dom(t)]
        /\ bar[t] => epoch'[t] < epochToAssign'[Dom(t)]
    BY <1>2, <1>5, <1>6
  <2> QED
    BY <2>1, <2>2, <1>1, <1>4 DEF AssignInv
<1>9. IssueInv'
  <2>1. \A d \in Domain : epochToIssue[d] <= epochToAssign'[d]
    BY <1>2, <1>6 DEF IssueInv
  <2>2. \A u \in AcceptedSet \ DoneSet : epochToIssue[Dom(u)] <= epoch'[u]
    BY <1>3, <1>5 DEF IssueInv
  <2>3. epochToIssue[Dom(t)] <= epoch'[t]
    BY <1>2, <1>5 DEF IssueInv
  <2>4. \A u \in IssuedSet : epoch'[u] <= epochToIssue[Dom(u)]
    BY <1>3, <1>5 DEF IssueInv
  <2> QED
    BY <2>1, <2>2, <2>3, <2>4, <1>1, <1>4 DEF IssueInv
<1>10. AloneInv'
  <2>1. ASSUME NEW b \in IssuedSet \ DoneSet, bar[b],
               NEW u \in (AcceptedSet \cup {t}) \ DoneSet,
               Dom(u) = Dom(b), epoch'[u] = epoch'[b]
        PROVE  u = b
    <3>1. b \in Ids /\ b # t /\ epoch'[b] = epoch[b] /\ epoch[b] < epochToAssign[Dom(b)]
      BY <1>3, <1>5, <2>1 DEF AssignInv
    <3>2. u # t
      BY <3>1, <2>1, <1>2, <1>5
    <3> QED
      BY <3>1, <3>2, <2>1, <1>3, <1>5 DEF AloneInv
  <2> QED
    BY <2>1, <1>1, <1>4 DEF AloneInv
<1> QED
  BY <1>7, <1>8, <1>9, <1>10

LEMMA MarkingNext ==
    ASSUME TypeOK, PlacesInv, EpochInv, UNCHANGED request, NEW t \in Ids, Marking(t)
    PROVE  EpochInv'
<1> USE DEF EpochInv
<1>1. \A u : Dom(u)' = Dom(u)
  BY RequestOperators
<1>2. /\ \A u \in Ids : Dom(u) \in Domain /\ epoch[u] \in Nat
      /\ bar \in [Ids -> BOOLEAN] /\ epochToAssign \in [Domain -> Nat]
      /\ epochToIssue \in [Domain -> Nat]
  BY EpochTypes
<1>3. AcceptedSet \subseteq Ids /\ IssuedSet \subseteq AcceptedSet
  BY SetsOfPlaces
<1>4. /\ AcceptedSet' = AcceptedSet /\ IssuedSet' = IssuedSet /\ DoneSet' = DoneSet
      /\ UNCHANGED <<epoch, epochToIssue, epochOutstanding>>
      /\ \A u \in Ids : u # t => bar'[u] = bar[u]
      /\ t \notin IssuedSet
  BY <1>2, <1>3 DEF Marking
<1>5. /\ \A d \in Domain : epochToAssign'[d] \in Nat /\ epochToAssign'[d] >= epochToAssign[d]
      /\ t \in AcceptedSet => epochToAssign'[Dom(t)] = epochToAssign[Dom(t)] + 1
  BY <1>2 DEF Marking
<1>6. CountsInv'
  BY <1>4, CountsFrame
<1>7. AssignInv'
  <2>1. ASSUME NEW u \in AcceptedSet
        PROVE  /\ epoch[u] <= epochToAssign'[Dom(u)]
               /\ bar'[u] => epoch[u] < epochToAssign'[Dom(u)]
    <3>1. /\ u \in Ids /\ epoch[u] <= epochToAssign[Dom(u)]
          /\ bar[u] => epoch[u] < epochToAssign[Dom(u)]
      BY <1>3 DEF AssignInv
    <3>2. CASE u = t
      BY <3>1, <3>2, <1>2, <1>5
    <3>3. CASE u # t
      BY <3>1, <3>3, <1>2, <1>4, <1>5
    <3> QED
      BY <3>2, <3>3
  <2> QED
    BY <2>1, <1>1, <1>4 DEF AssignInv
<1>8. IssueInv'
  <2>1. \A d \in Domain : epochToIssue[d] <= epochToAssign'[d]
    BY <1>2, <1>5 DEF IssueInv
  <2> QED
    BY <2>1, <1>1, <1>4 DEF IssueInv
<1>9. AloneInv'
  <2>1. \A u \in IssuedSet : bar'[u] = bar[u]
    BY <1>3, <1>4
  <2> QED
    BY <2>1, <1>1, <1>4 DEF AloneInv
<1> QED
  BY <1>6, <1>7, <1>8, <1>9
(* completeEpochAndAdvance, for a transaction of the issuing epoch.         *)
LEMMA ClosingNext ==
    ASSUME TypeOK, PlacesInv, EpochInv, UNCHANGED <<request, bar>>,
           NEW t \in AcceptedSet \ DoneSet, epoch[t] = epochToIssue[Dom(t)],
           bar[t] => \A u \in AcceptedSet \ DoneSet :
                        Dom(u) = Dom(t) /\ epoch[u] = epoch[t] => u = t,
           AcceptedSet' = AcceptedSet, IssuedSet' = IssuedSet \cup {t},
           DoneSet' = DoneSet \cup {t}, CompleteEpochAndAdvance(t)
    PROVE  EpochInv'
<1> USE DEF EpochInv
<1>1. \A u : Dom(u)' = Dom(u)
  BY RequestOperators
<1>2. AcceptedSet \subseteq Ids /\ IssuedSet \subseteq AcceptedSet /\ t \in Ids
  BY SetsOfPlaces
<1>3. /\ \A u \in Ids : Dom(u) \in Domain /\ epoch[u] \in Nat /\ bar[u] \in BOOLEAN
      /\ epochToAssign \in [Domain -> Nat] /\ epochToIssue \in [Domain -> Nat]
  BY EpochTypes
<1>4. /\ UNCHANGED <<epoch, epochToAssign>>
      /\ epochToIssue'[Dom(t)] =
            IF bar[t] THEN epochToIssue[Dom(t)] + 1 ELSE epochToIssue[Dom(t)]
      /\ \A d \in Domain : d # Dom(t) => epochToIssue'[d] = epochToIssue[d]
  BY <1>2, <1>3 DEF CompleteEpochAndAdvance
<1>5. CountsInv'
  BY <1>2, CountsClosing
<1>6. AssignInv'
  BY <1>1, <1>4 DEF AssignInv
<1>7. IssueInv'
  <2>1. ASSUME NEW d \in Domain PROVE epochToIssue'[d] <= epochToAssign[d]
    <3>1. bar[t] => epochToIssue[Dom(t)] < epochToAssign[Dom(t)]
      BY DEF AssignInv
    <3> QED
      BY <3>1, <1>2, <1>3, <1>4 DEF IssueInv
  <2>2. ASSUME NEW u \in AcceptedSet \ DoneSet, u # t
        PROVE  epochToIssue'[Dom(u)] <= epoch[u]
    <3>1. u \in Ids /\ Dom(u) \in Domain /\ epochToIssue[Dom(u)] <= epoch[u]
      BY <1>2, <1>3 DEF IssueInv
    <3>2. bar[t] /\ Dom(u) = Dom(t) => epochToIssue[Dom(u)] # epoch[u]
      BY <2>2
    <3> QED
      BY <3>1, <3>2, <1>3, <1>4
  <2>3. ASSUME NEW u \in IssuedSet \cup {t} PROVE epoch[u] <= epochToIssue'[Dom(u)]
    <3>1. u \in Ids /\ Dom(u) \in Domain /\ epoch[u] <= epochToIssue[Dom(u)]
      BY <1>2, <1>3 DEF IssueInv
    <3> QED
      BY <3>1, <1>3, <1>4
  <2> QED
    BY <2>1, <2>2, <2>3, <1>1, <1>4 DEF IssueInv
<1>8. AloneInv'
  BY <1>1, <1>4 DEF AloneInv
<1> QED
  BY <1>5, <1>6, <1>7, <1>8

LEMMA IssuingNext ==
    ASSUME TypeOK, PlacesInv, EpochInv, UNCHANGED request, NEW t \in Ids, Issuing(t)
    PROVE  EpochInv'
<1> USE DEF EpochInv
<1>1. \A u : Dom(u)' = Dom(u)
  BY RequestOperators
<1>2. t \in AcceptedSet \ DoneSet /\ AcceptedSet \subseteq Ids
  BY SetsOfPlaces DEF Issuing
<1>3. bar[t] => \A u \in AcceptedSet \ DoneSet :
                    Dom(u) = Dom(t) /\ epoch[u] = epoch[t] => u = t
  BY <1>2, LastOfEpoch DEF Issuing
<1>4. /\ epoch[t] = epochToIssue[Dom(t)] /\ bar' = bar
      /\ AcceptedSet' = AcceptedSet /\ IssuedSet' = IssuedSet \cup {t}
  BY DEF Issuing
<1>5. CASE DoneSet' = DoneSet \cup {t} /\ CompleteEpochAndAdvance(t)
  BY <1>2, <1>3, <1>4, <1>5, ClosingNext
<1>6. CASE DoneSet' = DoneSet /\ UNCHANGED epochVars
  <2>1. UNCHANGED <<epoch, epochToAssign, epochToIssue, epochOutstanding>>
    BY <1>6 DEF epochVars
  <2>2. CountsInv'
    BY <2>1, <1>4, <1>6, CountsFrame
  <2>3. AssignInv'
    BY <2>1, <1>1, <1>4 DEF AssignInv
  <2>4. IssueInv'
    <3>1. \A u \in IssuedSet \cup {t} : epoch[u] <= epochToIssue[Dom(u)]
      BY <1>2, <1>4, EpochTypes DEF IssueInv
    <3> QED
      BY <3>1, <2>1, <1>1, <1>4, <1>6 DEF IssueInv
  <2>5. AloneInv'
    BY <2>1, <1>1, <1>3, <1>4, <1>6 DEF AloneInv
  <2> QED
    BY <2>2, <2>3, <2>4, <2>5
<1> QED
  BY <1>5, <1>6 DEF Issuing

LEMMA CompletingNext ==
    ASSUME TypeOK, PlacesInv, EpochInv, UNCHANGED request, NEW t \in Ids, Completing(t)
    PROVE  EpochInv'
<1> USE DEF EpochInv
<1>1. t \in AcceptedSet \ DoneSet /\ t \in IssuedSet
  BY SetsOfPlaces DEF Completing
<1>2. epoch[t] = epochToIssue[Dom(t)]
  BY <1>1, EpochTypes DEF IssueInv
<1>3. bar[t] => \A u \in AcceptedSet \ DoneSet :
                    Dom(u) = Dom(t) /\ epoch[u] = epoch[t] => u = t
  BY <1>1 DEF AloneInv
<1>4. /\ bar' = bar /\ AcceptedSet' = AcceptedSet /\ IssuedSet' = IssuedSet \cup {t}
      /\ DoneSet' = DoneSet \cup {t} /\ CompleteEpochAndAdvance(t)
  BY <1>1 DEF Completing
<1> QED
  BY <1>1, <1>2, <1>3, <1>4, ClosingNext

LEMMA EpochNext == TypeOK /\ PlacesInv /\ EpochInv /\ [Next]_vars => EpochInv'
  BY EffectOfNext, QuietNext, AcceptingNext, MarkingNext, IssuingNext, CompletingNext
     DEF Effect, Progress

LEMMA EpochInductive == Spec => [](TypeOK /\ PlacesInv /\ EpochInv)
<1>1. Spec => []TypeOK
  BY TypeCorrect
<1>2. Init => PlacesInv /\ EpochInv
  BY PlacesInit, EpochInit
<1>3. TypeOK /\ PlacesInv /\ EpochInv /\ [Next]_vars => (PlacesInv /\ EpochInv)'
  BY PlacesNext, EpochNext
<1> QED
  BY <1>1, <1>2, <1>3, PTL DEF Spec

(* logicEpochOutstanding_ and bankEpochOutstanding_ count exactly the        *)
(* transactions that hold each epoch open, although addTransaction, the      *)
(* issue of a read and the two completions of a write keep them up           *)
(* separately.                                                              *)
THEOREM CountsAreExact == Spec => []OutstandingExact
<1>1. TypeOK /\ EpochInv => OutstandingExact
  BY EpochTypes DEF EpochInv, CountsInv, OutstandingExact
<1> QED
  BY <1>1, EpochInductive, PTL

(* canIssueHierarchyCommand compares an epoch with epochToIssue at one       *)
(* moment; what it decides is not undone by a later acceptance, by a barrier *)
(* set on a waiting transaction or by a second barrier on an issued epoch.   *)
THEOREM IssuedEpochsAreClosed == Spec => []EpochsInOrder
<1>1. TypeOK /\ EpochInv => EpochsInOrder
  <2> SUFFICES ASSUME TypeOK, IssueInv, AloneInv, NEW t \in Ids, NEW u \in Ids,
                      Accepted(t), stage[u] = "issued", Dom(t) = Dom(u), ~EpochDone(t)
               PROVE  /\ epoch[u] <= epoch[t]
                      /\ bar[u] /\ ~EpochDone(u) /\ epoch[t] = epoch[u] => t = u
    BY DEF EpochInv, EpochsInOrder
  <2>1. t \in AcceptedSet \ DoneSet /\ u \in IssuedSet
    BY DEF AcceptedSet, DoneSet, IssuedSet
  <2>2. epochToIssue[Dom(t)] <= epoch[t] /\ epoch[u] <= epochToIssue[Dom(t)]
    BY <2>1 DEF IssueInv
  <2>3. epoch[u] <= epoch[t]
    BY <2>2, EpochTypes
  <2>4. bar[u] /\ ~EpochDone(u) /\ epoch[t] = epoch[u] => t = u
    BY <2>1 DEF AloneInv, DoneSet
  <2> QED
    BY <2>3, <2>4
<1> QED
  BY <1>1, EpochInductive, PTL
-----------------------------------------------------------------------------
LEMMA ContractInit == Init => Contract!Init
<1> SUFFICES ASSUME Init PROVE Contract!Init
  OBVIOUS
<1>1. \A t \in Ids : Dom(t) \in Domain
  BY TypeInit, RequestFields DEF TypeOK
<1>2. [t \in Ids |-> Dom(t)] \in [Ids -> Domain]
  BY <1>1
<1>3. /\ {t \in Ids : bar[t]} = {} /\ {t \in Ids : Accepted(t)} = {}
      /\ {t \in Ids : stage[t] = "issued"} = {} /\ {t \in Ids : EpochDone(t)} = {}
  BY DEF Init, Accepted, EpochDone
<1>4. epochToAssign = [d \in Domain |-> 0] /\ epoch = [t \in Ids |-> 0]
  BY DEF Init
<1> QED
  BY <1>2, <1>3, <1>4 DEF Contract!Init

LEMMA ContractStep ==
    ASSUME TypeOK, PlacesInv, EpochInv, UNCHANGED request, Effect
    PROVE  [Contract!Next]_(Contract!vars)
<1> DEFINE dom == [t \in Ids |-> Dom(t)]
           marked == {t \in Ids : bar[t]}
<1>1. dom' = dom /\ \A u \in Ids : dom[u] = Dom(u)
  BY RequestOperators
<1>2. /\ DoneSet \subseteq IssuedSet /\ IssuedSet \subseteq AcceptedSet
      /\ AcceptedSet \subseteq Ids
  BY SetsOfPlaces
<1>3. bar \in [Ids -> BOOLEAN]
  BY EpochTypes
<1>4. CASE Quiet
  <2>1. UNCHANGED <<dom, epochToAssign, marked, epoch>>
    BY <1>1, <1>4 DEF Quiet, epochVars
  <2> QED
    BY <1>4, <2>1 DEF Quiet, Contract!vars, AcceptedSet, IssuedSet, DoneSet
<1>5. ASSUME NEW t \in Ids, Accepting(t) PROVE Contract!Accept(t)
  <2>1. marked' = marked /\ (t \in marked <=> bar[t])
    BY <1>5, <1>3 DEF Accepting
  <2>2. epochToAssign' =
          IF t \in marked THEN [epochToAssign EXCEPT ![dom[t]] = @ + 1] ELSE epochToAssign
    BY <1>1, <1>3, <1>5, <2>1, EpochTypes DEF Accepting
  <2>3. epoch' = [epoch EXCEPT ![t] = epochToAssign[dom[t]]]
    BY <1>1, <1>5 DEF Accepting
  <2>4. /\ t \notin AcceptedSet /\ AcceptedSet' = AcceptedSet \cup {t}
        /\ IssuedSet' = IssuedSet /\ DoneSet' = DoneSet
    BY <1>5 DEF Accepting
  <2> QED
    BY <1>1, <2>1, <2>2, <2>3, <2>4
       DEF Contract!Accept, AcceptedSet, IssuedSet, DoneSet
<1>6. ASSUME NEW t \in Ids, Marking(t) PROVE Contract!MarkEarly(t) \/ Contract!MarkAccepted(t)
  <2>1. marked' = marked \cup {t}
    BY <1>6, <1>3 DEF Marking
  <2>2. /\ AcceptedSet' = AcceptedSet /\ IssuedSet' = IssuedSet /\ DoneSet' = DoneSet
        /\ epoch' = epoch
        /\ \/ t \notin AcceptedSet /\ epochToAssign' = epochToAssign
           \/ /\ t \in AcceptedSet \ IssuedSet
              /\ epochToAssign' = [epochToAssign EXCEPT ![dom[t]] = @ + 1]
    BY <1>1, <1>6 DEF Marking
  <2> QED
    BY <1>1, <2>1, <2>2
       DEF Contract!MarkEarly, Contract!MarkAccepted, AcceptedSet, IssuedSet, DoneSet
<1>7. ASSUME NEW t \in Ids, Issuing(t) PROVE Contract!Start(t) \/ Contract!StartDone(t)
  <2>1. /\ t \in AcceptedSet \ IssuedSet /\ epoch[t] = epochToIssue[Dom(t)]
        /\ AcceptedSet' = AcceptedSet /\ IssuedSet' = IssuedSet \cup {t}
        /\ marked' = marked /\ UNCHANGED <<epoch, epochToAssign>>
        /\ DoneSet' = DoneSet \/ DoneSet' = DoneSet \cup {t}
    BY <1>7 DEF Issuing, epochVars, CompleteEpochAndAdvance
  <2>2. bar[t] => \A u \in AcceptedSet \ DoneSet :
                    Dom(u) = Dom(t) /\ epoch[u] = epoch[t] => u = t
    BY <1>2, <1>7, <2>1, LastOfEpoch DEF Issuing, EpochInv
  <2>3. \A u \in AcceptedSet \ DoneSet : Dom(u) = Dom(t) => ~(epoch[u] < epoch[t])
    BY <1>2, <2>1, EpochTypes DEF EpochInv, IssueInv
  <2>4. {u \in AcceptedSet \ DoneSet :
            /\ u # t /\ dom[u] = dom[t]
            /\ epoch[u] < epoch[t] \/ (t \in marked /\ epoch[u] = epoch[t])} = {}
    BY <1>1, <1>2, <2>2, <2>3
  <2>5. Contract!MayStart(t)
    BY <2>1, <2>4 DEF Contract!MayStart, Contract!Ahead, AcceptedSet, IssuedSet, DoneSet
  <2> QED
    BY <1>1, <2>1, <2>5
       DEF Contract!Start, Contract!StartDone, AcceptedSet, IssuedSet, DoneSet
<1>8. ASSUME NEW t \in Ids, Completing(t) PROVE Contract!Finish(t)
  <2>1. /\ t \in IssuedSet \ DoneSet /\ DoneSet' = DoneSet \cup {t}
        /\ AcceptedSet' = AcceptedSet /\ IssuedSet' = IssuedSet
        /\ marked' = marked /\ UNCHANGED <<epoch, epochToAssign>>
    BY <1>8 DEF Completing, CompleteEpochAndAdvance
  <2> QED
    BY <1>1, <2>1 DEF Contract!Finish, AcceptedSet, IssuedSet, DoneSet
<1> QED
  BY <1>4, <1>5, <1>6, <1>7, <1>8 DEF Effect, Progress, Contract!Next

(* The controller implements the contract of the epochs: with two counters  *)
(* and one map per source, over queues that let commands pass each other,   *)
(* canIssueHierarchyCommand never issues a command ahead of an older epoch, *)
(* nor a barrier ahead of the rest of its own epoch.                        *)
THEOREM ControllerImplementsContract == Spec => ImplementsContract
<1>1. TypeOK /\ PlacesInv /\ EpochInv /\ [Next]_vars => [Contract!Next]_(Contract!vars)
  BY EffectOfNext, ContractStep
<1> QED
  BY <1>1, ContractInit, EpochInductive, PTL DEF Spec, ImplementsContract, Contract!Spec
=============================================================================
