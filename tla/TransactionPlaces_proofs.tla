---------------------- MODULE TransactionPlaces_proofs ----------------------
(***************************************************************************)
(* Where the transactions of HierarchyFrontEnd are: "stage" agrees with the *)
(* queues, no queue holds a transaction twice, and what is on a bus has     *)
(* been issued and is not finished.  PlacesInv is inductive with the types  *)
(* (PlacesInit, PlacesNext); EpochOrder_proofs builds on it.                *)
(***************************************************************************)
EXTENDS HierarchyFrontEnd_proofs

(* Where transactions are.  "stage" follows a transaction through the       *)
(* queues, and no queue holds one twice.                                    *)
Holds(place, queue, where) ==
    /\ \A i \in 1 .. Len(queue) : place[queue[i]] = where
    /\ \A i, j \in 1 .. Len(queue) : queue[i] = queue[j] => i = j

InFlight(t) == stage[t] = "issued" /\ t \notin finished

QueuePlaces ==
    /\ \A t \in Ids : t > submitted => stage[t] = "none"
    /\ Holds(stage, pendingTransactions, "pending")
    /\ Holds(stage, transactionQueue, "queued")
    /\ \A r \in Route :
        /\ Holds(stage, commandQueue[r], "command")
        /\ \A i \in 1 .. Len(commandQueue[r]) : RouteOf(commandQueue[r][i]) = r

ReadPlaces ==
    /\ \A t \in finished : Op(t) # "READ" => stage[t] = "issued"
    /\ \A i \in 1 .. Len(pendingReadTransactions) : Op(pendingReadTransactions[i]) = "READ"

CommandBusPlaces ==
    outgoingCmdPacket # NoPacket =>
        /\ stage[outgoingCmdPacket] = "issued"
        /\ Op(outgoingCmdPacket) = "DIRECT" => outgoingCmdPacket \notin finished

DataBusPlaces ==
    /\ \A i \in 1 .. Len(writeDataToSend) :
        /\ InFlight(writeDataToSend[i])
        /\ Op(writeDataToSend[i]) = "WRITE"
        /\ writeDataToSend[i] # outgoingDataPacket
    /\ \A i, j \in 1 .. Len(writeDataToSend) :
        writeDataToSend[i] = writeDataToSend[j] => i = j
    /\ outgoingDataPacket # NoPacket =>
        InFlight(outgoingDataPacket) /\ Op(outgoingDataPacket) = "WRITE"

BusPlaces == CommandBusPlaces /\ DataBusPlaces

PlacesInv == QueuePlaces /\ ReadPlaces /\ BusPlaces
-----------------------------------------------------------------------------
LEMMA PlacesInit == Init => PlacesInv
<1> SUFFICES ASSUME Init PROVE PlacesInv
  OBVIOUS
<1>1. QueuePlaces
  BY DEF Init, QueuePlaces, Holds
<1>2. ReadPlaces /\ BusPlaces
  BY DEF Init, ReadPlaces, BusPlaces, CommandBusPlaces, DataBusPlaces, NoPacket
<1> QED
  BY <1>1, <1>2 DEF PlacesInv

(* Taking an element out of a queue, or adding one that was elsewhere.      *)
LEMMA HoldsRemoved ==
    ASSUME NEW f, NEW g, NEW s \in Seq(Ids), NEW i \in 1 .. Len(s), NEW where,
           Holds(f, s, where),
           \A u \in Ids : u # s[i] => g[u] = f[u]
    PROVE  Holds(g, RemoveAt(s, i), where)
<1> DEFINE k(j) == IF j < i THEN j ELSE j + 1
<1>1. /\ Len(RemoveAt(s, i)) = Len(s) - 1
      /\ \A j \in 1 .. Len(s) - 1 : RemoveAt(s, i)[j] = s[k(j)]
  BY RemoveAtProperties
<1>2. \A j \in 1 .. Len(s) - 1 : k(j) \in 1 .. Len(s) /\ k(j) # i
  BY LenProperties
<1>3. \A j \in 1 .. Len(s) - 1 : s[k(j)] # s[i]
  BY <1>2 DEF Holds
<1>4. \A j \in 1 .. Len(s) - 1 : g[s[k(j)]] = where
  BY <1>2, <1>3, ElementOfSeq DEF Holds
<1>5. \A j, m \in 1 .. Len(s) - 1 : s[k(j)] = s[k(m)] => j = m
  BY <1>2 DEF Holds
<1> QED
  BY <1>1, <1>4, <1>5 DEF Holds

LEMMA HoldsTail ==
    ASSUME NEW f, NEW g, NEW s \in Seq(Ids), s # <<>>, NEW where,
           Holds(f, s, where),
           \A u \in Ids : u # Head(s) => g[u] = f[u]
    PROVE  Holds(g, Tail(s), where)
<1>1. /\ Len(s) \in Nat /\ Len(s) >= 1 /\ Head(s) = s[1]
      /\ Len(Tail(s)) = Len(s) - 1
      /\ \A j \in 1 .. Len(s) - 1 : Tail(s)[j] = s[j + 1]
  BY LenProperties, EmptySeq, HeadTailProperties
<1>2. \A j \in 1 .. Len(s) - 1 : j + 1 \in 1 .. Len(s) /\ s[j + 1] # s[1]
  BY <1>1 DEF Holds
<1>3. \A j \in 1 .. Len(s) - 1 : g[s[j + 1]] = where
  BY <1>1, <1>2, ElementOfSeq DEF Holds
<1>4. \A j, m \in 1 .. Len(s) - 1 : s[j + 1] = s[m + 1] => j = m
  BY <1>1, <1>2 DEF Holds
<1> QED
  BY <1>1, <1>3, <1>4 DEF Holds

LEMMA HoldsAppended ==
    ASSUME NEW f, NEW g, NEW s \in Seq(Ids), NEW t \in Ids, NEW where,
           Holds(f, s, where),
           f[t] # where, g[t] = where,
           \A u \in Ids : u # t => g[u] = f[u]
    PROVE  Holds(g, Append(s, t), where)
<1>1. /\ Len(s) \in Nat /\ Len(Append(s, t)) = Len(s) + 1
      /\ Append(s, t)[Len(s) + 1] = t
      /\ \A j \in 1 .. Len(s) : Append(s, t)[j] = s[j]
  BY LenProperties, AppendProperties
<1>2. \A j \in 1 .. Len(s) : s[j] \in Ids /\ s[j] # t /\ g[s[j]] = where
  BY ElementOfSeq DEF Holds
<1>3. \A j \in 1 .. Len(s) + 1 : j # Len(s) + 1 => j \in 1 .. Len(s)
  BY <1>1
<1>4. \A j \in 1 .. Len(s) + 1 : g[Append(s, t)[j]] = where
  BY <1>1, <1>2, <1>3
<1>5. \A j, m \in 1 .. Len(s) + 1 : Append(s, t)[j] = Append(s, t)[m] => j = m
  BY <1>1, <1>2, <1>3 DEF Holds
<1> QED
  BY <1>1, <1>4, <1>5 DEF Holds

LEMMA HoldsKept ==
    ASSUME NEW f, NEW g, NEW s \in Seq(Ids), NEW t \in Ids, NEW where,
           Holds(f, s, where),
           f[t] # where,
           \A u \in Ids : u # t => g[u] = f[u]
    PROVE  Holds(g, s, where)
  BY ElementOfSeq DEF Holds

LEMMA HoldsElsewhere ==
    ASSUME NEW f, NEW g, NEW s \in Seq(Ids), NEW t \in Ids, NEW where,
           Holds(f, s, where),
           \A i \in 1 .. Len(s) : s[i] # t,
           \A u \in Ids : u # t => g[u] = f[u]
    PROVE  Holds(g, s, where)
  BY ElementOfSeq DEF Holds
-----------------------------------------------------------------------------
(* What a transaction asks for never changes.                               *)
LEMMA RequestFixed == [Next]_vars => UNCHANGED request
<1>1. Driver => UNCHANGED request
  BY DEF Driver, SubmitAccepted, SubmitPending, Submit, BarrierPending, BarrierQueued,
         Barrier, EnterRunPIM, LeaveRunPIM
<1>2. Update => UNCHANGED driverVars
  BY DEF Update, BeginUpdate, RankReturns, RankWaits, PullPending, PullNothing,
         CommandBusRead, CommandBusDirect, CommandBusOther, CommandBus,
         DataBusDone, DataBusBusy, WriteDataStarts, WriteDataWaits,
         PopCommand, PopNothing, EnqueueCommand, EnqueueNothing,
         ReturnReadData, ReturnNothing
<1> QED
  BY <1>1, <1>2 DEF Next, vars, driverVars

LEMMA RequestOperators ==
    ASSUME UNCHANGED request
    PROVE  \A t : Dom(t)' = Dom(t) /\ Op(t)' = Op(t) /\ Addr(t)' = Addr(t)
                 /\ RouteOf(t)' = RouteOf(t)
  BY DEF Dom, Op, Addr, RouteOf

(* What PlacesInv says of the ends of the queues.                           *)
LEMMA QueueFacts ==
    ASSUME TypeOK, QueuePlaces
    PROVE  /\ pendingTransactions \in Seq(Ids) /\ transactionQueue \in Seq(Ids)
           /\ \A r \in Route : commandQueue[r] \in Seq(Ids)
           /\ pendingTransactions # <<>> =>
                /\ Head(pendingTransactions) \in Ids
                /\ stage[Head(pendingTransactions)] = "pending"
                /\ Last(pendingTransactions) \in Ids
                /\ stage[Last(pendingTransactions)] = "pending"
           /\ transactionQueue # <<>> =>
                /\ Last(transactionQueue) \in Ids
                /\ stage[Last(transactionQueue)] = "queued"
<1>1. /\ pendingTransactions \in Seq(Ids) /\ transactionQueue \in Seq(Ids)
      /\ \A r \in Route : commandQueue[r] \in Seq(Ids)
  BY DEF TypeOK, QueueType
<1>2. \A s \in Seq(Ids) : s # <<>> =>
        /\ Len(s) \in Nat /\ 1 \in 1 .. Len(s) /\ Len(s) \in 1 .. Len(s)
        /\ Head(s) = s[1] /\ Last(s) = s[Len(s)]
        /\ s[1] \in Ids /\ s[Len(s)] \in Ids
  BY EmptySeq, LenProperties, HeadTailProperties, ElementOfSeq DEF Last
<1> QED
  BY <1>1, <1>2 DEF QueuePlaces, Holds

LEMMA QueuesNext == TypeOK /\ QueuePlaces /\ [Next]_vars => QueuePlaces'
<1> SUFFICES ASSUME TypeOK, QueuePlaces, [Next]_vars PROVE QueuePlaces'
  OBVIOUS
<1>r. \A u : RouteOf(u)' = RouteOf(u)
  BY RequestFixed, RequestOperators
<1>s. stage \in [Ids -> Stages]
  BY DEF TypeOK, TransactionType
<1>q. /\ pendingTransactions \in Seq(Ids) /\ transactionQueue \in Seq(Ids)
      /\ \A r \in Route : commandQueue[r] \in Seq(Ids)
  BY QueueFacts
<1>n. submitted \in Int /\ \A u \in Ids : u \in Int
  BY DEF TypeOK, DriverType, Ids
(* The queues that a moving transaction is not in.                          *)
<1>k. ASSUME NEW t \in Ids, \A u \in Ids : u # t => stage'[u] = stage[u]
      PROVE  /\ stage[t] # "pending" => Holds(stage', pendingTransactions, "pending")
             /\ stage[t] # "queued" => Holds(stage', transactionQueue, "queued")
             /\ stage[t] # "command" =>
                    \A r \in Route : Holds(stage', commandQueue[r], "command")
  <2>1. stage[t] # "pending" => Holds(stage', pendingTransactions, "pending")
    BY <1>k, <1>q, HoldsKept DEF QueuePlaces
  <2>2. stage[t] # "queued" => Holds(stage', transactionQueue, "queued")
    BY <1>k, <1>q, HoldsKept DEF QueuePlaces
  <2>3. ASSUME stage[t] # "command", NEW r \in Route
        PROVE  Holds(stage', commandQueue[r], "command")
    <3>1. commandQueue[r] \in Seq(Ids) /\ Holds(stage, commandQueue[r], "command")
      BY <1>q DEF QueuePlaces
    <3> QED
      BY <3>1, <2>3, <1>k, HoldsKept
  <2> QED
    BY <2>1, <2>2, <2>3
<1>1. ASSUME UNCHANGED <<submitted, stage, pendingTransactions, transactionQueue, commandQueue>>
      PROVE  QueuePlaces'
  BY <1>1, <1>r DEF QueuePlaces
<1>2. ASSUME NEW t \in Ids, Submit(t) PROVE stage[t] = "none"
  <2>1. t > submitted
    BY <1>2, <1>n DEF Submit
  <2> QED
    BY <2>1 DEF QueuePlaces
<1>3. ASSUME NEW t \in Ids, SubmitAccepted(t) PROVE QueuePlaces'
  <2>1. /\ stage[t] = "none" /\ stage' = [stage EXCEPT ![t] = "queued"]
        /\ transactionQueue' = Append(transactionQueue, t)
        /\ UNCHANGED <<pendingTransactions, commandQueue>>
    BY <1>2, <1>3 DEF SubmitAccepted, Submit, AddTransaction
  <2>2. stage'[t] = "queued" /\ \A u \in Ids : u # t => stage'[u] = stage[u]
    BY <2>1, <1>s
  <2>3. \A u \in Ids : u > submitted' => stage'[u] = "none"
    <3>1. \A u \in Ids : u > submitted' => u > submitted /\ u # t
      BY <1>3, <1>n DEF SubmitAccepted, Submit
    <3> QED
      BY <3>1, <2>2 DEF QueuePlaces
  <2>4. Holds(stage', transactionQueue', "queued")
    BY <2>1, <2>2, <1>q, HoldsAppended DEF QueuePlaces
  <2>5. Holds(stage', pendingTransactions', "pending")
    BY <2>1, <2>2, <1>k
  <2>6. \A r \in Route : Holds(stage', commandQueue'[r], "command")
    BY <2>1, <2>2, <1>k
  <2> QED
    BY <2>1, <2>3, <2>4, <2>5, <2>6, <1>r DEF QueuePlaces
<1>4. ASSUME NEW t \in Ids, SubmitPending(t) PROVE QueuePlaces'
  <2>1. /\ stage[t] = "none" /\ stage' = [stage EXCEPT ![t] = "pending"]
        /\ pendingTransactions' = Append(pendingTransactions, t)
        /\ UNCHANGED <<transactionQueue, commandQueue>>
    BY <1>2, <1>4 DEF SubmitPending, Submit
  <2>2. stage'[t] = "pending" /\ \A u \in Ids : u # t => stage'[u] = stage[u]
    BY <2>1, <1>s
  <2>3. \A u \in Ids : u > submitted' => stage'[u] = "none"
    <3>1. \A u \in Ids : u > submitted' => u > submitted /\ u # t
      BY <1>4, <1>n DEF SubmitPending, Submit
    <3> QED
      BY <3>1, <2>2 DEF QueuePlaces
  <2>4. Holds(stage', transactionQueue', "queued")
    BY <2>1, <2>2, <1>k
  <2>5. Holds(stage', pendingTransactions', "pending")
    BY <2>1, <2>2, <1>q, HoldsAppended DEF QueuePlaces
  <2>6. \A r \in Route : Holds(stage', commandQueue'[r], "command")
    BY <2>1, <2>2, <1>k
  <2> QED
    BY <2>1, <2>3, <2>4, <2>5, <2>6, <1>r DEF QueuePlaces
<1>5. CASE PullPending
  <2> DEFINE t == Head(pendingTransactions)
  <2>1. /\ t \in Ids /\ stage[t] = "pending" /\ stage' = [stage EXCEPT ![t] = "queued"]
        /\ pendingTransactions # <<>>
        /\ pendingTransactions' = Tail(pendingTransactions)
        /\ transactionQueue' = Append(transactionQueue, t)
        /\ UNCHANGED <<submitted, commandQueue>>
    BY <1>5, QueueFacts DEF PullPending, AddTransaction, driverVars
  <2>2. stage'[t] = "queued" /\ \A u \in Ids : u # t => stage'[u] = stage[u]
    BY <2>1, <1>s
  <2>3. \A u \in Ids : u > submitted' => stage'[u] = "none"
    BY <2>1, <2>2 DEF QueuePlaces
  <2>4. Holds(stage', transactionQueue', "queued")
    BY <2>1, <2>2, <1>q, HoldsAppended DEF QueuePlaces
  <2>5. Holds(stage', pendingTransactions', "pending")
    BY <2>1, <2>2, <1>q, HoldsTail DEF QueuePlaces
  <2>6. \A r \in Route : Holds(stage', commandQueue'[r], "command")
    BY <2>1, <2>2, <1>k
  <2> QED
    BY <2>1, <2>3, <2>4, <2>5, <2>6, <1>r DEF QueuePlaces
<1>6. ASSUME NEW t \in Ids, PopCommand(t) PROVE QueuePlaces'
  <2>1. PICK r \in Route : \E i \in DOMAIN commandQueue[r] :
          /\ commandQueue[r][i] = t
          /\ commandQueue' = [commandQueue EXCEPT ![r] = RemoveAt(@, i)]
    BY <1>6 DEF PopCommand, TakeCommand
  <2>2. PICK i \in 1 .. Len(commandQueue[r]) :
          /\ commandQueue[r][i] = t
          /\ commandQueue' = [commandQueue EXCEPT ![r] = RemoveAt(@, i)]
    BY <2>1, <1>q, LenProperties
  <2>3. /\ stage' = [stage EXCEPT ![t] = "issued"] /\ stage[t] = "command"
        /\ UNCHANGED <<submitted, pendingTransactions, transactionQueue>>
    BY <1>6, <2>2 DEF PopCommand, driverVars, QueuePlaces, Holds
  <2>4. stage'[t] = "issued" /\ \A u \in Ids : u # t => stage'[u] = stage[u]
    BY <2>3, <1>s
  <2>5. \A u \in Ids : u > submitted' => stage'[u] = "none"
    BY <2>3, <2>4 DEF QueuePlaces
  <2>6. /\ Holds(stage', transactionQueue', "queued")
        /\ Holds(stage', pendingTransactions', "pending")
    BY <2>3, <2>4, <1>k
  <2>7. commandQueue'[r] = RemoveAt(commandQueue[r], i)
    BY <2>2 DEF TypeOK, QueueType
  <2>8. \A q \in Route \ {r} : commandQueue'[q] = commandQueue[q]
    BY <2>2 DEF TypeOK, QueueType
  <2>9. Holds(stage', commandQueue'[r], "command")
    <3>1. Holds(stage, commandQueue[r], "command") /\ commandQueue[r] \in Seq(Ids)
      BY <1>q DEF QueuePlaces
    <3> QED
      BY <3>1, <2>2, <2>4, <2>7, HoldsRemoved
  <2>10. \A j \in 1 .. Len(commandQueue'[r]) : RouteOf(commandQueue'[r][j]) = r
    <3>1. \A j \in 1 .. Len(commandQueue[r]) - 1 :
            (IF j < i THEN j ELSE j + 1) \in 1 .. Len(commandQueue[r])
      BY <1>q, LenProperties
    <3>2. /\ Len(commandQueue'[r]) = Len(commandQueue[r]) - 1
          /\ \A j \in 1 .. Len(commandQueue[r]) - 1 :
                commandQueue'[r][j] = commandQueue[r][IF j < i THEN j ELSE j + 1]
      BY <1>q, <2>7, RemoveAtProperties
    <3> QED
      BY <3>1, <3>2 DEF QueuePlaces
  <2>11. ASSUME NEW q \in Route \ {r}
         PROVE  /\ Holds(stage', commandQueue'[q], "command")
                /\ \A j \in 1 .. Len(commandQueue'[q]) : RouteOf(commandQueue'[q][j]) = q
    <3>1. \A j \in 1 .. Len(commandQueue[q]) : commandQueue[q][j] # t
      BY <2>2 DEF QueuePlaces
    <3>2. Holds(stage', commandQueue[q], "command")
      BY <1>q, <3>1, <2>4, HoldsElsewhere DEF QueuePlaces
    <3> QED
      BY <3>2, <2>8 DEF QueuePlaces
  <2> QED
    BY <2>5, <2>6, <2>9, <2>10, <2>11, <1>r DEF QueuePlaces
<1>7. CASE EnqueueCommand
  <2>1. PICK i \in DOMAIN transactionQueue :
          /\ transactionQueue' = RemoveAt(transactionQueue, i)
          /\ commandQueue' = [commandQueue EXCEPT
                ![RouteOf(transactionQueue[i])] = Append(@, transactionQueue[i])]
          /\ stage' = [stage EXCEPT ![transactionQueue[i]] = "command"]
    BY <1>7 DEF EnqueueCommand
  <2> DEFINE t == transactionQueue[i]
             r == RouteOf(t)
  <2>2. /\ i \in 1 .. Len(transactionQueue) /\ t \in Ids /\ r \in Route
        /\ UNCHANGED <<submitted, pendingTransactions>>
    BY <1>7, <1>q, RequestFields, ElementOfSeq, LenProperties DEF EnqueueCommand, driverVars, TypeOK
  <2>3. stage[t] = "queued"
    BY <2>2 DEF QueuePlaces, Holds
  <2>4. stage'[t] = "command" /\ \A u \in Ids : u # t => stage'[u] = stage[u]
    BY <2>1, <2>2, <1>s
  <2>5. /\ commandQueue'[r] = Append(commandQueue[r], t)
        /\ \A q \in Route \ {r} : commandQueue'[q] = commandQueue[q]
    BY <2>1, <2>2 DEF TypeOK, QueueType
  <2>6. Holds(stage', transactionQueue', "queued")
    <3>1. Holds(stage, transactionQueue, "queued")
      BY DEF QueuePlaces
    <3> QED
      BY <1>q, <2>1, <2>2, <2>4, <3>1, HoldsRemoved
  <2> HIDE DEF t
  <2>7. \A u \in Ids : u > submitted' => stage'[u] = "none"
    BY <2>2, <2>3, <2>4 DEF QueuePlaces
  <2>8. Holds(stage', pendingTransactions', "pending")
    BY <2>2, <2>3, <2>4, <1>k
  <2>9. /\ Holds(stage', commandQueue'[r], "command")
        /\ \A j \in 1 .. Len(commandQueue'[r]) : RouteOf(commandQueue'[r][j]) = r
    <3>1. Holds(stage', Append(commandQueue[r], t), "command")
      BY <1>q, <2>2, <2>3, <2>4, HoldsAppended DEF QueuePlaces
    <3>2. \A j \in 1 .. Len(commandQueue[r]) + 1 :
            j \in 1 .. Len(commandQueue[r]) \/ j = Len(commandQueue[r]) + 1
      BY <1>q, <2>2, LenProperties
    <3>3. /\ Len(Append(commandQueue[r], t)) = Len(commandQueue[r]) + 1
          /\ Append(commandQueue[r], t)[Len(commandQueue[r]) + 1] = t
          /\ \A j \in 1 .. Len(commandQueue[r]) : Append(commandQueue[r], t)[j] = commandQueue[r][j]
      BY <1>q, <2>2, AppendProperties
    <3> QED
      BY <3>1, <3>2, <3>3, <2>2, <2>5 DEF QueuePlaces
  <2>10. ASSUME NEW q \in Route \ {r}
         PROVE  /\ Holds(stage', commandQueue'[q], "command")
                /\ \A j \in 1 .. Len(commandQueue'[q]) : RouteOf(commandQueue'[q][j]) = q
    <3>1. Holds(stage', commandQueue[q], "command")
      BY <2>2, <2>3, <2>4, <1>k
    <3> QED
      BY <3>1, <2>5 DEF QueuePlaces
  <2> QED
    BY <2>6, <2>7, <2>8, <2>9, <2>10, <1>r DEF QueuePlaces
<1>8. CASE BarrierPending \/ BarrierQueued \/ EnterRunPIM \/ LeaveRunPIM
  BY <1>1, <1>8 DEF BarrierPending, BarrierQueued, Barrier, EnterRunPIM, LeaveRunPIM,
                    queueVars
<1>9. CASE \/ BeginUpdate \/ RankReturns \/ RankWaits \/ PullNothing
           \/ CommandBusRead \/ CommandBusDirect \/ CommandBusOther
           \/ DataBusDone \/ DataBusBusy \/ WriteDataStarts \/ WriteDataWaits
           \/ PopNothing \/ EnqueueNothing \/ ReturnReadData \/ ReturnNothing
  <2>1. UNCHANGED <<driverVars, stage, queueVars>>
    BY <1>9 DEF BeginUpdate, RankReturns, RankWaits, PullNothing, CommandBusRead,
                CommandBusDirect, CommandBusOther, CommandBus, DataBusDone, DataBusBusy,
                WriteDataStarts, WriteDataWaits, PopNothing, EnqueueNothing,
                ReturnReadData, ReturnNothing
  <2> QED
    BY <1>1, <2>1 DEF driverVars, queueVars
<1>10. CASE UNCHANGED vars
  BY <1>1, <1>10 DEF vars, driverVars, queueVars
<1> QED
  BY <1>3, <1>4, <1>5, <1>6, <1>7, <1>8, <1>9, <1>10 DEF Next, Driver, Update

(* A command that has been issued is never taken back.                      *)
LEMMA IssuedStays ==
    ASSUME TypeOK, QueuePlaces, [Next]_vars
    PROVE  \A u \in Ids : stage[u] = "issued" => stage'[u] = "issued"
<1>s. stage \in [Ids -> Stages] /\ submitted \in Int /\ \A u \in Ids : u \in Int
  BY DEF TypeOK, TransactionType, DriverType, Ids
<1>1. ASSUME NEW t \in Ids, Submit(t) PROVE stage[t] = "none"
  <2>1. t > submitted
    BY <1>1, <1>s DEF Submit
  <2> QED
    BY <2>1 DEF QueuePlaces
<1>2. ASSUME NEW t \in Ids, SubmitAccepted(t) \/ SubmitPending(t)
      PROVE  \A u \in Ids : stage[u] = "issued" => stage'[u] = "issued"
  BY <1>1, <1>2, <1>s DEF SubmitAccepted, SubmitPending, AddTransaction
<1>3. CASE PullPending
  BY <1>3, <1>s, QueueFacts DEF PullPending, AddTransaction
<1>4. ASSUME NEW t \in Ids, PopCommand(t)
      PROVE  \A u \in Ids : stage[u] = "issued" => stage'[u] = "issued"
  BY <1>4, <1>s DEF PopCommand
<1>5. CASE EnqueueCommand
  <2>1. PICK i \in DOMAIN transactionQueue :
          stage' = [stage EXCEPT ![transactionQueue[i]] = "command"]
    BY <1>5 DEF EnqueueCommand
  <2>2. i \in 1 .. Len(transactionQueue)
    BY QueueFacts, LenProperties
  <2>3. stage[transactionQueue[i]] = "queued"
    BY <2>2 DEF QueuePlaces, Holds
  <2> QED
    BY <2>1, <2>3, <1>s
<1>6. CASE BarrierPending \/ BarrierQueued \/ EnterRunPIM \/ LeaveRunPIM
  BY <1>6 DEF BarrierPending, BarrierQueued, Barrier, EnterRunPIM, LeaveRunPIM
<1>7. CASE \/ BeginUpdate \/ RankReturns \/ RankWaits \/ PullNothing
           \/ CommandBusRead \/ CommandBusDirect \/ CommandBusOther
           \/ DataBusDone \/ DataBusBusy \/ WriteDataStarts \/ WriteDataWaits
           \/ PopNothing \/ EnqueueNothing \/ ReturnReadData \/ ReturnNothing
  BY <1>7 DEF BeginUpdate, RankReturns, RankWaits, PullNothing, CommandBusRead,
              CommandBusDirect, CommandBusOther, CommandBus, DataBusDone, DataBusBusy,
              WriteDataStarts, WriteDataWaits, PopNothing, EnqueueNothing,
              ReturnReadData, ReturnNothing
<1>8. CASE UNCHANGED vars
  BY <1>8 DEF vars
<1> QED
  BY <1>2, <1>3, <1>4, <1>5, <1>6, <1>7, <1>8 DEF Next, Driver, Update

(* What BusPlaces says of the packets on the two buses.                     *)
LEMMA BusFacts ==
    ASSUME TypeOK, BusPlaces
    PROVE  /\ NoPacket \notin Ids
           /\ writeDataToSend \in Seq(Ids)
           /\ outgoingCmdPacket # NoPacket => outgoingCmdPacket \in Ids
           /\ outgoingDataPacket # NoPacket => outgoingDataPacket \in Ids
           /\ finished \subseteq Ids
  BY DEF TypeOK, TransactionType, WriteType, NoPacket, Ids

LEMMA ReadsNext == TypeOK /\ PlacesInv /\ [Next]_vars => ReadPlaces'
<1> SUFFICES ASSUME TypeOK, PlacesInv, [Next]_vars PROVE ReadPlaces'
  OBVIOUS
<1> USE DEF PlacesInv
<1>o. \A u : Op(u)' = Op(u)
  BY RequestFixed, RequestOperators
<1>i. \A u \in Ids : stage[u] = "issued" => stage'[u] = "issued"
  BY IssuedStays
<1>p. pendingReadTransactions \in Seq(Ids)
  BY DEF TypeOK, ReadType
<1>f. finished \subseteq Ids
  BY DEF TypeOK, TransactionType
(* What is finished stays issued, and so is what finishes now.              *)
<1>1. ASSUME NEW t \in Ids, finished' = finished \cup {t},
             Op(t) # "READ" => stage[t] = "issued"
      PROVE  \A u \in finished' : Op(u)' # "READ" => stage'[u] = "issued"
  BY <1>1, <1>i, <1>o, <1>f DEF ReadPlaces
<1>2. ASSUME finished' = finished
      PROVE  \A u \in finished' : Op(u)' # "READ" => stage'[u] = "issued"
  BY <1>2, <1>i, <1>o, <1>f DEF ReadPlaces
<1>3. ASSUME pendingReadTransactions' = pendingReadTransactions
      PROVE  \A j \in 1 .. Len(pendingReadTransactions') :
                Op(pendingReadTransactions'[j]) = "READ"
  BY <1>3 DEF ReadPlaces
<1>4. ASSUME \A j \in 1 .. Len(pendingReadTransactions') :
                Op(pendingReadTransactions'[j]) = "READ"
      PROVE  \A j \in 1 .. Len(pendingReadTransactions') :
                Op(pendingReadTransactions[j])' = "READ"
  BY <1>4, <1>o
<1>5. CASE CommandBusDirect
  <2>1. /\ outgoingCmdPacket \in Ids /\ stage[outgoingCmdPacket] = "issued"
        /\ finished' = finished \cup {outgoingCmdPacket}
        /\ UNCHANGED pendingReadTransactions
    BY <1>5, BusFacts DEF CommandBusDirect, CommandBus, CallBack, BusPlaces,
                       CommandBusPlaces
  <2> QED
    BY <2>1, <1>1, <1>3, <1>4 DEF ReadPlaces
<1>6. CASE DataBusDone
  <2>1. /\ outgoingDataPacket \in Ids /\ stage[outgoingDataPacket] = "issued"
        /\ finished' = finished \cup {outgoingDataPacket}
        /\ UNCHANGED pendingReadTransactions
    BY <1>6, BusFacts DEF DataBusDone, CallBack, BusPlaces, DataBusPlaces, InFlight,
                       readVars
  <2> QED
    BY <2>1, <1>1, <1>3, <1>4 DEF ReadPlaces
<1>7. CASE ReturnReadData
  <2>1. PICK i \in DOMAIN pendingReadTransactions :
          /\ finished' = finished \cup {pendingReadTransactions[i]}
          /\ pendingReadTransactions' = RemoveAt(pendingReadTransactions, i)
    BY <1>7 DEF ReturnReadData, CallBack
  <2>2. /\ i \in 1 .. Len(pendingReadTransactions)
        /\ pendingReadTransactions[i] \in Ids /\ Op(pendingReadTransactions[i]) = "READ"
    BY <1>p, ElementOfSeq, LenProperties DEF ReadPlaces
  <2>3. /\ Len(pendingReadTransactions') = Len(pendingReadTransactions) - 1
        /\ \A j \in 1 .. Len(pendingReadTransactions) - 1 :
            pendingReadTransactions'[j] =
                pendingReadTransactions[IF j < i THEN j ELSE j + 1]
    BY <1>p, <2>1, <2>2, RemoveAtProperties
  <2>4. \A j \in 1 .. Len(pendingReadTransactions) - 1 :
          (IF j < i THEN j ELSE j + 1) \in 1 .. Len(pendingReadTransactions)
    BY <1>p, <2>2, LenProperties
  <2>5. \A j \in 1 .. Len(pendingReadTransactions') :
            Op(pendingReadTransactions'[j]) = "READ"
    BY <2>3, <2>4 DEF ReadPlaces
  <2> QED
    BY <2>1, <2>2, <2>5, <1>1, <1>4 DEF ReadPlaces
<1>8. CASE EnqueueCommand
  <2>1. finished' = finished
    BY <1>8 DEF EnqueueCommand, doneVars
  <2>2. PICK i \in DOMAIN transactionQueue :
          pendingReadTransactions' =
            IF Op(transactionQueue[i]) = "READ"
            THEN Append(pendingReadTransactions, transactionQueue[i])
            ELSE pendingReadTransactions
    BY <1>8 DEF EnqueueCommand
  <2>3. transactionQueue[i] \in Ids
    BY QueueFacts, ElementOfSeq, LenProperties
  <2>4. CASE Op(transactionQueue[i]) = "READ"
    <3> DEFINE t == transactionQueue[i]
               p == pendingReadTransactions
    <3>1. /\ Len(Append(p, t)) = Len(p) + 1 /\ Append(p, t)[Len(p) + 1] = t
          /\ \A j \in 1 .. Len(p) : Append(p, t)[j] = p[j]
      BY <1>p, <2>3, AppendProperties
    <3>2. \A j \in 1 .. Len(p) + 1 : j \in 1 .. Len(p) \/ j = Len(p) + 1
      BY <1>p, LenProperties
    <3>3. \A j \in 1 .. Len(p') : Op(p'[j]) = "READ"
      BY <3>1, <3>2, <2>2, <2>4 DEF ReadPlaces
    <3> QED
      BY <3>3, <2>1, <1>2, <1>4 DEF ReadPlaces
  <2>5. CASE Op(transactionQueue[i]) # "READ"
    BY <2>1, <2>2, <2>5, <1>2, <1>3, <1>4 DEF ReadPlaces
  <2> QED
    BY <2>4, <2>5
<1>9. CASE Driver
  <2>1. UNCHANGED <<finished, pendingReadTransactions>>
    BY <1>9 DEF Driver, SubmitAccepted, SubmitPending, Submit, AddTransaction,
                BarrierPending, BarrierQueued, Barrier, EnterRunPIM, LeaveRunPIM,
                readVars, doneVars
  <2> QED
    BY <2>1, <1>2, <1>3, <1>4 DEF ReadPlaces
<1>10. CASE \/ BeginUpdate \/ RankReturns \/ RankWaits \/ PullPending \/ PullNothing
            \/ CommandBusRead \/ CommandBusOther \/ DataBusBusy
            \/ WriteDataStarts \/ WriteDataWaits \/ (\E t \in Ids : PopCommand(t))
            \/ PopNothing \/ EnqueueNothing \/ ReturnNothing
  <2>1. UNCHANGED <<finished, pendingReadTransactions>>
    BY <1>10 DEF BeginUpdate, RankReturns, RankWaits, PullPending, PullNothing,
                 CommandBusRead, CommandBusOther, CommandBus, DataBusBusy,
                 WriteDataStarts, WriteDataWaits, PopCommand, PopNothing,
                 EnqueueNothing, ReturnNothing, readVars, doneVars
  <2> QED
    BY <2>1, <1>2, <1>3, <1>4 DEF ReadPlaces
<1>11. CASE UNCHANGED vars
  BY <1>11, <1>2, <1>3, <1>4 DEF ReadPlaces, vars, readVars, doneVars
<1> QED
  BY <1>5, <1>6, <1>7, <1>8, <1>9, <1>10, <1>11 DEF Next, Update

LEMMA BusesNext == TypeOK /\ PlacesInv /\ [Next]_vars => BusPlaces'
<1> SUFFICES ASSUME TypeOK, PlacesInv, [Next]_vars PROVE BusPlaces'
  OBVIOUS
<1> USE DEF PlacesInv, BusPlaces
<1> DEFINE w == writeDataToSend
<1>o. \A u : Op(u)' = Op(u)
  BY RequestFixed, RequestOperators
<1>i. \A u \in Ids : stage[u] = "issued" => stage'[u] = "issued"
  BY IssuedStays
<1>w. /\ w \in Seq(Ids) /\ Len(w) \in Nat /\ \A j \in 1 .. Len(w) : w[j] \in Ids
      /\ NoPacket \notin Ids
      /\ outgoingCmdPacket # NoPacket => outgoingCmdPacket \in Ids
      /\ outgoingDataPacket # NoPacket => outgoingDataPacket \in Ids
  BY BusFacts, ElementOfSeq, LenProperties
(* A step that finishes no write and leaves the write data alone.           *)
<1>1. ASSUME \A u \in Ids : Op(u) = "WRITE" /\ u \in finished' => u \in finished,
             UNCHANGED <<writeDataToSend, outgoingDataPacket>>
      PROVE  DataBusPlaces'
  <2>1. \A j \in 1 .. Len(w) : stage'[w[j]] = "issued" /\ w[j] \notin finished'
    BY <1>1, <1>i, <1>w DEF DataBusPlaces, InFlight
  <2>2. outgoingDataPacket # NoPacket =>
          stage'[outgoingDataPacket] = "issued" /\ outgoingDataPacket \notin finished'
    BY <1>1, <1>i, <1>w DEF DataBusPlaces, InFlight
  <2> QED
    BY <2>1, <2>2, <1>1, <1>o DEF DataBusPlaces, InFlight
(* A step that finishes no direct write and leaves the command bus alone.   *)
<1>2. ASSUME \A u \in Ids : Op(u) = "DIRECT" /\ u \in finished' => u \in finished,
             UNCHANGED outgoingCmdPacket
      PROVE  CommandBusPlaces'
  BY <1>2, <1>i, <1>o, <1>w DEF CommandBusPlaces
<1>3. ASSUME UNCHANGED <<finished, outgoingCmdPacket, writeDataToSend, outgoingDataPacket>>
      PROVE  BusPlaces'
  BY <1>1, <1>2, <1>3
<1>4. CASE CommandBusRead \/ CommandBusOther
  <2>1. /\ finished' = finished /\ outgoingCmdPacket' = NoPacket
        /\ UNCHANGED <<writeDataToSend, outgoingDataPacket>>
    BY <1>4 DEF CommandBusRead, CommandBusOther, CommandBus, doneVars, writeVars
  <2> QED
    BY <1>1, <2>1 DEF CommandBusPlaces
<1>5. CASE CommandBusDirect
  <2>1. /\ finished' = finished \cup {outgoingCmdPacket} /\ outgoingCmdPacket' = NoPacket
        /\ Op(outgoingCmdPacket) = "DIRECT"
        /\ UNCHANGED <<writeDataToSend, outgoingDataPacket>>
    BY <1>5 DEF CommandBusDirect, CommandBus, CallBack, writeVars
  <2> QED
    BY <1>1, <2>1 DEF CommandBusPlaces
<1>6. CASE ReturnReadData
  <2>1. PICK i \in DOMAIN pendingReadTransactions :
          finished' = finished \cup {pendingReadTransactions[i]}
    BY <1>6 DEF ReturnReadData, CallBack
  <2>2. Op(pendingReadTransactions[i]) = "READ"
    BY LenProperties DEF ReadPlaces, TypeOK, ReadType
  <2>3. UNCHANGED <<outgoingCmdPacket, writeDataToSend, outgoingDataPacket>>
    BY <1>6 DEF ReturnReadData, writeVars
  <2> QED
    BY <1>1, <1>2, <2>1, <2>2, <2>3
<1>7. CASE DataBusDone
  <2>1. /\ outgoingDataPacket # NoPacket /\ outgoingDataPacket' = NoPacket
        /\ finished' = finished \cup {outgoingDataPacket}
        /\ UNCHANGED <<outgoingCmdPacket, writeDataToSend>>
    BY <1>7 DEF DataBusDone, CallBack
  <2>2. Op(outgoingDataPacket) = "WRITE"
    BY <2>1 DEF DataBusPlaces
  <2>3. CommandBusPlaces'
    BY <1>2, <2>1, <2>2
  <2>4. \A j \in 1 .. Len(w) : stage'[w[j]] = "issued" /\ w[j] \notin finished'
    BY <2>1, <1>i, <1>w DEF DataBusPlaces, InFlight
  <2>5. DataBusPlaces'
    BY <2>1, <2>4, <1>o, <1>w DEF DataBusPlaces, InFlight
  <2> QED
    BY <2>3, <2>5
<1>8. CASE WriteDataStarts
  <2>1. /\ w # <<>> /\ outgoingDataPacket' = Head(w) /\ w' = Tail(w)
        /\ finished' = finished /\ UNCHANGED outgoingCmdPacket
    BY <1>8 DEF WriteDataStarts, doneVars
  <2>2. CommandBusPlaces'
    BY <1>2, <2>1
  <2>3. /\ Len(w) >= 1 /\ Head(w) = w[1] /\ Len(Tail(w)) = Len(w) - 1
        /\ \A j \in 1 .. Len(w) - 1 : Tail(w)[j] = w[j + 1]
    BY <2>1, <1>w, HeadTailProperties, EmptySeq
  <2>4. \A j \in 1 .. Len(w) :
          stage'[w[j]] = "issued" /\ w[j] \notin finished' /\ Op(w[j]) = "WRITE"
    BY <2>1, <1>i, <1>w DEF DataBusPlaces, InFlight
  <2>5. \A j \in 1 .. Len(w) - 1 : j + 1 \in 1 .. Len(w) /\ w[j + 1] # w[1]
    BY <2>3, <1>w DEF DataBusPlaces
  <2>6. \A j, m \in 1 .. Len(w) - 1 : w[j + 1] = w[m + 1] => j = m
    BY <2>3, <2>5, <1>w DEF DataBusPlaces
  <2>7. 1 \in 1 .. Len(w)
    BY <2>3, <1>w
  <2>8. /\ \A j \in 1 .. Len(w') :
            /\ stage'[w'[j]] = "issued" /\ w'[j] \notin finished'
            /\ Op(w'[j]) = "WRITE" /\ w'[j] # outgoingDataPacket'
        /\ \A j, m \in 1 .. Len(w') : w'[j] = w'[m] => j = m
    BY <2>1, <2>3, <2>4, <2>5, <2>6
  <2>9. /\ stage'[outgoingDataPacket'] = "issued" /\ outgoingDataPacket' \notin finished'
        /\ Op(outgoingDataPacket') = "WRITE"
    BY <2>1, <2>3, <2>4, <2>7
  <2>10. DataBusPlaces'
    BY <2>8, <2>9, <1>o DEF DataBusPlaces, InFlight
  <2> QED
    BY <2>2, <2>10
<1>9. ASSUME NEW t \in Ids, PopCommand(t) PROVE BusPlaces'
  <2>1. stage[t] = "command"
    <3>1. PICK r \in Route : \E i \in DOMAIN commandQueue[r] : commandQueue[r][i] = t
      BY <1>9 DEF PopCommand, TakeCommand
    <3>2. PICK i \in 1 .. Len(commandQueue[r]) : commandQueue[r][i] = t
      BY <3>1, QueueFacts, LenProperties
    <3> QED
      BY <3>2 DEF QueuePlaces, Holds
  <2>2. /\ stage'[t] = "issued" /\ outgoingCmdPacket' = t /\ finished' = finished
        /\ outgoingDataPacket' = outgoingDataPacket
        /\ w' = IF Op(t) = "WRITE" THEN Append(w, t) ELSE w
    BY <1>9 DEF PopCommand, IssueCommand, doneVars, TypeOK, TransactionType
  <2>3. Op(t) # "READ" => t \notin finished
    BY <2>1 DEF ReadPlaces
  <2>4. CommandBusPlaces'
    BY <2>2, <2>3, <1>o DEF CommandBusPlaces
  <2>5. CASE Op(t) # "WRITE"
    <3>1. finished' = finished /\ w' = w
      BY <2>2, <2>5
    <3> QED
      BY <1>1, <2>2, <2>4, <3>1
  <2>6. CASE Op(t) = "WRITE"
    <3>1. /\ Len(w') = Len(w) + 1 /\ w'[Len(w) + 1] = t
          /\ \A j \in 1 .. Len(w) : w'[j] = w[j]
      BY <2>2, <2>6, <1>w, AppendProperties
    <3>2. \A j \in 1 .. Len(w) + 1 : j \in 1 .. Len(w) \/ j = Len(w) + 1
      BY <1>w
    <3>3. t # outgoingDataPacket
      BY <2>1, <1>w DEF DataBusPlaces, InFlight
    <3>4. \A j \in 1 .. Len(w) :
            /\ stage'[w[j]] = "issued" /\ w[j] \notin finished' /\ w[j] # t
            /\ Op(w[j]) = "WRITE" /\ w[j] # outgoingDataPacket
      BY <2>1, <2>2, <1>i, <1>w DEF DataBusPlaces, InFlight
    <3>5. \A j \in 1 .. Len(w') :
            /\ stage'[w'[j]] = "issued" /\ w'[j] \notin finished'
            /\ Op(w'[j]) = "WRITE" /\ w'[j] # outgoingDataPacket'
      BY <2>2, <2>3, <2>6, <3>1, <3>2, <3>3, <3>4
    <3>6. \A j, m \in 1 .. Len(w') : w'[j] = w'[m] => j = m
      <4>1. \A j, m \in 1 .. Len(w) : w[j] = w[m] => j = m
        BY DEF DataBusPlaces
      <4> QED
        BY <3>1, <3>2, <3>4, <4>1
    <3>7. outgoingDataPacket' # NoPacket =>
            /\ stage'[outgoingDataPacket'] = "issued" /\ outgoingDataPacket' \notin finished'
            /\ Op(outgoingDataPacket') = "WRITE"
      BY <2>2, <1>i, <1>w DEF DataBusPlaces, InFlight
    <3>8. DataBusPlaces'
      BY <3>5, <3>6, <3>7, <1>o DEF DataBusPlaces, InFlight
    <3> QED
      BY <2>4, <3>8
  <2> QED
    BY <2>5, <2>6
<1>10. CASE Driver
  <2>1. UNCHANGED <<finished, outgoingCmdPacket, writeDataToSend, outgoingDataPacket>>
    BY <1>10 DEF Driver, SubmitAccepted, SubmitPending, Submit, AddTransaction,
                 BarrierPending, BarrierQueued, Barrier, EnterRunPIM, LeaveRunPIM,
                 writeVars, doneVars
  <2> QED
    BY <1>3, <2>1
<1>11. CASE \/ BeginUpdate \/ RankReturns \/ RankWaits \/ PullPending \/ PullNothing
            \/ DataBusBusy \/ WriteDataWaits \/ PopNothing
            \/ EnqueueCommand \/ EnqueueNothing \/ ReturnNothing
  <2>1. UNCHANGED <<finished, outgoingCmdPacket, writeDataToSend, outgoingDataPacket>>
    BY <1>11 DEF BeginUpdate, RankReturns, RankWaits, PullPending, PullNothing,
                 DataBusBusy, WriteDataWaits, PopNothing, EnqueueCommand,
                 EnqueueNothing, ReturnNothing, writeVars, doneVars
  <2> QED
    BY <1>3, <2>1
<1>12. CASE UNCHANGED vars
  BY <1>3, <1>12 DEF vars, writeVars, doneVars
<1> QED
  BY <1>4, <1>5, <1>6, <1>7, <1>8, <1>9, <1>10, <1>11, <1>12 DEF Next, Update

LEMMA PlacesNext == TypeOK /\ PlacesInv /\ [Next]_vars => PlacesInv'
  BY QueuesNext, ReadsNext, BusesNext DEF PlacesInv
=============================================================================
