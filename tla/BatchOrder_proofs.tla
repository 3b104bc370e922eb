-------------------------- MODULE BatchOrder_proofs --------------------------
(***************************************************************************)
(* What HierarchyFrontEnd keeps in order when the driver submits a batch    *)
(* and then runs it (BatchDriver), as every caller of PIMKernel::runPIM     *)
(* does.  Nothing moves between two runs (SettledInv), so that transactions *)
(* are accepted in the order of submission, leave each queue in an order    *)
(* that their domain, route and address allow (OrderInv), and a barrier     *)
(* separates what was submitted around it (FenceInv).  With the driver's    *)
(* discipline of one addBarrier per submission, a closed epoch has one      *)
(* barrier (BarrierInv); when the two sources read different cells, a read  *)
(* comes back as itself (PairInv).                                          *)
(***************************************************************************)
EXTENDS ReadReturn_proofs

(* Between two runs everything is waiting or done, the older ones done, and *)
(* only a full controller leaves a transaction in front of it.              *)
SettledInv ==
    ~draining =>
        /\ phase = "idle"
        /\ pendingTransactions # <<>> => ~WillAcceptTransaction
        /\ \A t \in Ids :
            stage[t] # "command" /\ (stage[t] = "issued" => t \in finished)
        /\ \A t, u \in Ids : t < u /\ stage[u] = "issued" => stage[t] = "issued"

(* The elements of one class of a queue are in the order of submission.      *)
Rising(class, s) ==
    \A i, j \in 1 .. Len(s) : i < j /\ class[s[i]] = class[s[j]] => s[i] < s[j]

OneClass == [t \in Ids |-> 0]
ByDomain == [t \in Ids |-> Dom(t)]
ByAddress == [t \in Ids |-> Addr(t)]

SameStream(t, u) == Dom(t) = Dom(u) /\ RouteOf(t) = RouteOf(u)

QueueOrder ==
    /\ Rising(OneClass, pendingTransactions)
    /\ Rising(OneClass, transactionQueue)
    /\ \A r \in Route : Rising(ByDomain, commandQueue[r])

StageOrders ==
    \A t, u \in Ids : t < u =>
        /\ Accepted(u) => Accepted(t)
        /\ SameStream(t, u) /\ stage[u] \in Begun => stage[t] \in Begun
        /\ SameStream(t, u) /\ Addr(t) = Addr(u) /\ stage[u] = "issued" =>
            stage[t] = "issued"

OrderInv == QueueOrder /\ StageOrders
-----------------------------------------------------------------------------
LEMMA RisingAppend ==
    ASSUME NEW c, NEW s \in Seq(Ids), NEW x \in Ids, Rising(c, s),
           \A u \in Ids : In(u, s) /\ c[u] = c[x] => u < x
    PROVE  Rising(c, Append(s, x))
<1>1. /\ Len(s) \in Nat /\ Len(Append(s, x)) = Len(s) + 1
      /\ Append(s, x)[Len(s) + 1] = x
      /\ \A j \in 1 .. Len(s) : Append(s, x)[j] = s[j] /\ s[j] \in Ids
  BY LenProperties, AppendProperties, ElementOfSeq
<1>2. \A i, j \in 1 .. Len(s) + 1 : i < j =>
        i \in 1 .. Len(s) /\ (j = Len(s) + 1 \/ j \in 1 .. Len(s))
  BY <1>1
<1> QED
  BY <1>1, <1>2 DEF Rising, In

LEMMA RisingTail ==
    ASSUME NEW c, NEW s \in Seq(Ids), s # <<>>, Rising(c, s)
    PROVE  Rising(c, Tail(s))
<1>1. /\ Len(s) \in Nat /\ Len(Tail(s)) = Len(s) - 1
      /\ \A j \in 1 .. Len(s) - 1 : Tail(s)[j] = s[j + 1]
  BY HeadIsFirst
<1>2. \A i, j \in 1 .. Len(s) - 1 : i < j =>
        i + 1 \in 1 .. Len(s) /\ j + 1 \in 1 .. Len(s) /\ i + 1 < j + 1
  BY <1>1
<1>3. ASSUME NEW i \in 1 .. Len(s) - 1, NEW j \in 1 .. Len(s) - 1, i < j,
             c[Tail(s)[i]] = c[Tail(s)[j]]
      PROVE  Tail(s)[i] < Tail(s)[j]
  <2>1. c[s[i + 1]] = c[s[j + 1]]
    BY <1>1, <1>3
  <2>2. s[i + 1] < s[j + 1]
    BY <1>2, <1>3, <2>1 DEF Rising
  <2> QED
    BY <1>1, <2>2
<1> QED
  BY <1>1, <1>3 DEF Rising

LEMMA RisingRemoveAt ==
    ASSUME NEW c, NEW s \in Seq(Ids), NEW i \in 1 .. Len(s), Rising(c, s)
    PROVE  Rising(c, RemoveAt(s, i))
<1> DEFINE k(j) == IF j < i THEN j ELSE j + 1
<1>1. /\ Len(s) \in Nat /\ Len(RemoveAt(s, i)) = Len(s) - 1
      /\ \A j \in 1 .. Len(s) - 1 : RemoveAt(s, i)[j] = s[k(j)]
  BY LenProperties, RemoveAtProperties
<1>2. \A j, m \in 1 .. Len(s) - 1 : j < m =>
        k(j) \in 1 .. Len(s) /\ k(m) \in 1 .. Len(s) /\ k(j) < k(m)
  BY <1>1
<1> DEFINE d == RemoveAt(s, i)
<1>3. ASSUME NEW j \in 1 .. Len(s) - 1, NEW m \in 1 .. Len(s) - 1, j < m,
             c[d[j]] = c[d[m]]
      PROVE  d[j] < d[m]
  <2>1. d[j] = s[k(j)] /\ d[m] = s[k(m)]
    BY <1>1
  <2>2. k(j) \in 1 .. Len(s) /\ k(m) \in 1 .. Len(s) /\ k(j) < k(m)
    BY <1>2, <1>3
  <2> HIDE DEF k, d
  <2>3. s[k(j)] < s[k(m)]
    BY <1>3, <2>1, <2>2 DEF Rising
  <2> QED
    BY <2>1, <2>3
<1>4. Len(d) = Len(s) - 1
  BY <1>1
<1> HIDE DEF d
<1>5. Rising(c, d)
  BY <1>3, <1>4 DEF Rising
<1> QED
  BY <1>5 DEF d

(* The oldest of a queue is at its head, the newest at its end.             *)
LEMMA RisingEnds ==
    ASSUME NEW s \in Seq(Ids), s # <<>>, Rising(OneClass, s)
    PROVE  \A u : In(u, s) => Head(s) <= u /\ u <= Last(s)
<1>1. /\ Len(s) \in Nat /\ Len(s) >= 1 /\ Head(s) = s[1] /\ Last(s) = s[Len(s)]
      /\ 1 \in 1 .. Len(s) /\ Len(s) \in 1 .. Len(s)
  BY HeadIsFirst DEF Last
<1>2. \A j \in 1 .. Len(s) : s[j] \in Ids /\ s[j] \in Int /\ OneClass[s[j]] = 0
  <2>1. \A j \in 1 .. Len(s) : s[j] \in Ids
    BY ElementOfSeq
  <2>2. \A t \in Ids : t \in Int /\ OneClass[t] = 0
    BY DEF OneClass, Ids
  <2> QED
    BY <2>1, <2>2
<1>3. ASSUME NEW j \in 1 .. Len(s) PROVE s[1] <= s[j] /\ s[j] <= s[Len(s)]
  <2>1. j = 1 \/ 1 < j
    BY <1>1
  <2>2. j = Len(s) \/ j < Len(s)
    BY <1>1
  <2> QED
    BY <1>1, <1>2, <2>1, <2>2 DEF Rising
<1> QED
  BY <1>1, <1>3 DEF In

LEMMA OrderFacts ==
    ASSUME TypeOK, PlacesInv, FoundInv
    PROVE  /\ stage \in [Ids -> Stages] /\ submitted \in Nat
           /\ \A t \in Ids : t \in Int /\ t \in Nat /\ t >= 1
           /\ pendingTransactions \in Seq(Ids) /\ transactionQueue \in Seq(Ids)
           /\ commandQueue \in [Route -> Seq(Ids)]
           /\ \A t \in Ids : RouteOf(t) \in Route
           /\ \A t \in Ids : In(t, pendingTransactions) <=> stage[t] = "pending"
           /\ \A t \in Ids : In(t, transactionQueue) <=> stage[t] = "queued"
           /\ \A r \in Route : \A t \in Ids :
                In(t, commandQueue[r]) <=> stage[t] = "command" /\ RouteOf(t) = r
           /\ \A t \in Ids : stage[t] = "none" <=> t > submitted
           /\ \A t \in Ids : Accepted(t) <=> stage[t] \in {"queued", "command", "issued"}
<1>1. /\ stage \in [Ids -> Stages] /\ submitted \in Nat
      /\ \A t \in Ids : t \in Int /\ t \in Nat /\ t >= 1
      /\ \A t \in Ids : RouteOf(t) \in Route
      /\ commandQueue \in [Route -> Seq(Ids)]
  <2>1. DriverType /\ TransactionType /\ QueueType
    BY DEF TypeOK
  <2>2. stage \in [Ids -> Stages] /\ commandQueue \in [Route -> Seq(Ids)]
    BY <2>1 DEF TransactionType, QueueType
  <2>3. submitted \in Nat
    BY <2>1, ConstantsAssumption DEF DriverType
  <2>4. \A t \in Ids : t \in Int /\ t \in Nat /\ t >= 1
    BY ConstantsAssumption DEF Ids
  <2>5. \A t \in Ids : RouteOf(t) \in Route
    BY <2>1, RequestFields
  <2> QED
    BY <2>2, <2>3, <2>4, <2>5
<1>2. pendingTransactions \in Seq(Ids) /\ transactionQueue \in Seq(Ids)
  BY DEF TypeOK, QueueType
<1>3. /\ \A t \in Ids : In(t, pendingTransactions) <=> stage[t] = "pending"
      /\ \A t \in Ids : In(t, transactionQueue) <=> stage[t] = "queued"
      /\ \A r \in Route : \A t \in Ids :
            In(t, commandQueue[r]) <=> stage[t] = "command" /\ RouteOf(t) = r
  BY DEF PlacesInv, QueuePlaces, Holds, In, FoundInv
<1>4. \A t \in Ids : stage[t] = "none" <=> t > submitted
  BY DEF PlacesInv, QueuePlaces, FoundInv
<1>5. \A t \in Ids : Accepted(t) <=> stage[t] \in {"queued", "command", "issued"}
  BY <1>1 DEF Accepted, Stages
<1> QED
  BY <1>1, <1>2, <1>3, <1>4, <1>5
-----------------------------------------------------------------------------
(* When the driver leaves runPIM everything has been issued.                *)
LEMMA AllIssued ==
    ASSUME TypeOK, PlacesInv, FlowInv, phase = "idle", numOnTheFly = 0
    PROVE  \A t \in Ids : t <= submitted => stage[t] = "issued" /\ t \in finished
<1> SUFFICES ASSUME NEW t \in Ids, t <= submitted
             PROVE  stage[t] = "issued" /\ t \in finished
  OBVIOUS
<1>1. pendingTransactions = <<>> /\ finished = AcceptedSet /\ finished = Submitted
  BY NothingLeft
<1>2. t \in finished
  BY <1>1 DEF Submitted, Ids, TypeOK, DriverType
<1>3. stage[t] \in Begun
  BY <1>2 DEF FlowInv, CountInv
<1>4. stage[t] # "command"
  <2> SUFFICES ASSUME stage[t] = "command" PROVE FALSE
    OBVIOUS
  <2>1. CASE Op(t) = "READ"
    <3>1. t \in Flying
      BY <2>1 DEF Flying
    <3>2. PICK u \in Unread : Addr(u) = Addr(t)
      BY <3>1, SidesMeet DEF FlowInv, ReadInv
    <3>3. u \in Ids /\ stage[u] \in Begun /\ u \notin finished
      BY <3>2 DEF Unread, In, FlowInv, ReadInv, UnreadInv
    <3> QED
      BY <1>1, <3>3 DEF AcceptedSet, Accepted, Begun
  <2>2. CASE Op(t) # "READ"
    BY <1>2, <2>2 DEF PlacesInv, ReadPlaces
  <2> QED
    BY <2>1, <2>2
<1> QED
  BY <1>2, <1>3, <1>4 DEF Begun

(* While the driver is outside runPIM only its own calls happen.            *)
LEMMA OutsideRun ==
    ASSUME BatchDriver, SettledInv, ~draining, Update
    PROVE  FALSE
<1>1. phase = "idle" /\ ~BeginUpdate
  BY DEF SettledInv, BeginUpdate
<1> QED
  BY <1>1 DEF Update, RankReturns, RankWaits, PullPending, PullNothing,
         CommandBusRead, CommandBusDirect, CommandBusOther, CommandBus,
         DataBusDone, DataBusBusy, WriteDataStarts, WriteDataWaits,
         PopCommand, PopNothing, EnqueueCommand, EnqueueNothing,
         ReturnReadData, ReturnNothing

LEMMA UpdateFrame == Update => UNCHANGED driverVars /\ UNCHANGED bar
  BY DEF Update, BeginUpdate, RankReturns, RankWaits, PullPending, PullNothing,
         CommandBusRead, CommandBusDirect, CommandBusOther, CommandBus,
         DataBusDone, DataBusBusy, WriteDataStarts, WriteDataWaits,
         PopCommand, PopNothing, EnqueueCommand, EnqueueNothing,
         ReturnReadData, ReturnNothing

LEMMA SettledNext ==
    ASSUME BatchDriver, TypeOK, PlacesInv, FlowInv, SettledInv, [Next]_vars
    PROVE  SettledInv'
<1> SUFFICES ASSUME ~draining' PROVE SettledInv'
  BY DEF SettledInv
<1>f. /\ stage \in [Ids -> Stages] /\ submitted \in Nat
      /\ \A t \in Ids : t \in Int
      /\ transactionQueue \in Seq(Ids)
      /\ \A t \in Ids : stage[t] = "none" <=> t > submitted
  BY OrderFacts DEF FlowInv
<1>1. CASE UNCHANGED vars
  <2>1. UNCHANGED <<draining, phase, pendingTransactions, transactionQueue, stage, finished>>
    BY <1>1 DEF vars, driverVars, queueVars, doneVars
  <2> QED
    BY <2>1 DEF SettledInv, WillAcceptTransaction
<1>2. CASE Update
  BY <1>2, OutsideRun, UpdateFrame DEF driverVars
<1>3. ASSUME NEW t \in Ids, SubmitAccepted(t) \/ SubmitPending(t) PROVE SettledInv'
  <2>1. /\ ~draining /\ phase' = "idle" /\ finished' = finished /\ t = submitted + 1
    BY <1>3 DEF SubmitAccepted, SubmitPending, Submit
  <2>2. stage[t] = "none" /\ \E to \in {"queued", "pending"} : stage' = [stage EXCEPT ![t] = to]
    BY <1>3, <1>f, <2>1 DEF SubmitAccepted, SubmitPending, AddTransaction
  <2>3. \A u \in Ids : (stage'[u] = "issued" <=> stage[u] = "issued") /\ stage'[u] # "command"
    BY <1>f, <2>1, <2>2 DEF SettledInv
  <2>4. pendingTransactions' # <<>> => ~WillAcceptTransaction'
    BY <1>3, <2>1 DEF SubmitAccepted, SubmitPending, AddTransaction, SettledInv,
                      WillAcceptTransaction
  <2> QED
    BY <2>1, <2>3, <2>4 DEF SettledInv
<1>4. CASE BarrierPending \/ BarrierQueued
  <2>1. UNCHANGED <<draining, phase, pendingTransactions, transactionQueue, stage, finished>>
    BY <1>4 DEF BarrierPending, BarrierQueued, Barrier, queueVars, doneVars
  <2> QED
    BY <2>1 DEF SettledInv, WillAcceptTransaction
<1>5. CASE EnterRunPIM
  BY <1>5 DEF EnterRunPIM
<1>6. CASE LeaveRunPIM
  <2>1. /\ phase = "idle" /\ numOnTheFly = 0
        /\ UNCHANGED <<phase, pendingTransactions, stage, finished, submitted>>
    BY <1>6 DEF LeaveRunPIM, queueVars, doneVars
  <2>2. pendingTransactions = <<>>
    BY <2>1, NothingLeft
  <2>3. \A u \in Ids : u <= submitted => stage[u] = "issued" /\ u \in finished
    BY <2>1, AllIssued
  <2>4. \A u \in Ids : u <= submitted \/ stage[u] = "none"
    BY <1>f
  <2> QED
    BY <1>f, <2>1, <2>2, <2>3, <2>4 DEF SettledInv
<1> QED
  BY <1>1, <1>2, <1>3, <1>4, <1>5, <1>6 DEF Next, Driver
-----------------------------------------------------------------------------
(* PendingNewerThanController: what waits is newer than what was accepted.  *)
LEMMA PendingNewer ==
    ASSUME TypeOK, PlacesInv, FoundInv, StageOrders
    PROVE  \A p, t \in Ids : stage[p] = "pending" /\ Accepted(t) => t < p
<1> SUFFICES ASSUME NEW p \in Ids, NEW t \in Ids, stage[p] = "pending", Accepted(t)
             PROVE  t < p
  OBVIOUS
<1>1. ~Accepted(p) /\ p \in Int /\ t \in Int
  BY OrderFacts DEF Accepted
<1>2. t # p /\ ~(p < t)
  BY <1>1 DEF StageOrders
<1> QED
  BY <1>1, <1>2

LEMMA OrderStaying ==
    ASSUME OrderInv, UNCHANGED request, Staying
    PROVE  OrderInv'
<1>1. /\ \A u : Dom(u)' = Dom(u) /\ RouteOf(u)' = RouteOf(u) /\ Addr(u)' = Addr(u)
      /\ \A u : Accepted(u)' <=> Accepted(u)
  BY RequestOperators DEF Staying, Accepted
<1>2. ByDomain' = ByDomain
  BY <1>1 DEF ByDomain
<1>3. QueueOrder'
  BY <1>2 DEF Staying, OrderInv, QueueOrder, Rising
<1>4. StageOrders'
  BY <1>1 DEF Staying, OrderInv, StageOrders, SameStream
<1> QED
  BY <1>3, <1>4 DEF OrderInv

(* A queue takes the newest of what it may not mix up.                      *)
LEMMA OrderEntering ==
    ASSUME TypeOK, PlacesInv, FoundInv, SettledInv, OrderInv, UNCHANGED request,
           NEW t \in Ids, Entering(t)
    PROVE  OrderInv'
<1> DEFINE p == pendingTransactions  q == transactionQueue
<1>f. /\ stage \in [Ids -> Stages] /\ submitted \in Nat /\ \A u \in Ids : u \in Int
      /\ p \in Seq(Ids) /\ q \in Seq(Ids)
      /\ \A u \in Ids : In(u, p) <=> stage[u] = "pending"
      /\ \A u \in Ids : In(u, q) <=> stage[u] = "queued"
      /\ \A u \in Ids : stage[u] = "none" <=> u > submitted
      /\ \A u \in Ids : Accepted(u) <=> stage[u] \in {"queued", "command", "issued"}
  BY OrderFacts
<1>r. \A u : Dom(u)' = Dom(u) /\ RouteOf(u)' = RouteOf(u) /\ Addr(u)' = Addr(u)
  BY RequestOperators
<1>c. ByDomain' = ByDomain /\ OneClass' = OneClass
  BY <1>r DEF ByDomain, OneClass
<1>n. \A u \in Ids : stage[u] # "none" => u < t
  BY <1>f DEF Entering
<1>1. CASE SubmitAccepted(t) /\ Moves(t, "none", "queued")
  <2>1. p = <<>>
    BY <1>1 DEF SubmitAccepted, Submit, SettledInv
  <2>2. q' = Append(q, t) /\ p' = p /\ commandQueue' = commandQueue
    BY <1>1, <1>f DEF SubmitAccepted, Submit, AddTransaction
  <2>3. \A u \in Ids : stage'[u] = IF u = t THEN "queued" ELSE stage[u]
    BY <1>1, <1>f DEF Moves
  <2>4. Rising(OneClass, q')
    <3>1. \A u \in Ids : In(u, q) => u < t
      BY <1>f, <1>n
    <3> QED
      BY <1>f, <2>2, <3>1, RisingAppend DEF OrderInv, QueueOrder
  <2>5. QueueOrder'
    BY <1>c, <2>2, <2>4 DEF OrderInv, QueueOrder, Rising
  <2>6. ASSUME NEW u \in Ids, u < t PROVE Accepted(u)
    <3>1. t = submitted + 1
      BY DEF Entering
    <3>2. ~(u > submitted)
      BY <1>f, <2>6, <3>1
    <3>3. stage[u] # "none" /\ stage[u] # "pending"
      BY <1>f, <2>1, <3>2, InEmpty
    <3> QED
      BY <3>3 DEF Accepted
  <2>7. \A u \in Ids : Accepted(u)' <=> Accepted(u) \/ u = t
    BY <1>1, <1>f, <2>3 DEF Accepted
  <2>8. ASSUME NEW v \in Ids, NEW u \in Ids, v < u
        PROVE  /\ Accepted(u)' => Accepted(v)'
               /\ SameStream(v, u) /\ stage'[u] \in Begun => stage'[v] \in Begun
               /\ SameStream(v, u) /\ Addr(v) = Addr(u) /\ stage'[u] = "issued"
                    => stage'[v] = "issued"
    <3>1. u = t \/ v # t \/ stage[u] = "none"
      BY <1>f, <1>n, <2>8
    <3>2. CASE u = t
      BY <2>3, <2>6, <2>7, <2>8, <3>2 DEF Begun
    <3>3. CASE u # t
      <4>1. stage'[u] = stage[u] /\ (Accepted(u)' <=> Accepted(u))
        BY <2>3, <2>7, <3>3
      <4>2. v = t => stage[u] = "none"
        BY <3>1, <3>3
      <4>3. v # t => stage'[v] = stage[v]
        BY <2>3
      <4> QED
        BY <2>7, <2>8, <4>1, <4>2, <4>3 DEF OrderInv, StageOrders, Begun, Accepted
    <3> QED
      BY <3>2, <3>3
  <2>9. StageOrders'
    BY <1>r, <2>8 DEF StageOrders, SameStream
  <2> QED
    BY <2>5, <2>9 DEF OrderInv
<1>2. CASE SubmitPending(t) /\ Moves(t, "none", "pending")
  <2>1. p' = Append(p, t) /\ q' = q /\ commandQueue' = commandQueue
    BY <1>2, <1>f DEF SubmitPending, Submit
  <2>2. \A u \in Ids : stage'[u] = IF u = t THEN "pending" ELSE stage[u]
    BY <1>2, <1>f DEF Moves
  <2>3. Rising(OneClass, p')
    <3>1. \A u \in Ids : In(u, p) => u < t
      BY <1>f, <1>n
    <3> QED
      BY <1>f, <2>1, <3>1, RisingAppend DEF OrderInv, QueueOrder
  <2>4. QueueOrder'
    BY <1>c, <2>1, <2>3 DEF OrderInv, QueueOrder, Rising
  <2>5. /\ \A u \in Ids : Accepted(u)' <=> Accepted(u)
        /\ \A u \in Ids : stage'[u] \in Begun <=> stage[u] \in Begun
        /\ \A u \in Ids : stage'[u] = "issued" <=> stage[u] = "issued"
    BY <1>2, <1>f, <2>2 DEF Accepted, Begun, Moves
  <2>6. StageOrders'
    BY <1>r, <2>5 DEF OrderInv, StageOrders, SameStream
  <2> QED
    BY <2>4, <2>6 DEF OrderInv
<1> QED
  BY <1>1, <1>2 DEF Entering

LEMMA OrderPulling ==
    ASSUME TypeOK, PlacesInv, FoundInv, OrderInv, UNCHANGED request,
           NEW t \in Ids, Pulling(t)
    PROVE  OrderInv'
<1> DEFINE p == pendingTransactions  q == transactionQueue
<1>f. /\ stage \in [Ids -> Stages] /\ submitted \in Nat /\ \A u \in Ids : u \in Int
      /\ p \in Seq(Ids) /\ q \in Seq(Ids)
      /\ \A u \in Ids : In(u, p) <=> stage[u] = "pending"
      /\ \A u \in Ids : In(u, q) <=> stage[u] = "queued"
      /\ \A u \in Ids : stage[u] = "none" <=> u > submitted
      /\ \A u \in Ids : Accepted(u) <=> stage[u] \in {"queued", "command", "issued"}
  BY OrderFacts
<1>r. \A u : Dom(u)' = Dom(u) /\ RouteOf(u)' = RouteOf(u) /\ Addr(u)' = Addr(u)
  BY RequestOperators
<1>c. ByDomain' = ByDomain /\ OneClass' = OneClass
  BY <1>r DEF ByDomain, OneClass
<1>1. /\ p # <<>> /\ t = Head(p) /\ stage[t] = "pending"
      /\ p' = Tail(p) /\ q' = Append(q, t) /\ commandQueue' = commandQueue
      /\ \A u \in Ids : stage'[u] = IF u = t THEN "queued" ELSE stage[u]
  BY <1>f DEF Pulling, Moves
<1>2. Rising(OneClass, q')
  <2>1. \A u \in Ids : In(u, q) => u < t
    BY <1>f, <1>1, PendingNewer DEF OrderInv
  <2> QED
    BY <1>f, <1>1, <2>1, RisingAppend DEF OrderInv, QueueOrder
<1>3. Rising(OneClass, p')
  BY <1>f, <1>1, RisingTail DEF OrderInv, QueueOrder
<1>4. QueueOrder'
  BY <1>c, <1>1, <1>2, <1>3 DEF OrderInv, QueueOrder, Rising
<1>5. \A u \in Ids : u < t => Accepted(u)
  <2> SUFFICES ASSUME NEW u \in Ids, u < t PROVE Accepted(u)
    OBVIOUS
  <2>1. stage[u] # "none"
    BY <1>f, <1>1
  <2>2. stage[u] # "pending"
    BY <1>f, <1>1, RisingEnds DEF OrderInv, QueueOrder
  <2> QED
    BY <2>1, <2>2 DEF Accepted
<1>6. /\ \A u \in Ids : Accepted(u)' <=> Accepted(u) \/ u = t
      /\ \A u \in Ids : stage'[u] \in Begun <=> stage[u] \in Begun
      /\ \A u \in Ids : stage'[u] = "issued" <=> stage[u] = "issued"
  BY <1>1 DEF Accepted, Begun
<1>7. StageOrders'
  <2>1. \A v, u \in Ids : v < u /\ Accepted(u)' => Accepted(v)'
    BY <1>5, <1>6 DEF OrderInv, StageOrders
  <2> QED
    BY <1>r, <1>6, <2>1 DEF OrderInv, StageOrders, SameStream
<1> QED
  BY <1>4, <1>7 DEF OrderInv

(* The transaction chosen is the oldest of its source and route: an older    *)
(* one with room in the same command queue would have been chosen first.     *)
LEMMA EnqueueOldest ==
    ASSUME TypeOK, PlacesInv, FoundInv, OrderInv, NEW t \in Ids, NEW i \in Nat,
           Enqueuing(t, i), NEW v \in Ids, v < t, SameStream(v, t)
    PROVE  stage[v] \in Begun
<1> DEFINE q == transactionQueue
<1>1. stage[v] \in {"queued", "command", "issued"}
  <2>1. Accepted(t)
    BY DEF Enqueuing, Moves, Accepted
  <2>2. Accepted(v)
    BY <2>1 DEF OrderInv, StageOrders
  <2> QED
    BY <2>2, OrderFacts
<1>2. ASSUME stage[v] = "queued" PROVE FALSE
  <2>1. In(v, q)
    BY <1>2, OrderFacts
  <2>2. PICK j \in 1 .. Len(q) : q[j] = v
    BY <2>1 DEF In
  <2>3. q \in Seq(Ids) /\ DOMAIN q = 1 .. Len(q) /\ t \in Int /\ v \in Int
    BY OrderFacts, LenProperties
  <2>4. i \in 1 .. Len(q) /\ q[i] = t /\ Schedulable(i) /\ j # i
    BY <2>2, <2>3 DEF Enqueuing
  <2>5. /\ HasRoomFor(q[j]) <=> HasRoomFor(q[i])
        /\ Preferred(q[j]) <=> Preferred(q[i])
    BY <2>2, <2>4 DEF HasRoomFor, Preferred, SameStream
  <2>6. i < j
    BY <2>3, <2>4, <2>5 DEF Schedulable
  <2>7. OneClass[q[i]] = OneClass[q[j]]
    BY <2>2, <2>4 DEF OneClass
  <2> HIDE DEF q
  <2>8. q[i] < q[j]
    BY <2>4, <2>6, <2>7 DEF OrderInv, QueueOrder, Rising, q
  <2> QED
    BY <2>2, <2>3, <2>4, <2>8
<1> QED
  BY <1>1, <1>2 DEF Begun

LEMMA OrderEnqueuing ==
    ASSUME TypeOK, PlacesInv, FoundInv, OrderInv, UNCHANGED request,
           NEW t \in Ids, NEW i \in Nat, Enqueuing(t, i)
    PROVE  OrderInv'
<1> DEFINE c == commandQueue  r == RouteOf(t)
<1>f. /\ stage \in [Ids -> Stages] /\ \A u \in Ids : u \in Int
      /\ c \in [Route -> Seq(Ids)] /\ r \in Route
      /\ \A s \in Route : \A u \in Ids :
            In(u, c[s]) <=> stage[u] = "command" /\ RouteOf(u) = s
  BY OrderFacts
<1>r. \A u : Dom(u)' = Dom(u) /\ RouteOf(u)' = RouteOf(u) /\ Addr(u)' = Addr(u)
  BY RequestOperators
<1>c. ByDomain' = ByDomain /\ OneClass' = OneClass
  BY <1>r DEF ByDomain, OneClass
<1>1. /\ stage[t] = "queued"
      /\ \A u \in Ids : stage'[u] = IF u = t THEN "command" ELSE stage[u]
      /\ pendingTransactions' = pendingTransactions
      /\ transactionQueue' = RemoveAt(transactionQueue, i)
      /\ i \in 1 .. Len(transactionQueue) /\ transactionQueue \in Seq(Ids)
      /\ c' = [c EXCEPT ![r] = Append(@, t)]
  BY <1>f, OrderFacts DEF Enqueuing, Moves
<1>2. Rising(OneClass, transactionQueue')
  BY <1>1, RisingRemoveAt DEF OrderInv, QueueOrder
<1>3. Rising(ByDomain, Append(c[r], t))
  <2>1. ASSUME NEW u \in Ids, In(u, c[r]), ByDomain[u] = ByDomain[t] PROVE u < t
    <3>1. stage[u] = "command" /\ SameStream(t, u)
      BY <1>f, <2>1 DEF SameStream, ByDomain
    <3>2. ~(t < u) /\ t # u
      BY <1>1, <3>1 DEF OrderInv, StageOrders, Begun
    <3> QED
      BY <1>f, <3>2
  <2>2. c[r] \in Seq(Ids) /\ Rising(ByDomain, c[r])
    BY <1>f DEF OrderInv, QueueOrder
  <2> QED
    BY <2>1, <2>2, RisingAppend
<1>4. QueueOrder'
  <2>1. \A s \in Route : Rising(ByDomain, c'[s])
    BY <1>1, <1>3, <1>f DEF OrderInv, QueueOrder
  <2>2. \A s \in Route : Rising(ByDomain', commandQueue'[s])
    BY <1>c, <2>1
  <2>3. Rising(OneClass', pendingTransactions') /\ Rising(OneClass', transactionQueue')
    BY <1>c, <1>1, <1>2 DEF OrderInv, QueueOrder
  <2> QED
    BY <2>2, <2>3 DEF QueueOrder, Rising
<1>5. /\ \A u \in Ids : Accepted(u)' <=> Accepted(u)
      /\ \A u \in Ids : stage'[u] \in Begun <=> stage[u] \in Begun \/ u = t
      /\ \A u \in Ids : stage'[u] = "issued" <=> stage[u] = "issued"
  BY <1>1 DEF Accepted, Begun
<1>6. ASSUME NEW v \in Ids, NEW u \in Ids, v < u, SameStream(v, u), stage'[u] \in Begun
      PROVE  stage'[v] \in Begun
  <2>1. CASE u = t
    BY <1>5, <1>6, <2>1, EnqueueOldest
  <2>2. CASE u # t
    BY <1>5, <1>6, <2>2 DEF OrderInv, StageOrders
  <2> QED
    BY <2>1, <2>2
<1>7. StageOrders'
  BY <1>r, <1>5, <1>6 DEF OrderInv, StageOrders, SameStream
<1> QED
  BY <1>4, <1>7 DEF OrderInv

(* Of one source and one address, the oldest in a command queue goes first.  *)
LEMMA PopOldest ==
    ASSUME TypeOK, PlacesInv, FoundInv, OrderInv, NEW t \in Ids, NEW i \in Nat,
           Popping(t, i), NEW v \in Ids, v < t, SameStream(v, t), Addr(v) = Addr(t)
    PROVE  stage[v] = "issued"
<1> DEFINE c == commandQueue[RouteOf(t)]
<1>1. stage[v] \in Begun
  BY DEF Popping, Moves, Begun, OrderInv, StageOrders
<1>2. ASSUME stage[v] = "command" PROVE FALSE
  <2>1. In(v, c)
    BY <1>2, OrderFacts DEF SameStream
  <2>2. PICK j \in 1 .. Len(c) : c[j] = v
    BY <2>1 DEF In
  <2>3. c \in Seq(Ids) /\ t \in Int /\ v \in Int /\ Len(c) \in Nat
    BY OrderFacts, LenProperties
  <2>4. i \in 1 .. Len(c) /\ c[i] = t /\ ~HasPriorDependency(c, i) /\ j # i
    BY <2>2, <2>3 DEF Popping
  <2>5. ~(j < i)
    <3>1. j \in 1 .. i - 1 => HasPriorDependency(c, i)
      BY <2>2, <2>4 DEF HasPriorDependency, SameStream
    <3> QED
      BY <2>3, <2>4, <3>1
  <2>6. i < j
    BY <2>3, <2>4, <2>5
  <2>7. ByDomain[c[i]] = ByDomain[c[j]]
    BY <2>2, <2>4 DEF ByDomain, SameStream
  <2>8. Rising(ByDomain, c)
    BY OrderFacts DEF OrderInv, QueueOrder
  <2> HIDE DEF c
  <2>9. c[i] < c[j]
    BY <2>4, <2>6, <2>7, <2>8 DEF Rising
  <2> QED
    BY <2>2, <2>3, <2>4, <2>9
<1> QED
  BY <1>1, <1>2 DEF Begun

LEMMA OrderPopping ==
    ASSUME TypeOK, PlacesInv, FoundInv, OrderInv, UNCHANGED request,
           NEW t \in Ids, NEW i \in Nat, Popping(t, i)
    PROVE  OrderInv'
<1> DEFINE c == commandQueue  r == RouteOf(t)
<1>f. /\ stage \in [Ids -> Stages] /\ c \in [Route -> Seq(Ids)] /\ r \in Route
  BY OrderFacts
<1>r. \A u : Dom(u)' = Dom(u) /\ RouteOf(u)' = RouteOf(u) /\ Addr(u)' = Addr(u)
  BY RequestOperators
<1>c. ByDomain' = ByDomain /\ OneClass' = OneClass
  BY <1>r DEF ByDomain, OneClass
<1>1. /\ stage[t] = "command"
      /\ \A u \in Ids : stage'[u] = IF u = t THEN "issued" ELSE stage[u]
      /\ UNCHANGED <<pendingTransactions, transactionQueue>>
      /\ c' = [c EXCEPT ![r] = RemoveAt(@, i)] /\ i \in 1 .. Len(c[r])
  BY <1>f DEF Popping, Moves
<1>2. Rising(ByDomain, RemoveAt(c[r], i))
  <2>1. c[r] \in Seq(Ids) /\ Rising(ByDomain, c[r])
    BY <1>f DEF OrderInv, QueueOrder
  <2> QED
    BY <1>1, <2>1, RisingRemoveAt
<1>3. QueueOrder'
  <2>1. \A s \in Route : Rising(ByDomain, c'[s])
    BY <1>f, <1>1, <1>2 DEF OrderInv, QueueOrder
  <2> QED
    BY <1>c, <1>1, <2>1 DEF OrderInv, QueueOrder, Rising
<1>4. /\ \A u \in Ids : Accepted(u)' <=> Accepted(u)
      /\ \A u \in Ids : stage'[u] \in Begun <=> stage[u] \in Begun
      /\ \A u \in Ids : stage'[u] = "issued" <=> stage[u] = "issued" \/ u = t
  BY <1>1 DEF Accepted, Begun
<1>5. ASSUME NEW v \in Ids, NEW u \in Ids, v < u, SameStream(v, u),
             Addr(v) = Addr(u), stage'[u] = "issued"
      PROVE  stage'[v] = "issued"
  <2>1. CASE u = t
    BY <1>4, <1>5, <2>1, PopOldest
  <2>2. CASE u # t
    BY <1>4, <1>5, <2>2 DEF OrderInv, StageOrders
  <2> QED
    BY <2>1, <2>2
<1>6. StageOrders'
  BY <1>r, <1>4, <1>5 DEF OrderInv, StageOrders, SameStream
<1> QED
  BY <1>3, <1>6 DEF OrderInv

LEMMA OrderNext ==
    ASSUME BatchDriver, TypeOK, PlacesInv, FoundInv, SettledInv, OrderInv, [Next]_vars
    PROVE  OrderInv'
<1>1. Movement /\ UNCHANGED request
  BY MovementOfNext, RequestFixed
<1> QED
  BY <1>1, OrderStaying, OrderEntering, OrderPulling, OrderEnqueuing, OrderPopping
     DEF Movement

LEMMA OrderInit == Init => SettledInv /\ OrderInv
<1> SUFFICES ASSUME Init PROVE SettledInv /\ OrderInv
  OBVIOUS
<1>1. SettledInv
  BY DEF Init, SettledInv
<1>2. QueueOrder
  BY DEF Init, QueueOrder, Rising
<1>3. StageOrders
  BY DEF Init, StageOrders, Accepted, Begun
<1> QED
  BY <1>1, <1>2, <1>3 DEF OrderInv

BatchInv == TypeOK /\ PlacesInv /\ EpochInv /\ FlowInv /\ SettledInv /\ OrderInv

LEMMA BatchInductive ==
    ASSUME BatchDriver
    PROVE  Spec => []BatchInv
<1>1. Init => SettledInv /\ OrderInv
  BY OrderInit
<1>2. TypeOK /\ PlacesInv /\ EpochInv /\ FlowInv /\ SettledInv /\ OrderInv /\ [Next]_vars
        => (SettledInv /\ OrderInv)'
  BY SettledNext, OrderNext DEF FlowInv
<1> QED
  BY <1>1, <1>2, FlowInductive, PTL DEF Spec, BatchInv

(* MemorySystem.cpp asserts in a comment that what waits in front of the     *)
(* controller is newer than everything the controller has accepted; it is so *)
(* for every caller that submits its batch before it runs it.                *)
THEOREM PendingIsNewer ==
    ASSUME BatchDriver
    PROVE  Spec => []PendingNewerThanController
<1>1. BatchInv => PendingNewerThanController
  <2> SUFFICES ASSUME BatchInv, NEW i \in DOMAIN pendingTransactions,
                      NEW t \in Ids, Accepted(t)
               PROVE  t < pendingTransactions[i]
    BY DEF PendingNewerThanController
  <2> USE DEF BatchInv
  <2>1. /\ pendingTransactions \in Seq(Ids)
        /\ DOMAIN pendingTransactions = 1 .. Len(pendingTransactions)
    BY OrderFacts, LenProperties DEF FlowInv
  <2>2. pendingTransactions[i] \in Ids
    BY <2>1, ElementOfSeq
  <2>3. stage[pendingTransactions[i]] = "pending"
    BY <2>1, <2>2 DEF PlacesInv, QueuePlaces, Holds
  <2> QED
    BY <2>2, <2>3, PendingNewer DEF FlowInv, OrderInv
<1> QED
  BY <1>1, BatchInductive, PTL

(* hasPriorDependency and updateTransactionQueue keep the commands of one    *)
(* source to one location in the order of submission, over a transaction     *)
(* queue and two command queues that let others pass.                        *)
THEOREM SameAddressInOrder ==
    ASSUME BatchDriver
    PROVE  Spec => []SameAddressOrder
<1>1. BatchInv => SameAddressOrder
  <2> SUFFICES ASSUME BatchInv, NEW t \in Submitted, NEW u \in Submitted,
                      t < u, stage[u] = "issued", Dom(t) = Dom(u),
                      Addr(t) = Addr(u), RouteOf(t) = RouteOf(u)
               PROVE  stage[t] = "issued"
    BY DEF SameAddressOrder
  <2>1. t \in Ids /\ u \in Ids
    BY ConstantsAssumption DEF BatchInv, TypeOK, DriverType, Submitted, Ids
  <2> QED
    BY <2>1 DEF BatchInv, OrderInv, StageOrders, SameStream
<1> QED
  BY <1>1, BatchInductive, PTL
-----------------------------------------------------------------------------
(* What the driver's barriers divide.  A waiting barrier will close the      *)
(* epoch of t before u enters it, or the epoch of t is closed already.      *)
Closing(t, u) ==
    \E x \in Ids : stage[x] = "pending" /\ Dom(x) = Dom(t) /\ bar[x] /\ t <= x /\ x < u

Left(t) == Accepted(t) /\ epoch[t] < epochToAssign[Dom(t)]

Apart(t, u) ==
    IF Accepted(u) THEN epoch[t] < epoch[u] ELSE Left(t) \/ Closing(t, u)

(* Of two transactions of a domain with a barrier call between them, the     *)
(* older is, or will be, in an older epoch; what is submitted next will be   *)
(* apart from everything before the last barrier call.                      *)
FenceInv ==
    /\ \A t \in Ids : t <= submitted =>
        /\ fence[t] <= barriers[Dom(t)]
        /\ fence[t] < barriers[Dom(t)] => Left(t) \/ Closing(t, submitted + 1)
    /\ \A t, u \in Ids : t < u /\ u <= submitted /\ Dom(t) = Dom(u) =>
        /\ fence[t] <= fence[u]
        /\ fence[t] < fence[u] => Apart(t, u)

LEMMA FenceTypes ==
    ASSUME TypeOK
    PROVE  /\ submitted \in Nat /\ \A t \in Ids : t \in Int /\ Dom(t) \in Domain
           /\ fence \in [Ids -> Nat] /\ barriers \in [Domain -> Nat]
           /\ epoch \in [Ids -> Nat] /\ epochToAssign \in [Domain -> Nat]
           /\ stage \in [Ids -> Stages] /\ bar \in [Ids -> BOOLEAN]
<1>1. submitted \in Nat /\ \A t \in Ids : t \in Int
  BY ConstantsAssumption DEF TypeOK, DriverType, Ids
<1>2. \A t \in Ids : Dom(t) \in Domain
  BY EpochTypes
<1>3. /\ fence \in [Ids -> Nat] /\ barriers \in [Domain -> Nat]
      /\ epoch \in [Ids -> Nat] /\ epochToAssign \in [Domain -> Nat]
      /\ stage \in [Ids -> Stages] /\ bar \in [Ids -> BOOLEAN]
  BY DEF TypeOK, DriverType, TransactionType, EpochType
<1> QED
  BY <1>1, <1>2, <1>3

LEMMA FenceKept ==
    ASSUME FenceInv, UNCHANGED <<request, submitted, fence, barriers, bar, epoch, epochToAssign>>,
           \A t \in Ids : (Accepted(t)' <=> Accepted(t))
                          /\ (stage'[t] = "pending" <=> stage[t] = "pending")
    PROVE  FenceInv'
<1>1. \A t : Dom(t)' = Dom(t)
  BY RequestOperators
<1>2. \A t, u \in Ids : /\ Left(t)' <=> Left(t)
                        /\ Closing(t, u)' <=> Closing(t, u)
                        /\ Apart(t, u)' <=> Apart(t, u)
  BY <1>1 DEF Left, Closing, Apart
<1>3. \A t \in Ids : Closing(t, submitted + 1)' <=> Closing(t, submitted + 1)
  BY <1>1 DEF Closing
<1> QED
  BY <1>1, <1>2, <1>3 DEF FenceInv

(* Outside the five steps that submit, accept or mark a transaction nothing  *)
(* changes that the fences speak of.                                        *)
LEMMA AssignFrame ==
    Update /\ ~PullPending => UNCHANGED <<epoch, epochToAssign>>
  BY DEF Update, BeginUpdate, RankReturns, RankWaits, PullNothing,
         CommandBusRead, CommandBusDirect, CommandBusOther, CommandBus,
         DataBusDone, DataBusBusy, WriteDataStarts, WriteDataWaits,
         PopCommand, PopNothing, EnqueueCommand, EnqueueNothing,
         ReturnReadData, ReturnNothing, CompleteEpochAndAdvance, epochVars

LEMMA OtherFrame ==
    ASSUME TypeOK, PlacesInv, [Next]_vars, ~PullPending,
           ~BarrierPending, ~BarrierQueued,
           \A t \in Ids : ~SubmitAccepted(t) /\ ~SubmitPending(t)
    PROVE  /\ UNCHANGED <<request, submitted, fresh, fence, barriers, bar>>
           /\ UNCHANGED <<epoch, epochToAssign>>
           /\ \A t \in Ids : (Accepted(t)' <=> Accepted(t))
                          /\ (stage'[t] = "pending" <=> stage[t] = "pending")
<1>1. /\ UNCHANGED <<request, submitted, fresh, fence, barriers, bar>>
      /\ UNCHANGED <<epoch, epochToAssign>>
  <2>1. CASE UNCHANGED vars
    BY <2>1 DEF vars, driverVars, epochVars
  <2>2. CASE EnterRunPIM \/ LeaveRunPIM
    BY <2>2 DEF EnterRunPIM, LeaveRunPIM, epochVars
  <2>3. CASE Update
    BY <2>3, UpdateFrame, AssignFrame DEF driverVars
  <2> QED
    BY <2>1, <2>2, <2>3 DEF Next, Driver
<1>2. stage \in [Ids -> Stages]
  BY FenceTypes
<1>3. ASSUME NEW t \in Ids
      PROVE  (Accepted(t)' <=> Accepted(t)) /\ (stage'[t] = "pending" <=> stage[t] = "pending")
  <2>1. \/ Staying
        \/ \E u \in Ids : Moves(u, "queued", "command") \/ Moves(u, "command", "issued")
    <3>1. Movement
      BY MovementOfNext
    <3> QED
      BY <3>1 DEF Movement, Entering, Pulling, Enqueuing, Popping
  <2> QED
    BY <1>2, <2>1 DEF Staying, Moves, Accepted
<1> QED
  BY <1>1, <1>3

LEMMA FenceEntering ==
    ASSUME TypeOK, PlacesInv, FoundInv, SettledInv, FenceInv, UNCHANGED request,
           NEW t \in Ids, SubmitAccepted(t) \/ SubmitPending(t)
    PROVE  FenceInv'
<1>t. /\ submitted \in Nat /\ \A u \in Ids : u \in Int /\ Dom(u) \in Domain
      /\ fence \in [Ids -> Nat] /\ barriers \in [Domain -> Nat]
      /\ epoch \in [Ids -> Nat] /\ epochToAssign \in [Domain -> Nat]
      /\ stage \in [Ids -> Stages]
  BY FenceTypes
<1>d. \A u : Dom(u)' = Dom(u)
  BY RequestOperators
<1>1. /\ t = submitted + 1 /\ submitted' = t /\ UNCHANGED barriers
      /\ \A u \in Ids : fence'[u] = IF u = t THEN barriers[Dom(t)] ELSE fence[u]
  BY <1>t DEF SubmitAccepted, SubmitPending, Submit
<1>2. /\ \A u \in Ids : u <= submitted <=> u # t /\ u <= submitted'
      /\ stage[t] = "none" /\ \A u \in Ids : u <= submitted => stage[u] # "none"
  <2>1. \A u \in Ids : stage[u] = "none" <=> u > submitted
    BY OrderFacts
  <2>2. \A u \in Ids : u <= submitted <=> u # t /\ u <= submitted'
    BY <1>t, <1>1
  <2>3. \A u \in Ids : u <= submitted => stage[u] # "none"
    BY <1>t, <2>1
  <2>4. stage[t] = "none"
    BY <1>t, <1>1, <2>1
  <2> QED
    BY <2>2, <2>3, <2>4
<1>b. UNCHANGED bar
  BY DEF SubmitAccepted, SubmitPending, Submit
(* What is left to show of the old ones and of the new one.                  *)
<1>3. ASSUME \A u \in Ids : u <= submitted =>
                /\ Left(u) => Left(u)'
                /\ Closing(u, submitted + 1) => Left(u)' \/ Closing(u, submitted + 1)',
             \A v, u \in Ids : u <= submitted /\ v <= submitted /\ Apart(v, u) => Apart(v, u)',
             \A u \in Ids : u <= submitted /\ Dom(u) = Dom(t)
                /\ (Left(u) \/ Closing(u, submitted + 1)) => Apart(u, t)'
      PROVE  FenceInv'
  <2>1. ASSUME NEW u \in Ids, u <= submitted'
        PROVE  /\ fence'[u] <= barriers'[Dom(u)]
               /\ fence'[u] < barriers'[Dom(u)] => Left(u)' \/ Closing(u, submitted + 1)'
    <3>1. CASE u = t
      BY <1>t, <1>1, <3>1
    <3>2. CASE u # t
      <4>1. u <= submitted /\ fence'[u] = fence[u] /\ barriers' = barriers
        BY <1>1, <1>2, <2>1, <3>2
      <4> QED
        BY <1>3, <4>1 DEF FenceInv
    <3> QED
      BY <3>1, <3>2
  <2>2. ASSUME NEW v \in Ids, NEW u \in Ids, v < u, u <= submitted', Dom(v) = Dom(u)
        PROVE  /\ fence'[v] <= fence'[u]
               /\ fence'[v] < fence'[u] => Apart(v, u)'
    <3>1. v # t /\ v <= submitted /\ fence'[v] = fence[v]
      BY <1>t, <1>1, <2>2
    <3>2. CASE u = t
      BY <1>1, <1>3, <2>2, <3>1, <3>2 DEF FenceInv
    <3>3. CASE u # t
      BY <1>1, <1>2, <1>3, <2>2, <3>1, <3>3 DEF FenceInv
    <3> QED
      BY <3>2, <3>3
  <2> QED
    BY <1>d, <2>1, <2>2 DEF FenceInv
<1>4. CASE SubmitAccepted(t)
  <2>1. pendingTransactions = <<>>
    BY <1>4 DEF SubmitAccepted, Submit, SettledInv
  <2>2. \A u \in Ids : stage[u] # "pending"
    BY <2>1, OrderFacts, InEmpty
  <2>3. \A v, u : ~Closing(v, u)
    BY <2>2 DEF Closing
  <2>4. /\ \A u \in Ids : stage'[u] = IF u = t THEN "queued" ELSE stage[u]
        /\ \A u \in Ids : epoch'[u] = IF u = t THEN epochToAssign[Dom(t)] ELSE epoch[u]
        /\ \A d \in Domain : epochToAssign'[d] \in Nat /\ epochToAssign[d] <= epochToAssign'[d]
    BY <1>4, <1>t DEF SubmitAccepted, AddTransaction
  <2>5. ASSUME NEW u \in Ids, u <= submitted, Left(u) PROVE Left(u)'
    BY <1>t, <1>2, <1>d, <2>4, <2>5 DEF Left, Accepted
  <2>6. ASSUME NEW v \in Ids, NEW u \in Ids, u <= submitted, Apart(v, u), v <= submitted
        PROVE Apart(v, u)'
    BY <1>2, <2>3, <2>4, <2>5, <2>6 DEF Apart, Accepted
  <2>7. ASSUME NEW u \in Ids, u <= submitted, Dom(u) = Dom(t), Left(u) PROVE Apart(u, t)'
    BY <1>2, <2>4, <2>7 DEF Apart, Accepted, Left
  <2> QED
    BY <1>3, <2>3, <2>5, <2>6, <2>7
<1>5. CASE SubmitPending(t)
  <2>1. /\ \A u \in Ids : stage'[u] = IF u = t THEN "pending" ELSE stage[u]
        /\ UNCHANGED <<epoch, epochToAssign>>
    BY <1>5, <1>t DEF SubmitPending
  <2>2. \A u \in Ids : u <= submitted => (Left(u)' <=> Left(u))
    BY <1>2, <1>d, <2>1 DEF Left, Accepted
  <2>3. \A v, u : Closing(v, u) => Closing(v, u)'
    BY <1>2, <1>b, <1>d, <2>1 DEF Closing
  <2>4. \A v, u \in Ids : u <= submitted /\ v <= submitted /\ Apart(v, u) => Apart(v, u)'
    BY <1>2, <2>1, <2>2, <2>3 DEF Apart, Accepted
  <2>5. ASSUME NEW u \in Ids, u <= submitted, Left(u) \/ Closing(u, submitted + 1)
        PROVE  Apart(u, t)'
    <3>1. ~Accepted(t)'
      BY <2>1 DEF Accepted
    <3> QED
      BY <1>1, <2>2, <2>3, <2>5, <3>1 DEF Apart
  <2>6. \A u \in Ids : Closing(u, submitted + 1) => Closing(u, submitted + 1)'
    <3>1. \A x \in Ids : x < submitted + 1 => x < submitted' + 1
      BY <1>t, <1>1
    <3> QED
      BY <1>2, <1>b, <1>d, <2>1, <3>1 DEF Closing
  <2> QED
    BY <1>3, <2>2, <2>4, <2>5, <2>6
<1> QED
  BY <1>4, <1>5

LEMMA FencePulling ==
    ASSUME TypeOK, PlacesInv, EpochInv, FoundInv, OrderInv, FenceInv, UNCHANGED request,
           PullPending
    PROVE  FenceInv'
<1> DEFINE p == pendingTransactions  t == Head(p)  a == epochToAssign[Dom(t)]
<1>t. /\ submitted \in Nat /\ \A u \in Ids : u \in Int /\ Dom(u) \in Domain
      /\ epoch \in [Ids -> Nat] /\ epochToAssign \in [Domain -> Nat]
      /\ stage \in [Ids -> Stages]
  BY FenceTypes
<1>d. \A u : Dom(u)' = Dom(u)
  BY RequestOperators
<1>1. /\ p # <<>> /\ AddTransaction(t)
      /\ UNCHANGED <<submitted, fence, barriers, bar>>
  BY DEF PullPending, driverVars
<1>2. t \in Ids /\ stage[t] = "pending" /\ \A u \in Ids : stage[u] = "pending" => t <= u
  <2>1. p \in Seq(Ids) /\ Rising(OneClass, p)
    BY OrderFacts DEF OrderInv, QueueOrder
  <2>2. \A u \in Ids : stage[u] = "pending" => In(u, p)
    BY OrderFacts
  <2>3. In(t, p) /\ t \in Ids
    BY <1>1, <2>1, HeadIsFirst DEF In
  <2>4. stage[t] = "pending"
    BY <2>3, OrderFacts
  <2> QED
    BY <1>1, <2>1, <2>2, <2>3, <2>4, RisingEnds
<1> HIDE DEF t
<1>3. /\ \A u \in Ids : stage'[u] = IF u = t THEN "queued" ELSE stage[u]
      /\ \A u \in Ids : epoch'[u] = IF u = t THEN a ELSE epoch[u]
      /\ \A d \in Domain : epochToAssign'[d] \in Nat /\ epochToAssign[d] <= epochToAssign'[d]
      /\ bar[t] => epochToAssign'[Dom(t)] = a + 1
  BY <1>t, <1>1, <1>2 DEF AddTransaction
<1>4. \A u \in Ids : Accepted(u)' <=> Accepted(u) \/ u = t
  BY <1>3 DEF Accepted
<1>5. ~Accepted(t) /\ \A u \in Ids : u < t /\ u <= submitted => Accepted(u)
  <2>1. \A u \in Ids : u <= submitted => stage[u] # "none"
    BY <1>t, OrderFacts
  <2>2. \A u \in Ids : u < t => stage[u] # "pending"
    BY <1>t, <1>2
  <2> QED
    BY <1>2, <2>1, <2>2 DEF Accepted
<1>6. ASSUME NEW u \in Ids, Left(u) PROVE Left(u)'
  <2>1. u # t /\ Accepted(u)' /\ epoch'[u] = epoch[u] /\ epoch[u] < epochToAssign[Dom(u)]
    BY <1>3, <1>4, <1>5, <1>6 DEF Left
  <2>2. epoch[u] < epochToAssign'[Dom(u)]
    BY <1>t, <1>3, <2>1
  <2> QED
    BY <1>d, <2>1, <2>2 DEF Left
<1>7. ASSUME NEW u \in Ids, u <= submitted, NEW x \in Ids, stage[x] = "pending",
             Dom(x) = Dom(u), bar[x], u <= x
      PROVE  Left(u)' \/ (stage'[x] = "pending" /\ bar'[x])
  <2>1. CASE x # t
    BY <1>1, <1>3, <1>7, <2>1
  <2>2. CASE x = t
    <3>1. Accepted(u)' /\ epoch'[u] <= a
      <4>1. CASE u = t
        BY <1>t, <1>3, <1>4, <4>1, <1>2
      <4>2. CASE u # t
        <5>1. Accepted(u) /\ epoch'[u] = epoch[u]
          BY <1>t, <1>2, <1>3, <1>5, <1>7, <2>2, <4>2
        <5>2. epoch[u] <= epochToAssign[Dom(u)]
          BY <5>1 DEF EpochInv, AssignInv, AcceptedSet
        <5> QED
          BY <1>4, <1>7, <2>2, <5>1, <5>2
      <4> QED
        BY <4>1, <4>2
    <3>2. epochToAssign'[Dom(u)] = a + 1
      BY <1>3, <1>7, <2>2
    <3>3. epoch'[u] < epochToAssign'[Dom(u)]
      <4>1. a \in Nat /\ epoch'[u] \in Nat
        BY <1>t, <1>2, <1>3
      <4> QED
        BY <3>1, <3>2, <4>1
    <3> QED
      BY <1>d, <3>1, <3>3 DEF Left
  <2> QED
    BY <2>1, <2>2
<1>8. ASSUME NEW u \in Ids, u <= submitted, NEW m, Closing(u, m)
      PROVE  Left(u)' \/ Closing(u, m)'
  <2>1. PICK x \in Ids : stage[x] = "pending" /\ Dom(x) = Dom(u) /\ bar[x] /\ u <= x /\ x < m
    BY <1>8 DEF Closing
  <2> QED
    BY <1>7, <1>8, <1>d, <2>1 DEF Closing
<1>9. ASSUME NEW u \in Ids, u <= submitted, Closing(u, submitted + 1)
      PROVE  Left(u)' \/ Closing(u, submitted + 1)'
  <2> DEFINE m == submitted + 1
  <2>1. m' = m
    BY <1>1
  <2>2. Closing(u, m)
    BY <1>9
  <2>3. PICK x \in Ids : stage[x] = "pending" /\ Dom(x) = Dom(u) /\ bar[x] /\ u <= x /\ x < m
    BY <2>2 DEF Closing
  <2>4. Left(u)' \/ (stage'[x] = "pending" /\ bar'[x])
    BY <1>7, <1>9, <2>3
  <2> QED
    BY <1>d, <2>1, <2>3, <2>4 DEF Closing
<1>10. ASSUME NEW v \in Ids, NEW u \in Ids, v < u, u <= submitted, Dom(v) = Dom(u),
              Apart(v, u)
       PROVE  Apart(v, u)'
  <2>s. v <= submitted
    BY <1>t, <1>10
  <2>1. CASE Accepted(u)
    <3>1. Accepted(v) /\ epoch[v] < epoch[u]
      BY <1>10, <2>1 DEF Apart, OrderInv, StageOrders
    <3> QED
      BY <1>3, <1>4, <1>5, <2>1, <3>1 DEF Apart
  <2>2. CASE ~Accepted(u) /\ u # t
    <3>1. ~Accepted(u)' /\ (Left(v) \/ Closing(v, u))
      BY <1>4, <1>10, <2>2 DEF Apart
    <3>2. Left(v)' \/ Closing(v, u)'
      BY <1>6, <1>8, <2>s, <3>1
    <3> QED
      BY <3>1, <3>2 DEF Apart
  <2>3. CASE u = t
    <3>1. ~Closing(v, t)
      BY <1>t, <1>2 DEF Closing
    <3>2. Left(v)
      BY <1>5, <1>10, <2>3, <3>1 DEF Apart
    <3>3. epoch'[v] = epoch[v] /\ epoch[v] < a /\ epoch'[u] = a /\ Accepted(u)'
      BY <1>2, <1>3, <1>4, <1>5, <1>10, <2>3, <3>2 DEF Left
    <3> QED
      BY <3>3 DEF Apart
  <2> QED
    BY <2>1, <2>2, <2>3
<1> QED
  BY <1>1, <1>d, <1>6, <1>9, <1>10 DEF FenceInv

LEMMA FenceBarrierPending ==
    ASSUME TypeOK, PlacesInv, FoundInv, OrderInv, FenceInv, UNCHANGED request,
           BarrierPending
    PROVE  FenceInv'
<1> DEFINE p == pendingTransactions  x == Last(p)
<1>t. /\ submitted \in Nat /\ \A u \in Ids : u \in Int /\ Dom(u) \in Domain
      /\ fence \in [Ids -> Nat] /\ barriers \in [Domain -> Nat]
      /\ bar \in [Ids -> BOOLEAN]
  BY FenceTypes
<1>d. \A u : Dom(u)' = Dom(u)
  BY RequestOperators
<1>1. /\ p # <<>> /\ UNCHANGED <<submitted, fence, stage, epoch, epochToAssign>>
      /\ bar' = [bar EXCEPT ![x] = TRUE]
      /\ barriers' = [barriers EXCEPT ![Dom(x)] = @ + 1]
  BY DEF BarrierPending, Barrier
<1>2. x \in Ids /\ stage[x] = "pending" /\ \A u \in Ids : stage[u] = "pending" => u <= x
  <2>1. p \in Seq(Ids) /\ Rising(OneClass, p)
    BY OrderFacts DEF OrderInv, QueueOrder
  <2>2. \A u \in Ids : stage[u] = "pending" => In(u, p)
    BY OrderFacts
  <2>3. x \in Ids /\ stage[x] = "pending"
    BY <1>1, QueueFacts DEF PlacesInv
  <2> QED
    BY <1>1, <2>1, <2>2, <2>3, RisingEnds
<1> HIDE DEF x
<1>3. /\ \A u \in Ids : bar[u] => bar'[u]
      /\ bar'[x]
      /\ \A d \in Domain : barriers[d] <= barriers'[d]
      /\ \A d \in Domain : d # Dom(x) => barriers'[d] = barriers[d]
  BY <1>t, <1>1, <1>2
<1>4. \A u \in Ids : Left(u)' <=> Left(u)
  BY <1>1, <1>d DEF Left, Accepted
<1>5. \A u, m : Closing(u, m) => Closing(u, m)'
  BY <1>1, <1>3, <1>d DEF Closing
<1>6. \A u \in Ids : Closing(u, submitted + 1) => Closing(u, submitted + 1)'
  BY <1>1, <1>3, <1>d DEF Closing
<1>7. \A v, u \in Ids : Apart(v, u) => Apart(v, u)'
  BY <1>1, <1>4, <1>5 DEF Apart, Accepted
<1>8. ASSUME NEW u \in Ids, u <= submitted, Dom(u) = Dom(x)
      PROVE  Closing(u, submitted + 1)'
  <2>1. u <= x
    <3>1. stage[u] = "pending" \/ Accepted(u)
      BY <1>8, <1>t, OrderFacts DEF Accepted
    <3>2. Accepted(u) => u < x
      BY <1>2, PendingNewer DEF OrderInv
    <3> QED
      BY <1>t, <1>2, <3>1, <3>2
  <2>2. x < submitted + 1
    BY <1>t, <1>2, OrderFacts
  <2> QED
    BY <1>1, <1>2, <1>3, <1>8, <1>d, <2>1, <2>2 DEF Closing
<1>9. ASSUME NEW u \in Ids, u <= submitted
      PROVE  /\ fence[u] <= barriers'[Dom(u)]
             /\ fence[u] < barriers'[Dom(u)] => Left(u)' \/ Closing(u, submitted + 1)'
  <2>1. fence[u] <= barriers'[Dom(u)]
    <3>1. fence[u] <= barriers[Dom(u)]
      BY <1>9 DEF FenceInv
    <3>2. barriers'[Dom(u)] \in Nat /\ barriers[Dom(u)] <= barriers'[Dom(u)]
      BY <1>t, <1>1, <1>3
    <3> QED
      BY <1>t, <3>1, <3>2
  <2>2. Dom(u) # Dom(x) => barriers'[Dom(u)] = barriers[Dom(u)]
    BY <1>t, <1>3
  <2> QED
    BY <1>4, <1>6, <1>8, <1>9, <2>1, <2>2 DEF FenceInv
<1> QED
  BY <1>1, <1>d, <1>7, <1>9 DEF FenceInv

LEMMA FenceBarrierQueued ==
    ASSUME TypeOK, PlacesInv, EpochInv, FoundInv, FenceInv, UNCHANGED request,
           BarrierQueued
    PROVE  FenceInv'
<1> DEFINE x == Last(transactionQueue)
<1>t. /\ submitted \in Nat /\ \A u \in Ids : u \in Int /\ Dom(u) \in Domain
      /\ fence \in [Ids -> Nat] /\ barriers \in [Domain -> Nat]
      /\ epoch \in [Ids -> Nat] /\ epochToAssign \in [Domain -> Nat]
      /\ bar \in [Ids -> BOOLEAN]
  BY FenceTypes
<1>d. \A u : Dom(u)' = Dom(u)
  BY RequestOperators
<1>1. /\ UNCHANGED <<submitted, fence, stage, epoch>> /\ pendingTransactions = <<>>
      /\ bar' = [bar EXCEPT ![x] = TRUE]
      /\ barriers' = [barriers EXCEPT ![Dom(x)] = @ + 1]
      /\ epochToAssign' = [epochToAssign EXCEPT ![Dom(x)] = @ + 1]
  BY DEF BarrierQueued, Barrier
<1>2. x \in Ids
  BY QueueFacts DEF PlacesInv, BarrierQueued
<1> HIDE DEF x
<1>3. /\ \A u \in Ids : bar[u] => bar'[u]
      /\ \A d \in Domain : barriers'[d] \in Nat /\ barriers[d] <= barriers'[d]
      /\ \A d \in Domain : d # Dom(x) => barriers'[d] = barriers[d]
      /\ \A d \in Domain : epochToAssign'[d] \in Nat /\ epochToAssign[d] <= epochToAssign'[d]
      /\ epochToAssign'[Dom(x)] = epochToAssign[Dom(x)] + 1
  BY <1>t, <1>1, <1>2
<1>4. ASSUME NEW u \in Ids, Left(u) PROVE Left(u)'
  <2>1. epoch[u] < epochToAssign'[Dom(u)]
    BY <1>t, <1>3, <1>4 DEF Left
  <2> QED
    BY <1>1, <1>4, <1>d, <2>1 DEF Left, Accepted
<1>5. \A u, m : ~Closing(u, m)
  <2>1. \A u \in Ids : stage[u] # "pending"
    BY <1>1, OrderFacts, InEmpty
  <2> QED
    BY <2>1 DEF Closing
<1>6. ASSUME NEW v \in Ids, NEW u \in Ids, Apart(v, u) PROVE Apart(v, u)'
  BY <1>1, <1>4, <1>5, <1>6 DEF Apart, Accepted
<1>7. ASSUME NEW u \in Ids, u <= submitted, Dom(u) = Dom(x)
      PROVE  Left(u)'
  <2>1. Accepted(u)
    <3>1. stage[u] # "none" /\ stage[u] # "pending"
      BY <1>t, <1>1, <1>7, OrderFacts, InEmpty
    <3> QED
      BY <3>1 DEF Accepted
  <2>2. epoch[u] <= epochToAssign[Dom(u)]
    BY <2>1 DEF EpochInv, AssignInv, AcceptedSet
  <2>3. epoch[u] < epochToAssign'[Dom(u)]
    BY <1>t, <1>3, <1>7, <2>2
  <2> QED
    BY <1>1, <1>d, <2>1, <2>3 DEF Left, Accepted
<1>8. ASSUME NEW u \in Ids, u <= submitted
      PROVE  /\ fence[u] <= barriers'[Dom(u)]
             /\ fence[u] < barriers'[Dom(u)] => Left(u)'
  <2>1. fence[u] <= barriers'[Dom(u)]
    <3>1. fence[u] <= barriers[Dom(u)]
      BY <1>8 DEF FenceInv
    <3> QED
      BY <1>t, <1>3, <3>1
  <2>2. Dom(u) # Dom(x) => barriers'[Dom(u)] = barriers[Dom(u)]
    BY <1>t, <1>3
  <2> QED
    BY <1>4, <1>5, <1>7, <1>8, <2>1, <2>2 DEF FenceInv
<1> QED
  BY <1>1, <1>d, <1>6, <1>8 DEF FenceInv

LEMMA FenceNext == BatchInv /\ FenceInv /\ [Next]_vars => FenceInv'
<1> SUFFICES ASSUME BatchInv, FenceInv, [Next]_vars PROVE FenceInv'
  OBVIOUS
<1>1. TypeOK /\ PlacesInv /\ EpochInv /\ FoundInv /\ SettledInv /\ OrderInv
  BY DEF BatchInv, FlowInv
<1>2. UNCHANGED request
  BY RequestFixed
<1> QED
  BY <1>1, <1>2, FenceEntering, FencePulling, FenceBarrierPending,
     FenceBarrierQueued, OtherFrame, FenceKept

LEMMA FenceInit == Init => FenceInv
  BY ConstantsAssumption DEF Init, FenceInv, Ids

(* The BAR tag and the two addBarrier calls do what the driver means by a    *)
(* barrier, wherever the tag ended up: of one source, nothing submitted after *)
(* the call is issued before everything submitted before it is done.         *)
THEOREM BarriersHold ==
    ASSUME BatchDriver
    PROVE  Spec => []BarrierRespected
<1>1. BatchInv /\ FenceInv => BarrierRespected
  <2> SUFFICES ASSUME BatchInv, FenceInv, NEW t \in Submitted, NEW u \in Submitted,
                      Dom(t) = Dom(u), fence[t] < fence[u], stage[u] = "issued",
                      ~EpochDone(t)
               PROVE  FALSE
    BY DEF BarrierRespected
  <2>1. TypeOK /\ EpochInv /\ OrderInv
    BY DEF BatchInv
  <2>2. t \in Ids /\ u \in Ids /\ t <= submitted /\ u <= submitted
    BY <2>1, ConstantsAssumption DEF TypeOK, DriverType, Submitted, Ids
  <2>3. /\ t \in Int /\ u \in Int /\ fence[t] \in Nat /\ fence[u] \in Nat
        /\ epoch[t] \in Nat /\ epoch[u] \in Nat
        /\ Dom(t) \in Domain /\ epochToIssue[Dom(t)] \in Nat
    BY <2>1, <2>2, FenceTypes, EpochTypes
  <2>4. t < u
    <3>1. ~(u < t)
      BY <2>2, <2>3 DEF FenceInv
    <3> QED
      BY <2>3, <3>1
  <2>5. Accepted(u) /\ Accepted(t)
    BY <2>1, <2>2, <2>4 DEF Accepted, OrderInv, StageOrders
  <2>6. epoch[t] < epoch[u]
    BY <2>2, <2>4, <2>5 DEF FenceInv, Apart
  <2>7. epoch[u] <= epochToIssue[Dom(t)]
    BY <2>1, <2>2 DEF EpochInv, IssueInv, IssuedSet
  <2>8. epochToIssue[Dom(t)] <= epoch[t]
    BY <2>1, <2>2, <2>5 DEF EpochInv, IssueInv, AcceptedSet, DoneSet
  <2> QED
    BY <2>3, <2>6, <2>7, <2>8
<1>2. BatchInv /\ FenceInv /\ [Next]_vars => FenceInv'
  BY FenceNext
<1> QED
  BY <1>1, <1>2, FenceInit, BatchInductive, PTL DEF Spec
-----------------------------------------------------------------------------
(* The driver's discipline: one addBarrier after a submission.  While the    *)
(* newest transaction is unmarked, the epoch it is in has not been closed.   *)
FreshInv ==
    /\ \A t \in Ids : bar[t] => t <= submitted
    /\ fresh => \A t \in Ids : t = submitted =>
        ~bar[t] /\ (Accepted(t) => epoch[t] = epochToAssign[Dom(t)])

(* Then the barriers and the closed epochs of a domain correspond, and the   *)
(* completion of a barrier leaves its epoch.                                *)
BarrierInv ==
    /\ \A t, u \in AcceptedSet :
        bar[t] /\ bar[u] /\ Dom(t) = Dom(u) /\ epoch[t] = epoch[u] => t = u
    /\ \A d \in Domain : \A e \in Nat : e < epochToAssign[d] =>
        \E t \in AcceptedSet : bar[t] /\ Dom(t) = d /\ epoch[t] = e
    /\ \A t \in DoneSet : bar[t] => epoch[t] < epochToIssue[Dom(t)]

LEMMA FreshEntering ==
    ASSUME TypeOK, PlacesInv, FoundInv, FreshInv, UNCHANGED request,
           NEW t \in Ids, SubmitAccepted(t) \/ SubmitPending(t)
    PROVE  FreshInv'
<1>t. /\ submitted \in Nat /\ \A u \in Ids : u \in Int /\ Dom(u) \in Domain
      /\ epoch \in [Ids -> Nat] /\ epochToAssign \in [Domain -> Nat]
      /\ stage \in [Ids -> Stages]
  BY FenceTypes
<1>d. \A u : Dom(u)' = Dom(u)
  BY RequestOperators
<1>1. t = submitted + 1 /\ submitted' = t /\ UNCHANGED bar
  BY DEF SubmitAccepted, SubmitPending, Submit
<1>2. ~bar[t] /\ \A u \in Ids : bar[u] => u <= submitted'
  BY <1>t, <1>1 DEF FreshInv
<1>3. Accepted(t)' => epoch'[t] = epochToAssign'[Dom(t)]
  <2>1. CASE SubmitAccepted(t)
    BY <2>1, <1>t, <1>2 DEF SubmitAccepted, AddTransaction
  <2>2. CASE SubmitPending(t)
    BY <2>2, <1>t DEF SubmitPending, Accepted
  <2> QED
    BY <2>1, <2>2
<1> QED
  BY <1>1, <1>2, <1>3, <1>d DEF FreshInv

LEMMA FreshPulling ==
    ASSUME TypeOK, PlacesInv, FoundInv, OrderInv, FreshInv, UNCHANGED request, PullPending
    PROVE  FreshInv'
<1> DEFINE t == Head(pendingTransactions)
<1>t. /\ submitted \in Nat /\ \A u \in Ids : u \in Int /\ Dom(u) \in Domain
      /\ epoch \in [Ids -> Nat] /\ epochToAssign \in [Domain -> Nat]
      /\ stage \in [Ids -> Stages]
  BY FenceTypes
<1>d. \A u : Dom(u)' = Dom(u)
  BY RequestOperators
<1>1. AddTransaction(t) /\ UNCHANGED <<submitted, fresh, bar>>
  BY DEF PullPending, driverVars
<1>2. t \in Ids /\ stage[t] = "pending"
  BY QueueFacts DEF PullPending, PlacesInv
<1> HIDE DEF t
<1>3. /\ \A u \in Ids : stage'[u] = IF u = t THEN "queued" ELSE stage[u]
      /\ epoch'[t] = epochToAssign[Dom(t)]
      /\ ~bar[t] => epochToAssign' = epochToAssign
  BY <1>t, <1>1, <1>2 DEF AddTransaction
<1>4. ASSUME fresh, NEW u \in Ids, u = submitted, Accepted(u)'
      PROVE  epoch'[u] = epochToAssign'[Dom(u)]
  <2>1. ~bar[u]
    BY <1>4 DEF FreshInv
  <2>2. u = t
    <3> SUFFICES ASSUME u # t PROVE FALSE
      OBVIOUS
    <3>1. Accepted(u) /\ ~Accepted(t)
      BY <1>2, <1>3, <1>4 DEF Accepted
    <3>2. t < u
      BY <1>t, <1>2, <1>4, OrderFacts
    <3> QED
      BY <1>2, <3>1, <3>2 DEF OrderInv, StageOrders
  <2> QED
    BY <1>3, <2>1, <2>2
<1> QED
  BY <1>1, <1>4, <1>d DEF FreshInv

LEMMA FreshNext ==
    ASSUME TypeOK, PlacesInv, FoundInv, OrderInv, FreshInv, [Next]_vars
    PROVE  FreshInv'
<1>r. UNCHANGED request
  BY RequestFixed
<1>d. \A u : Dom(u)' = Dom(u)
  BY <1>r, RequestOperators
<1>1. CASE BarrierPending \/ BarrierQueued
  <2>1. PICK t \in Ids : stage[t] \in {"pending", "queued"} /\ Barrier(t)
    BY <1>1, QueueFacts DEF PlacesInv, BarrierPending, BarrierQueued
  <2>2. ~fresh' /\ bar' = [bar EXCEPT ![t] = TRUE] /\ submitted' = submitted
    BY <2>1 DEF Barrier
  <2>3. t <= submitted
    BY <2>1, FenceTypes, OrderFacts
  <2>4. bar \in [Ids -> BOOLEAN]
    BY FenceTypes
  <2> QED
    BY <2>2, <2>3, <2>4 DEF FreshInv
<1>2. CASE /\ ~PullPending /\ ~BarrierPending /\ ~BarrierQueued
           /\ \A t \in Ids : ~SubmitAccepted(t) /\ ~SubmitPending(t)
  BY <1>2, <1>d, OtherFrame DEF FreshInv
<1> QED
  BY <1>r, <1>1, <1>2, FreshEntering, FreshPulling

LEMMA BarrierAccepting ==
    ASSUME TypeOK, PlacesInv, EpochInv, BarrierInv, UNCHANGED request,
           NEW t \in Ids, Accepting(t)
    PROVE  BarrierInv'
<1> DEFINE a == epochToAssign[Dom(t)]
<1>d. \A u : Dom(u)' = Dom(u)
  BY RequestOperators
<1>t. /\ \A u \in Ids : Dom(u) \in Domain /\ epoch[u] \in Nat
      /\ epoch \in [Ids -> Nat] /\ epochToAssign \in [Domain -> Nat]
      /\ DoneSet \subseteq AcceptedSet /\ AcceptedSet \subseteq Ids
  BY EpochTypes, SetsOfPlaces
<1>1. /\ t \notin AcceptedSet /\ AcceptedSet' = AcceptedSet \cup {t}
      /\ DoneSet' = DoneSet /\ UNCHANGED <<bar, epochToIssue>>
      /\ epoch'[t] = a /\ \A u \in AcceptedSet : epoch'[u] = epoch[u]
      /\ \A d \in Domain :
            epochToAssign'[d] = IF d = Dom(t) /\ bar[t] THEN a + 1 ELSE epochToAssign[d]
  BY <1>t DEF Accepting
<1>2. ASSUME NEW u \in AcceptedSet, bar[u], Dom(u) = Dom(t) PROVE epoch'[u] # a
  <2>1. epoch[u] < a
    BY <1>2 DEF EpochInv, AssignInv
  <2> QED
    BY <1>1, <1>t, <2>1
<1>3. \A v, u \in AcceptedSet' :
        bar[v] /\ bar[u] /\ Dom(v) = Dom(u) /\ epoch'[v] = epoch'[u] => v = u
  BY <1>1, <1>2 DEF BarrierInv
<1>4. ASSUME NEW d \in Domain, NEW e \in Nat, e < epochToAssign'[d]
      PROVE  \E u \in AcceptedSet' : bar[u] /\ Dom(u) = d /\ epoch'[u] = e
  <2>1. CASE e < epochToAssign[d]
    <3>1. PICK u \in AcceptedSet : bar[u] /\ Dom(u) = d /\ epoch[u] = e
      BY <2>1 DEF BarrierInv
    <3> QED
      BY <1>1, <3>1
  <2>2. CASE ~(e < epochToAssign[d])
    <3>1. d = Dom(t) /\ bar[t] /\ e = a
      BY <1>1, <1>4, <1>t, <2>2
    <3> QED
      BY <1>1, <3>1
  <2> QED
    BY <2>1, <2>2
<1>5. \A u \in DoneSet' : bar[u] => epoch'[u] < epochToIssue[Dom(u)]
  BY <1>1, <1>t DEF BarrierInv
<1> QED
  BY <1>1, <1>3, <1>4, <1>5, <1>d DEF BarrierInv

LEMMA BarrierClosing ==
    ASSUME TypeOK, PlacesInv, EpochInv, BarrierInv, UNCHANGED request,
           NEW t \in Ids, Issuing(t) \/ Completing(t)
    PROVE  BarrierInv'
<1>d. \A u : Dom(u)' = Dom(u)
  BY RequestOperators
<1>t. /\ \A u \in Ids : Dom(u) \in Domain /\ epoch[u] \in Nat
      /\ epochToIssue \in [Domain -> Nat]
      /\ DoneSet \subseteq IssuedSet /\ IssuedSet \subseteq AcceptedSet /\ AcceptedSet \subseteq Ids
  BY EpochTypes, SetsOfPlaces
<1>1. /\ AcceptedSet' = AcceptedSet /\ UNCHANGED <<bar, epoch, epochToAssign>>
      /\ \/ DoneSet' = DoneSet /\ UNCHANGED epochToIssue
         \/ /\ DoneSet' = DoneSet \cup {t}
            /\ epochToIssue' =
                [epochToIssue EXCEPT ![Dom(t)] = IF bar[t] THEN @ + 1 ELSE @]
  BY DEF Issuing, Completing, CompleteEpochAndAdvance, epochVars
<1>2. epoch[t] = epochToIssue[Dom(t)]
  <2>1. CASE Issuing(t)
    BY <2>1 DEF Issuing
  <2>2. CASE Completing(t)
    <3>1. t \in IssuedSet /\ t \in AcceptedSet \ DoneSet
      BY <1>t, <2>2 DEF Completing
    <3>2. epoch[t] <= epochToIssue[Dom(t)] /\ epochToIssue[Dom(t)] <= epoch[t]
      BY <3>1 DEF EpochInv, IssueInv
    <3> QED
      BY <1>t, <3>2
  <2> QED
    BY <2>1, <2>2
<1>3. ASSUME NEW u \in DoneSet', bar[u] PROVE epoch[u] < epochToIssue'[Dom(u)]
  <2>1. \A d \in Domain : epochToIssue'[d] \in Nat /\ epochToIssue[d] <= epochToIssue'[d]
    BY <1>t, <1>1
  <2>2. CASE u \in DoneSet
    <3>1. epoch[u] < epochToIssue[Dom(u)] /\ u \in Ids
      BY <1>3, <1>t, <2>2 DEF BarrierInv
    <3> QED
      BY <1>t, <2>1, <3>1
  <2>3. CASE u \notin DoneSet
    <3>1. u = t /\ epochToIssue'[Dom(t)] = epochToIssue[Dom(t)] + 1
      BY <1>t, <1>1, <1>3, <2>3
    <3> QED
      BY <1>t, <1>2, <3>1
  <2> QED
    BY <2>2, <2>3
<1> QED
  BY <1>1, <1>3, <1>d DEF BarrierInv

(* MemoryController::addBarrier marks the newest transaction of all, which    *)
(* is unmarked and in the open epoch.                                       *)
LEMMA BarrierMarking ==
    ASSUME ~RepeatBarriers, TypeOK, PlacesInv, EpochInv, FoundInv, SettledInv, OrderInv,
           FreshInv, BarrierInv, UNCHANGED request, BarrierQueued
    PROVE  BarrierInv'
<1> DEFINE t == Last(transactionQueue)  a == epochToAssign[Dom(t)]
<1>d. \A u : Dom(u)' = Dom(u)
  BY RequestOperators
<1>t. /\ \A u \in Ids : Dom(u) \in Domain /\ epoch[u] \in Nat /\ u \in Int
      /\ epochToAssign \in [Domain -> Nat] /\ bar \in [Ids -> BOOLEAN]
      /\ DoneSet \subseteq AcceptedSet /\ AcceptedSet \subseteq Ids
      /\ submitted \in Nat
  BY EpochTypes, FenceTypes, SetsOfPlaces
<1>1. /\ pendingTransactions = <<>> /\ transactionQueue # <<>> /\ fresh /\ ~draining
      /\ UNCHANGED <<stage, finished, epoch, epochToIssue>>
      /\ bar' = [bar EXCEPT ![t] = TRUE]
      /\ epochToAssign' = [epochToAssign EXCEPT ![Dom(t)] = @ + 1]
  BY DEF BarrierQueued, Barrier, doneVars
<1>2. AcceptedSet' = AcceptedSet /\ DoneSet' = DoneSet
  BY <1>1, SetsFrames
<1>3. t \in Ids /\ stage[t] = "queued"
  BY <1>1, QueueFacts DEF PlacesInv
<1>4. t = submitted
  <2>1. t <= submitted
    BY <1>t, <1>3, OrderFacts
  <2>2. submitted \in Ids
    BY <1>t, <1>3, <2>1 DEF TypeOK, DriverType, Ids
  <2>3. stage[submitted] # "none" /\ stage[submitted] # "pending"
    BY <1>t, <1>1, <2>2, OrderFacts, InEmpty
  <2>4. stage[submitted] # "command"
    BY <1>1, <2>2 DEF SettledInv
  <2>5. stage[submitted] # "issued"
    <3>1. t < submitted /\ stage[submitted] = "issued" => stage[t] = "issued"
      BY <1>1, <1>3, <2>2 DEF SettledInv
    <3> QED
      BY <1>t, <1>3, <2>1, <3>1
  <2>6. stage[submitted] = "queued"
    BY <2>2, <2>3, <2>4, <2>5 DEF TypeOK, TransactionType, Stages
  <2>7. submitted <= t
    <3>1. In(submitted, transactionQueue) /\ transactionQueue \in Seq(Ids)
      BY <2>2, <2>6, OrderFacts
    <3> QED
      BY <1>1, <3>1, RisingEnds DEF OrderInv, QueueOrder
  <2> QED
    BY <1>t, <1>3, <2>1, <2>7
<1>5. t \in AcceptedSet /\ t \notin DoneSet
  <2>1. t \in AcceptedSet /\ t \notin IssuedSet
    BY <1>3 DEF AcceptedSet, Accepted, IssuedSet
  <2> QED
    BY <2>1, SetsOfPlaces
<1>6. ~bar[t] /\ epoch[t] = a
  BY <1>1, <1>3, <1>4, <1>5 DEF FreshInv, AcceptedSet
<1> HIDE DEF t
<1>7. ASSUME NEW u \in AcceptedSet, bar[u], Dom(u) = Dom(t) PROVE epoch[u] # a
  <2>1. epoch[u] < a
    BY <1>7 DEF EpochInv, AssignInv
  <2> QED
    BY <1>t, <2>1
<1>8. \A u \in Ids : bar'[u] <=> bar[u] \/ u = t
  BY <1>t, <1>1
<1>9. \A v, u \in AcceptedSet :
        bar'[v] /\ bar'[u] /\ Dom(v) = Dom(u) /\ epoch[v] = epoch[u] => v = u
  BY <1>t, <1>6, <1>7, <1>8 DEF BarrierInv
<1>10. ASSUME NEW d \in Domain, NEW e \in Nat, e < epochToAssign'[d]
       PROVE  \E u \in AcceptedSet : bar'[u] /\ Dom(u) = d /\ epoch[u] = e
  <2>1. CASE e < epochToAssign[d]
    <3>1. PICK u \in AcceptedSet : bar[u] /\ Dom(u) = d /\ epoch[u] = e
      BY <2>1 DEF BarrierInv
    <3> QED
      BY <1>t, <1>8, <3>1
  <2>2. CASE ~(e < epochToAssign[d])
    <3>1. d = Dom(t) /\ e = a
      BY <1>1, <1>3, <1>10, <1>t, <2>2
    <3> QED
      BY <1>3, <1>5, <1>6, <1>8, <3>1
  <2> QED
    BY <2>1, <2>2
<1>11. \A u \in DoneSet : bar'[u] => epoch[u] < epochToIssue[Dom(u)]
  BY <1>t, <1>5, <1>8 DEF BarrierInv
<1> QED
  BY <1>1, <1>2, <1>9, <1>10, <1>11, <1>d DEF BarrierInv

LEMMA BarrierNext ==
    ASSUME ~RepeatBarriers
    PROVE  BatchInv /\ FreshInv /\ BarrierInv /\ [Next]_vars => (FreshInv /\ BarrierInv)'
<1> SUFFICES ASSUME BatchInv, FreshInv, BarrierInv, [Next]_vars
             PROVE  (FreshInv /\ BarrierInv)'
  OBVIOUS
<1>1. TypeOK /\ PlacesInv /\ EpochInv /\ FoundInv /\ SettledInv /\ OrderInv
  BY DEF BatchInv, FlowInv
<1>2. UNCHANGED request
  BY RequestFixed
<1>d. \A u : Dom(u)' = Dom(u)
  BY <1>2, RequestOperators
<1>3. ASSUME Quiet PROVE BarrierInv'
  BY <1>3, <1>d DEF Quiet, epochVars, BarrierInv
<1>4. ASSUME BarrierPending PROVE BarrierInv'
  <2> DEFINE t == Last(pendingTransactions)
  <2>1. /\ UNCHANGED <<stage, finished, epoch, epochToAssign, epochToIssue>>
        /\ bar' = [bar EXCEPT ![t] = TRUE]
    BY <1>4 DEF BarrierPending, Barrier, doneVars
  <2>2. AcceptedSet' = AcceptedSet /\ DoneSet' = DoneSet
    BY <1>2, <2>1, SetsFrames
  <2>3. t \notin AcceptedSet
    BY <1>1, <1>4, QueueFacts DEF PlacesInv, BarrierPending, AcceptedSet, Accepted
  <2>4. \A u \in AcceptedSet : bar'[u] = bar[u]
    BY <1>1, <2>1, <2>3, EpochTypes DEF AcceptedSet
  <2>5. DoneSet \subseteq AcceptedSet
    BY <1>1, SetsOfPlaces
  <2>6. \A u \in DoneSet : bar'[u] = bar[u]
    BY <2>4, <2>5
  <2>7. \A u, v \in AcceptedSet :
          bar'[u] /\ bar'[v] /\ Dom(u) = Dom(v) /\ epoch[u] = epoch[v] => u = v
    BY <2>4 DEF BarrierInv
  <2>8. \A d \in Domain : \A e \in Nat : e < epochToAssign[d] =>
          \E u \in AcceptedSet : bar'[u] /\ Dom(u) = d /\ epoch[u] = e
    BY <2>4 DEF BarrierInv
  <2>9. \A u \in DoneSet : bar'[u] => epoch[u] < epochToIssue[Dom(u)]
    BY <2>6 DEF BarrierInv
  <2> QED
    BY <1>d, <2>1, <2>2, <2>7, <2>8, <2>9 DEF BarrierInv
<1>5. BarrierInv'
  <2>1. CASE BarrierPending
    BY <1>4, <2>1
  <2>2. CASE BarrierQueued
    BY <1>1, <1>2, <2>2, BarrierMarking
  <2>3. CASE ~BarrierPending /\ ~BarrierQueued
    <3>1. Progress
      BY <1>1, <2>3, EffectOfNext
    <3> QED
      BY <1>1, <1>2, <1>3, <3>1, BarrierAccepting, BarrierClosing DEF Progress
  <2> QED
    BY <2>1, <2>2, <2>3
<1> QED
  BY <1>1, <1>5, FreshNext

LEMMA BarrierInit == Init => FreshInv /\ BarrierInv
<1> SUFFICES ASSUME Init PROVE FreshInv /\ BarrierInv
  OBVIOUS
<1>1. AcceptedSet = {}
  BY DEF Init, AcceptedSet, Accepted
<1>2. DoneSet = {}
  BY DEF Init, DoneSet, EpochDone
<1> QED
  BY <1>1, <1>2 DEF Init, FreshInv, BarrierInv

(* While the driver calls addBarrier at most once after a submission, a       *)
(* closed epoch that epochToIssue has not left holds exactly one unfinished   *)
(* barrier: completeEpochAndAdvance can always move on, and only once.       *)
THEOREM ClosedEpochsHaveOneBarrier ==
    ASSUME BatchDriver, ~RepeatBarriers
    PROVE  Spec => []ClosedEpochHasBarrier
<1>1. BatchInv /\ BarrierInv => ClosedEpochHasBarrier
  <2> SUFFICES ASSUME BatchInv, BarrierInv, NEW d \in Domain,
                      NEW e \in epochToIssue[d] .. epochToAssign[d] - 1
               PROVE  Cardinality({t \in Holding(d, e) : bar[t]}) = 1
    BY DEF ClosedEpochHasBarrier
  <2>1. epochToIssue[d] \in Nat /\ epochToAssign[d] \in Nat
    BY EpochTypes DEF BatchInv
  <2>2. e \in Nat /\ e < epochToAssign[d] /\ ~(e < epochToIssue[d])
    BY <2>1
  <2>3. PICK t \in AcceptedSet : bar[t] /\ Dom(t) = d /\ epoch[t] = e
    BY <2>2 DEF BarrierInv
  <2>4. t \notin DoneSet
    BY <2>2, <2>3 DEF BarrierInv
  <2>5. {u \in Holding(d, e) : bar[u]} = {t}
    BY <2>3, <2>4, HoldingSets DEF BarrierInv
  <2> QED
    BY <2>5, FS_Singleton
<1> QED
  BY <1>1, BarrierNext, BarrierInit, BatchInductive, PTL DEF Spec
-----------------------------------------------------------------------------
(* The two sources read different cells.                                     *)
ReadsApart ==
    \A w \in Workloads : \A t, u \in Ids :
        w[t].op = "READ" /\ w[u].op = "READ" /\ w[t].addr = w[u].addr
            => w[t].dom = w[u].dom

(* Then the reads that are still to come back are the reads still pending,   *)
(* and at each address both lists have them in the order of submission.      *)
PairInv ==
    /\ Flying = Unread
    /\ Rising(ByAddress, ReadLine)
    /\ Rising(ByAddress, pendingReadTransactions)
    /\ ReadCompletesAfterIssue

LEMMA ReadFacts ==
    ASSUME TypeOK, PlacesInv, LineInv, UnreadInv
    PROVE  /\ stage \in [Ids -> Stages] /\ \A u \in Ids : u \in Int
           /\ ReadLine \in Seq(Ids) /\ pendingReadTransactions \in Seq(Ids)
           /\ \A u : In(u, ReadLine) =>
                u \in Ids /\ Op(u) = "READ" /\ stage[u] = "issued"
           /\ \A u : In(u, pendingReadTransactions) =>
                u \in Ids /\ Op(u) = "READ" /\ stage[u] \in Begun
<1>1. /\ stage \in [Ids -> Stages] /\ \A u \in Ids : u \in Int
      /\ ReadLine \in Seq(Ids) /\ pendingReadTransactions \in Seq(Ids)
  BY LineType, FenceTypes
<1>2. /\ \A u : In(u, ReadLine) => u \in Ids
      /\ \A u : In(u, pendingReadTransactions) => u \in Ids
  BY <1>1, InIds
<1>3. \A u : In(u, ReadLine) => Op(u) = "READ" /\ stage[u] = "issued"
  BY DEF LineInv, Holds, In
<1>4. \A u : In(u, pendingReadTransactions) => Op(u) = "READ" /\ stage[u] \in Begun
  BY DEF UnreadInv, PlacesInv, ReadPlaces, In
<1> QED
  BY <1>1, <1>2, <1>3, <1>4

(* Two reads of one address belong to one source and take one route.         *)
LEMMA ReadsOfOneStream ==
    ASSUME ReadsApart, TypeOK, NEW t \in Ids, NEW u \in Ids,
           Op(t) = "READ", Op(u) = "READ", Addr(t) = Addr(u)
    PROVE  SameStream(t, u)
<1>1. request \in Workloads
  BY DEF TypeOK, DriverType
<1>2. Dom(t) = Dom(u)
  BY <1>1 DEF ReadsApart, Dom, Op, Addr
<1> QED
  BY <1>2 DEF SameStream, RouteOf

LEMMA PairEnqueuing ==
    ASSUME ReadsApart, TypeOK, PlacesInv, LineInv, UnreadInv, OrderInv, PairInv,
           NEW t \in Ids, NEW i \in Nat, Enqueuing(t, i)
    PROVE  Rising(ByAddress, pendingReadTransactions')
<1> DEFINE p == pendingReadTransactions
<1>1. p \in Seq(Ids) /\ Rising(ByAddress, p) /\ stage[t] = "queued"
  BY ReadFacts DEF PairInv, Enqueuing, Moves
<1>2. CASE Op(t) = "READ"
  <2>1. ASSUME NEW u \in Ids, In(u, p), ByAddress[u] = ByAddress[t] PROVE u < t
    <3>1. Op(u) = "READ" /\ stage[u] \in Begun /\ u \in Int /\ t \in Int
      BY <2>1, ReadFacts
    <3>2. Addr(t) = Addr(u)
      BY <2>1 DEF ByAddress
    <3>3. SameStream(t, u)
      BY <1>2, <3>1, <3>2, ReadsOfOneStream
    <3>4. ~(t < u) /\ t # u
      BY <1>1, <3>1, <3>3 DEF OrderInv, StageOrders, Begun
    <3> QED
      BY <3>1, <3>4
  <2>2. Rising(ByAddress, Append(p, t))
    BY <1>1, <2>1, RisingAppend
  <2> QED
    BY <1>2, <2>2 DEF Enqueuing
<1>3. CASE Op(t) # "READ"
  BY <1>1, <1>3 DEF Enqueuing
<1> QED
  BY <1>2, <1>3

LEMMA PairPopping ==
    ASSUME ReadsApart, TypeOK, PlacesInv, LineInv, UnreadInv, OrderInv, PairInv,
           UNCHANGED request, NEW t \in Ids, PopCommand(t)
    PROVE  Rising(ByAddress, ReadLine')
<1>1. /\ ReadLine \in Seq(Ids) /\ Rising(ByAddress, ReadLine) /\ stage[t] = "command"
      /\ ReadLine' = IF Op(t) = "READ" THEN Append(ReadLine, t) ELSE ReadLine
  BY ReadFacts, PopStep, LineJoined DEF PairInv, Popping, Moves
<1>2. CASE Op(t) = "READ"
  <2>1. ASSUME NEW u \in Ids, In(u, ReadLine), ByAddress[u] = ByAddress[t] PROVE u < t
    <3>1. Op(u) = "READ" /\ stage[u] = "issued" /\ u \in Int /\ t \in Int
      BY <2>1, ReadFacts
    <3>2. Addr(t) = Addr(u)
      BY <2>1 DEF ByAddress
    <3>3. SameStream(t, u)
      BY <1>2, <3>1, <3>2, ReadsOfOneStream
    <3>4. ~(t < u) /\ t # u
      BY <1>1, <3>1, <3>2, <3>3 DEF OrderInv, StageOrders
    <3> QED
      BY <3>1, <3>4
  <2>2. Rising(ByAddress, Append(ReadLine, t))
    BY <1>1, <2>1, RisingAppend
  <2> QED
    BY <1>1, <1>2, <2>2
<1>3. CASE Op(t) # "READ"
  BY <1>1, <1>3
<1> QED
  BY <1>2, <1>3

(* The read that is stapled to a returned packet is the read it belongs to.  *)
LEMMA ReturnIsOwn ==
    ASSUME ReadsApart, TypeOK, PlacesInv, LineInv, UnreadInv, OrderInv, PairInv,
           ReadLine # <<>>, Head(ReadLine) = Head(returnTransaction),
           Head(returnTransaction) \in Flying,
           NEW i \in 1 .. Len(pendingReadTransactions), MatchesReturn(i),
           \A j \in 1 .. i - 1 : ~MatchesReturn(j)
    PROVE  pendingReadTransactions[i] = Head(returnTransaction)
<1> DEFINE p == pendingReadTransactions  h == Head(returnTransaction)  x == p[i]
<1>1. /\ p \in Seq(Ids) /\ ReadLine \in Seq(Ids) /\ Len(p) \in Nat
      /\ Len(ReadLine) \in Nat /\ 1 \in 1 .. Len(ReadLine) /\ ReadLine[1] = h
  BY ReadFacts, HeadIsFirst, LenProperties
<1>2. /\ In(h, ReadLine) /\ In(x, p)
      /\ h \in Ids /\ Op(h) = "READ" /\ stage[h] = "issued" /\ h \in Int
      /\ x \in Ids /\ Op(x) = "READ" /\ stage[x] \in Begun /\ x \in Int
  <2>1. In(h, ReadLine) /\ In(x, p)
    BY <1>1 DEF In
  <2> QED
    BY <2>1, ReadFacts
<1>3. Addr(x) = Addr(h)
  BY DEF MatchesReturn
<1>4. ~(h < x)
  <2> SUFFICES ASSUME h < x PROVE FALSE
    OBVIOUS
  <2>1. h \in Unread
    BY DEF PairInv
  <2>2. PICK k \in 1 .. Len(p) : p[k] = h
    BY <2>1 DEF Unread, In
  <2>3. ~(k \in 1 .. i - 1) /\ k # i
    BY <1>2, <2>2 DEF MatchesReturn
  <2>4. i < k
    BY <1>1, <2>3
  <2>5. ByAddress[x] = ByAddress[h]
    BY <1>2, <1>3 DEF ByAddress
  <2>6. x < h
    BY <2>2, <2>4, <2>5 DEF PairInv, Rising
  <2> QED
    BY <1>2, <2>6
<1>5. ~(x < h)
  <2> SUFFICES ASSUME x < h PROVE FALSE
    OBVIOUS
  <2>1. stage[x] = "issued"
    BY <1>2, <1>3, ReadsOfOneStream DEF OrderInv, StageOrders
  <2>2. In(x, ReadLine)
    BY <1>2, <2>1 DEF PairInv, Unread, Flying
  <2>3. PICK m \in 1 .. Len(ReadLine) : ReadLine[m] = x
    BY <2>2 DEF In
  <2>4. 1 < m
    BY <1>1, <1>2, <2>3
  <2>5. ByAddress[x] = ByAddress[h]
    BY <1>2, <1>3 DEF ByAddress
  <2>6. h < x
    BY <1>1, <2>3, <2>4, <2>5 DEF PairInv, Rising
  <2> QED
    BY <1>2, <2>6
<1> QED
  BY <1>2, <1>4, <1>5

LEMMA PairReturning ==
    ASSUME ReadsApart, TypeOK, PlacesInv, LineInv, UnreadInv, OrderInv, PairInv,
           [Next]_vars, ReturnReadData
    PROVE  PairInv'
<1> DEFINE p == pendingReadTransactions  h == Head(returnTransaction)
<1>r. UNCHANGED request
  BY RequestFixed
<1>o. /\ \A u : Op(u)' = Op(u)
      /\ ByAddress' = ByAddress
  BY <1>r, RequestOperators DEF ByAddress
<1>1. PICK i \in 1 .. Len(p) :
        /\ MatchesReturn(i)
        /\ \A j \in 1 .. i - 1 : ~MatchesReturn(j)
        /\ CallBack(p[i])
        /\ p' = RemoveAt(p, i)
        /\ h \in Flying
        /\ Flying' = Flying \ {h}
        /\ Unread' = Unread \ {p[i]}
  BY SidesReturn
<1>2. ReadLine # <<>> /\ Head(ReadLine) = h /\ ReadLine' = Tail(ReadLine)
  BY <1>r, LineLeft
<1>3. p[i] = h
  BY <1>1, <1>2, ReturnIsOwn
<1>4. Flying' = Unread'
  BY <1>1, <1>3 DEF PairInv
<1>5. p \in Seq(Ids) /\ ReadLine \in Seq(Ids)
  BY ReadFacts
<1>6. Rising(ByAddress, ReadLine')
  BY <1>2, <1>5, RisingTail DEF PairInv
<1>7. Rising(ByAddress, p')
  BY <1>1, <1>5, RisingRemoveAt DEF PairInv
<1>8. stage[h] = "issued" /\ stage' = stage
  <2>1. In(h, ReadLine)
    BY <1>2, <1>5, HeadIsFirst DEF In
  <2> QED
    BY <2>1, ReadFacts, ReturnStep DEF Staying
<1>9. ReadCompletesAfterIssue'
  <2>1. finished' = finished \cup {h}
    BY <1>1, <1>3 DEF CallBack
  <2>2. \A t \in finished \cup {h} : Op(t) = "READ" => stage[t] = "issued"
    BY <1>8 DEF PairInv, ReadCompletesAfterIssue
  <2> QED
    BY <1>o, <1>8, <2>1, <2>2 DEF ReadCompletesAfterIssue
<1> QED
  BY <1>o, <1>4, <1>6, <1>7, <1>9 DEF PairInv, Rising

LEMMA PairNext ==
    ASSUME ReadsApart
    PROVE  BatchInv /\ PairInv /\ [Next]_vars => PairInv'
<1> SUFFICES ASSUME BatchInv, PairInv, [Next]_vars, ~ReturnReadData PROVE PairInv'
  BY PairReturning DEF BatchInv, FlowInv, ReadInv
<1>i. TypeOK /\ PlacesInv /\ LineInv /\ UnreadInv /\ OrderInv
  BY DEF BatchInv, FlowInv, ReadInv
<1>r. UNCHANGED request
  BY RequestFixed
<1>o. /\ \A u : Op(u)' = Op(u)
      /\ ByAddress' = ByAddress
  BY <1>r, RequestOperators DEF ByAddress
<1>1. Flying' = Unread'
  BY <1>i, SidesStep DEF PairInv
<1>2. Rising(ByAddress, ReadLine')
  <2>1. CASE \A t \in Ids : ~PopCommand(t)
    BY <1>i, <2>1, ReadFrames DEF PairInv
  <2>2. ASSUME NEW t \in Ids, PopCommand(t) PROVE Rising(ByAddress, ReadLine')
    BY <1>i, <1>r, <2>2, PairPopping
  <2> QED
    BY <2>1, <2>2
<1>3. Rising(ByAddress, pendingReadTransactions')
  <2>1. CASE ~EnqueueCommand
    BY <1>i, <2>1, ReadFrames DEF PairInv
  <2>2. CASE EnqueueCommand
    BY <1>i, <2>2, EnqueueStep, PairEnqueuing
  <2> QED
    BY <2>1, <2>2
<1>4. ReadCompletesAfterIssue'
  <2>1. Movement
    BY <1>i, MovementOfNext
  <2>2. \A t \in finished' : Op(t) = "READ" => t \in finished
    BY <1>i, FinishedStep DEF CallBack
  <2>3. \A t \in finished : Op(t) = "READ" => stage[t] = "issued"
    BY DEF PairInv, ReadCompletesAfterIssue
  <2>4. finished \subseteq Ids
    BY <1>i DEF TypeOK, TransactionType
  <2>5. \A t \in finished' : Op(t) = "READ" => stage'[t] = "issued"
    BY <1>i, <2>1, <2>2, <2>3, <2>4, StageOrder
  <2> QED
    BY <1>o, <2>5 DEF ReadCompletesAfterIssue
<1> QED
  BY <1>o, <1>1, <1>2, <1>3, <1>4 DEF PairInv, Rising

LEMMA PairInit == Init => PairInv
<1> SUFFICES ASSUME Init PROVE PairInv
  OBVIOUS
<1>1. ReadLine = <<>> /\ pendingReadTransactions = <<>>
  BY ConcatEmptySeq DEF Init, ReadLine, BusRead
<1>2. Flying = {} /\ Unread = {}
  BY <1>1, InEmpty DEF Init, Flying, Unread
<1>3. ReadCompletesAfterIssue
  BY DEF Init, ReadCompletesAfterIssue
<1> QED
  BY <1>1, <1>2, <1>3 DEF PairInv, Rising

(* When the two sources read different cells, matching by address alone is    *)
(* matching by identity: a read is reported complete with its own data, after *)
(* its own command was issued.  Reads of one cell by both sources do break    *)
(* it.                                                                      *)
THEOREM ReadsCompleteAfterIssue ==
    ASSUME BatchDriver, ReadsApart
    PROVE  Spec => []ReadCompletesAfterIssue
<1>1. PairInv => ReadCompletesAfterIssue
  BY DEF PairInv
<1> QED
  BY <1>1, PairNext, PairInit, BatchInductive, PTL DEF Spec
=============================================================================
