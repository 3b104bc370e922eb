-------------------------- MODULE ReadReturn_proofs --------------------------
(***************************************************************************)
(* How the reads of HierarchyFrontEnd come back, and what numOnTheFly       *)
(* counts.  A read that has been issued travels along one line: the command *)
(* bus, the rank, the packets returned (ReadLine).  The controller keeps    *)
(* its own list of pending reads and matches the two by address only, so    *)
(* the read reported complete need not be the read that came back; what is  *)
(* invariant is that for each address the two hold as many reads.           *)
(***************************************************************************)
EXTENDS EpochOrder_proofs

Begun == {"command", "issued"}

In(t, s) == \E i \in 1 .. Len(s) : s[i] = t

Distinct(s) == \A i, j \in 1 .. Len(s) : s[i] = s[j] => i = j

BusRead ==
    IF outgoingCmdPacket # NoPacket /\ Op(outgoingCmdPacket) = "READ"
    THEN <<outgoingCmdPacket>> ELSE <<>>

ReadLine == (returnTransaction \o rankReads) \o BusRead

(* What travels has been issued, once;                                      *)
LineInv ==
    /\ Holds(stage, ReadLine, "issued")
    /\ \A i \in 1 .. Len(ReadLine) : Op(ReadLine[i]) = "READ"

(* what is pending has left the transaction queue and is not finished;      *)
UnreadInv ==
    /\ Distinct(pendingReadTransactions)
    /\ \A i \in 1 .. Len(pendingReadTransactions) :
        /\ stage[pendingReadTransactions[i]] \in Begun
        /\ pendingReadTransactions[i] \notin finished

(* the reads that will still come back, and the reads still to be reported, *)
(* are equally many at each address.                                        *)
Flying == {t \in Ids : Op(t) = "READ" /\ (stage[t] = "command" \/ In(t, ReadLine))}
Unread == {t \in Ids : In(t, pendingReadTransactions)}

At(S, a) == {t \in S : Addr(t) = a}

BalanceInv ==
    \A a \in Addresses : Cardinality(At(Flying, a)) = Cardinality(At(Unread, a))

(* A transaction is in the queue that its stage names.                      *)
FoundInv ==
    \A t \in Ids :
        /\ stage[t] = "none" => t > submitted
        /\ stage[t] = "pending" => In(t, pendingTransactions)
        /\ stage[t] = "queued" => In(t, transactionQueue)
        /\ stage[t] = "command" => In(t, commandQueue[RouteOf(t)])

(* numOnTheFly counts the transactions accepted and not finished;           *)
CountInv ==
    /\ \A t \in finished : stage[t] \in Begun
    /\ numOnTheFly = Cardinality(AcceptedSet) - Cardinality(finished)

(* while one waits in front of the controller, another is unfinished in it. *)
WaitInv ==
    pendingTransactions # <<>> =>
        /\ phase \in {"command", "data", "burst", "pop", "enqueue"} =>
            transactionQueue # <<>>
        /\ phase = "return" =>
            transactionQueue # <<>> \/ \E t \in Ids : stage[t] = "command"
        /\ phase = "idle" => \E t \in AcceptedSet : t \notin finished

ReadInv == LineInv /\ UnreadInv /\ BalanceInv
FlowInv == ReadInv /\ FoundInv /\ CountInv /\ WaitInv
-----------------------------------------------------------------------------
(* Membership in a queue as it grows and shrinks.                           *)
LEMMA InAppend ==
    ASSUME NEW s \in Seq(Ids), NEW x \in Ids
    PROVE  \A t : In(t, Append(s, x)) <=> In(t, s) \/ t = x
<1>1. /\ Len(s) \in Nat /\ Len(Append(s, x)) = Len(s) + 1
      /\ Append(s, x)[Len(s) + 1] = x
      /\ \A j \in 1 .. Len(s) : Append(s, x)[j] = s[j]
  BY LenProperties, AppendProperties
<1>2. \A j \in 1 .. Len(s) + 1 : j = Len(s) + 1 \/ j \in 1 .. Len(s)
  BY <1>1
<1>3. Len(s) + 1 \in 1 .. Len(s) + 1 /\ \A j \in 1 .. Len(s) : j \in 1 .. Len(s) + 1
  BY <1>1
<1> QED
  BY <1>1, <1>2, <1>3 DEF In

LEMMA InRemoveAt ==
    ASSUME NEW s \in Seq(Ids), Distinct(s), NEW i \in 1 .. Len(s)
    PROVE  \A t : In(t, RemoveAt(s, i)) <=> In(t, s) /\ t # s[i]
<1> DEFINE k(j) == IF j < i THEN j ELSE j + 1
<1>1. /\ Len(s) \in Nat /\ Len(RemoveAt(s, i)) = Len(s) - 1
      /\ \A j \in 1 .. Len(s) - 1 : RemoveAt(s, i)[j] = s[k(j)]
  BY LenProperties, RemoveAtProperties
<1>2. ASSUME NEW t, In(t, RemoveAt(s, i)) PROVE In(t, s) /\ t # s[i]
  <2>1. PICK j \in 1 .. Len(s) - 1 : s[k(j)] = t
    BY <1>1, <1>2 DEF In
  <2>2. k(j) \in 1 .. Len(s) /\ k(j) # i
    BY <1>1
  <2> QED
    BY <2>1, <2>2 DEF In, Distinct
<1>3. ASSUME NEW t, In(t, s), t # s[i] PROVE In(t, RemoveAt(s, i))
  <2>1. PICK m \in 1 .. Len(s) : s[m] = t
    BY <1>3 DEF In
  <2>2. m # i
    BY <2>1, <1>3
  <2> DEFINE j == IF m < i THEN m ELSE m - 1
  <2>3. j \in 1 .. Len(s) - 1 /\ k(j) = m
    BY <1>1, <2>2
  <2> QED
    BY <1>1, <2>1, <2>3 DEF In
<1> QED
  BY <1>2, <1>3

LEMMA HeadIsFirst ==
    ASSUME NEW s \in Seq(Ids), s # <<>>
    PROVE  /\ Len(s) \in Nat /\ Len(s) >= 1 /\ 1 \in 1 .. Len(s)
           /\ Head(s) = s[1] /\ Head(s) \in Ids
           /\ Len(Tail(s)) = Len(s) - 1
           /\ \A j \in 1 .. Len(s) - 1 : Tail(s)[j] = s[j + 1]
  BY LenProperties, EmptySeq, HeadTailProperties

LEMMA InTail ==
    ASSUME NEW s \in Seq(Ids), Distinct(s), s # <<>>
    PROVE  \A t : In(t, Tail(s)) <=> In(t, s) /\ t # Head(s)
<1>1. /\ Len(s) \in Nat /\ Len(s) >= 1 /\ 1 \in 1 .. Len(s) /\ Head(s) = s[1]
      /\ Len(Tail(s)) = Len(s) - 1
      /\ \A j \in 1 .. Len(s) - 1 : Tail(s)[j] = s[j + 1]
  BY HeadIsFirst
<1>2. ASSUME NEW t, In(t, Tail(s)) PROVE In(t, s) /\ t # Head(s)
  <2>1. PICK j \in 1 .. Len(s) - 1 : s[j + 1] = t
    BY <1>1, <1>2 DEF In
  <2>2. j + 1 \in 1 .. Len(s) /\ j + 1 # 1
    BY <1>1
  <2> QED
    BY <1>1, <2>1, <2>2 DEF In, Distinct
<1>3. ASSUME NEW t, In(t, s), t # Head(s) PROVE In(t, Tail(s))
  <2>1. PICK m \in 1 .. Len(s) : s[m] = t
    BY <1>3 DEF In
  <2>2. m - 1 \in 1 .. Len(s) - 1 /\ (m - 1) + 1 = m
    BY <1>1, <1>3, <2>1
  <2> QED
    BY <1>1, <2>1, <2>2 DEF In
<1> QED
  BY <1>2, <1>3

LEMMA InEmpty == \A t : ~In(t, <<>>)
  BY DEF In

LEMMA InIds ==
    ASSUME NEW s \in Seq(Ids)
    PROVE  /\ \A t : In(t, s) => t \in Ids
           /\ (\E t : In(t, s)) <=> s # <<>>
<1>1. \A t : In(t, s) => t \in Ids
  BY ElementOfSeq DEF In
<1>2. s # <<>> => In(Head(s), s)
  BY HeadIsFirst DEF In
<1> QED
  BY <1>1, <1>2, InEmpty
-----------------------------------------------------------------------------
(* A sequence is its head before its tail.                                  *)
LEMMA ConsTail ==
    ASSUME NEW s \in Seq(Ids), s # <<>>
    PROVE  s = <<Head(s)>> \o Tail(s)
<1>1. Len(s) \in Nat /\ Len(s) >= 1 /\ Head(s) = s[1]
  BY HeadIsFirst
<1>2. SubSeq(s, 1, Len(s)) = <<s[1]>> \o SubSeq(s, 1 + 1, Len(s))
  <2>1. 1 \in 1 .. Len(s) /\ Len(s) \in 1 .. Len(s)
    BY <1>1
  <2> QED
    BY <2>1, SubSeqRecursiveFirst
<1>3. SubSeq(s, 1, Len(s)) = s
  BY SubSeqFull
<1>4. Tail(s) = SubSeq(s, 1 + 1, Len(s))
  BY TailIsSubSeq
<1> QED
  BY <1>1, <1>2, <1>3, <1>4

LEMMA TailCons ==
    ASSUME NEW h \in Ids, NEW s \in Seq(Ids)
    PROVE  /\ <<h>> \o s # <<>> /\ Head(<<h>> \o s) = h
           /\ Tail(<<h>> \o s) = s
<1> DEFINE c == <<h>> \o s
<1>1. <<h>> \in Seq(Ids) /\ Len(<<h>>) = 1
  OBVIOUS
<1>2. /\ c \in Seq(Ids) /\ Len(c) = 1 + Len(s)
      /\ \A i \in 1 .. 1 + Len(s) : c[i] = IF i <= 1 THEN <<h>>[i] ELSE s[i - 1]
  BY <1>1, ConcatProperties
<1>3. Len(s) \in Nat
  BY LenProperties
<1> HIDE DEF c
<1>4. c # <<>>
  BY <1>2, <1>3, EmptySeq
<1>5. Head(c) = h
  BY <1>2, <1>3, <1>4, HeadIsFirst
<1>6. Tail(c) \in Seq(Ids) /\ Len(Tail(c)) = Len(s)
      /\ \A j \in 1 .. Len(s) : Tail(c)[j] = s[j]
  BY <1>2, <1>3, <1>4, HeadTailProperties
<1>7. Tail(c) = s
  BY <1>6, SeqEqual
<1> QED
  BY <1>4, <1>5, <1>7 DEF c

LEMMA LineType ==
    ASSUME TypeOK
    PROVE  /\ returnTransaction \in Seq(Ids) /\ rankReads \in Seq(Ids)
           /\ pendingReadTransactions \in Seq(Ids)
           /\ BusRead \in Seq(Ids) /\ ReadLine \in Seq(Ids)
<1>1. returnTransaction \in Seq(Ids) /\ rankReads \in Seq(Ids)
      /\ pendingReadTransactions \in Seq(Ids)
  BY DEF TypeOK, ReadType
<1>2. BusRead \in Seq(Ids)
  <2>1. outgoingCmdPacket # NoPacket => outgoingCmdPacket \in Ids
    BY DEF TypeOK, TransactionType
  <2> QED
    BY <2>1 DEF BusRead
<1> QED
  BY <1>1, <1>2, ConcatProperties DEF ReadLine

(* The steps of a read along the line leave the line as it is; it is joined  *)
(* at its end and left at its head.                                         *)
LEMMA LineKept ==
    ASSUME TypeOK, UNCHANGED request,
           RankReturns \/ CommandBusRead
    PROVE  ReadLine' = ReadLine
<1> DEFINE r == returnTransaction  k == rankReads
<1>t. r \in Seq(Ids) /\ k \in Seq(Ids) /\ BusRead \in Seq(Ids)
  BY LineType
<1>o. \A u : Op(u)' = Op(u)
  BY RequestOperators
<1>1. CASE RankReturns
  <2>1. /\ k # <<>> /\ returnTransaction' = Append(r, Head(k)) /\ rankReads' = Tail(k)
        /\ outgoingCmdPacket' = outgoingCmdPacket
    BY <1>1 DEF RankReturns
  <2>2. BusRead' = BusRead
    BY <2>1, <1>o DEF BusRead
  <2>3. Head(k) \in Ids /\ Tail(k) \in Seq(Ids) /\ <<Head(k)>> \in Seq(Ids)
    BY <1>t, <2>1, HeadTailProperties
  <2>4. Append(r, Head(k)) \o Tail(k) = r \o k
    <3>1. Append(r, Head(k)) = r \o <<Head(k)>>
      BY <1>t, <2>3, AppendIsConcat
    <3>2. (r \o <<Head(k)>>) \o Tail(k) = r \o (<<Head(k)>> \o Tail(k))
      BY <1>t, <2>3, ConcatAssociative
    <3>3. <<Head(k)>> \o Tail(k) = k
      BY <1>t, <2>1, ConsTail
    <3> QED
      BY <3>1, <3>2, <3>3
  <2> QED
    BY <2>1, <2>2, <2>4 DEF ReadLine
<1>2. CASE CommandBusRead
  <2> DEFINE o == outgoingCmdPacket
  <2>1. /\ o # NoPacket /\ Op(o) = "READ" /\ outgoingCmdPacket' = NoPacket
        /\ returnTransaction' = r /\ rankReads' = Append(k, o)
    BY <1>2 DEF CommandBusRead, CommandBus
  <2>2. o \in Ids
    BY <2>1 DEF TypeOK, TransactionType
  <2>3. BusRead' = <<>> /\ BusRead = <<o>> /\ <<o>> \in Seq(Ids)
    BY <2>1, <2>2 DEF BusRead
  <2> HIDE DEF o
  <2>4. r \o Append(k, o) = (r \o k) \o <<o>>
    BY <1>t, <2>2, <2>3, AppendIsConcat, ConcatAssociative
  <2>5. r \o Append(k, o) \in Seq(Ids)
    BY <1>t, <2>2, AppendProperties, ConcatProperties
  <2>6. (r \o Append(k, o)) \o <<>> = r \o Append(k, o)
    BY <2>5, ConcatEmptySeq
  <2> QED
    BY <2>1, <2>3, <2>4, <2>6 DEF ReadLine
<1> QED
  BY <1>1, <1>2

LEMMA LineJoined ==
    ASSUME TypeOK, UNCHANGED request, NEW t \in Ids, PopCommand(t)
    PROVE  ReadLine' = IF Op(t) = "READ" THEN Append(ReadLine, t) ELSE ReadLine
<1> DEFINE p == returnTransaction \o rankReads
<1>1. /\ outgoingCmdPacket = NoPacket /\ outgoingCmdPacket' = t
      /\ UNCHANGED <<returnTransaction, rankReads>>
  BY DEF PopCommand, IssueCommand, readVars
<1>2. p \in Seq(Ids) /\ t # NoPacket
  BY LineType, ConcatProperties DEF Ids, NoPacket
<1>3. Op(t)' = Op(t)
  BY RequestOperators
<1>4. BusRead = <<>> /\ BusRead' = IF Op(t) = "READ" THEN <<t>> ELSE <<>>
  BY <1>1, <1>2, <1>3 DEF BusRead
<1>5. ReadLine = p /\ ReadLine' = IF Op(t) = "READ" THEN p \o <<t>> ELSE p \o <<>>
  BY <1>1, <1>2, <1>4, ConcatEmptySeq DEF ReadLine
<1>6. p \o <<t>> = Append(p, t) /\ p \o <<>> = p
  BY <1>2, AppendIsConcat, ConcatEmptySeq
<1> QED
  BY <1>5, <1>6

LEMMA LineLeft ==
    ASSUME TypeOK, UNCHANGED request, ReturnReadData
    PROVE  /\ ReadLine # <<>> /\ Head(ReadLine) = Head(returnTransaction)
           /\ ReadLine' = Tail(ReadLine)
<1> DEFINE r == returnTransaction  k == rankReads  b == BusRead  h == Head(r)
<1>t. r \in Seq(Ids) /\ k \in Seq(Ids) /\ b \in Seq(Ids)
  BY LineType
<1>1. /\ r # <<>> /\ returnTransaction' = Tail(r)
      /\ UNCHANGED <<rankReads, outgoingCmdPacket>>
  BY DEF ReturnReadData
<1>2. BusRead' = b
  BY <1>1, RequestOperators DEF BusRead
<1>3. h \in Ids /\ Tail(r) \in Seq(Ids) /\ r = <<h>> \o Tail(r) /\ <<h>> \in Seq(Ids)
  BY <1>t, <1>1, HeadTailProperties, ConsTail
<1> HIDE DEF r, k, b, h
<1>4. Tail(r) \o k \in Seq(Ids) /\ (Tail(r) \o k) \o b \in Seq(Ids)
  BY <1>t, <1>3, ConcatProperties
<1>5. (r \o k) \o b = <<h>> \o ((Tail(r) \o k) \o b)
  <2>1. r \o k = <<h>> \o (Tail(r) \o k)
    BY <1>t, <1>3, ConcatAssociative
  <2> QED
    BY <1>t, <1>3, <1>4, <2>1, ConcatAssociative
<1>6. /\ (r \o k) \o b # <<>> /\ Head((r \o k) \o b) = h
      /\ Tail((r \o k) \o b) = (Tail(r) \o k) \o b
  BY <1>3, <1>4, <1>5, TailCons
<1> QED
  BY <1>1, <1>2, <1>6 DEF ReadLine, r, k, b, h
-----------------------------------------------------------------------------
(* The steps that move a transaction from stage to stage, and what they do  *)
(* to the queues; every other step leaves the stages and the queues alone.  *)
Moves(t, from, to) == stage[t] = from /\ stage' = [stage EXCEPT ![t] = to]

Entering(t) ==
    /\ t = submitted + 1 /\ submitted' = t
    /\ UNCHANGED commandQueue
    /\ \/ /\ SubmitAccepted(t) /\ Moves(t, "none", "queued")
          /\ transactionQueue' = Append(transactionQueue, t)
          /\ UNCHANGED pendingTransactions
       \/ /\ SubmitPending(t) /\ Moves(t, "none", "pending")
          /\ pendingTransactions' = Append(pendingTransactions, t)
          /\ UNCHANGED transactionQueue

Pulling(t) ==
    /\ PullPending /\ pendingTransactions # <<>> /\ t = Head(pendingTransactions)
    /\ Moves(t, "pending", "queued")
    /\ pendingTransactions' = Tail(pendingTransactions)
    /\ transactionQueue' = Append(transactionQueue, t)
    /\ UNCHANGED <<submitted, commandQueue>>

Enqueuing(t, i) ==
    /\ EnqueueCommand /\ i \in 1 .. Len(transactionQueue) /\ t = transactionQueue[i]
    /\ Moves(t, "queued", "command")
    /\ Schedulable(i)
    /\ transactionQueue' = RemoveAt(transactionQueue, i)
    /\ commandQueue' = [commandQueue EXCEPT ![RouteOf(t)] = Append(@, t)]
    /\ pendingReadTransactions' =
        IF Op(t) = "READ" THEN Append(pendingReadTransactions, t)
        ELSE pendingReadTransactions
    /\ UNCHANGED <<submitted, pendingTransactions>>

Popping(t, i) ==
    /\ PopCommand(t)
    /\ i \in 1 .. Len(commandQueue[RouteOf(t)]) /\ commandQueue[RouteOf(t)][i] = t
    /\ Moves(t, "command", "issued")
    /\ ~HasPriorDependency(commandQueue[RouteOf(t)], i)
    /\ commandQueue' = [commandQueue EXCEPT ![RouteOf(t)] = RemoveAt(@, i)]
    /\ UNCHANGED <<submitted, pendingTransactions, transactionQueue>>

Staying ==
    UNCHANGED <<stage, submitted, pendingTransactions, transactionQueue, commandQueue>>

Movement ==
    \/ Staying
    \/ \E t \in Ids :
        \/ Entering(t) \/ Pulling(t)
        \/ \E i \in Nat : Enqueuing(t, i) \/ Popping(t, i)

LEMMA MovementOfDriver == TypeOK /\ PlacesInv /\ Driver => Movement
<1> SUFFICES ASSUME TypeOK, PlacesInv, Driver PROVE Movement
  OBVIOUS
<1>1. ASSUME NEW t \in Ids, SubmitAccepted(t) \/ SubmitPending(t) PROVE Movement
  <2>1. t = submitted + 1 /\ submitted' = t /\ UNCHANGED commandQueue
    BY <1>1 DEF SubmitAccepted, SubmitPending, Submit
  <2>2. stage[t] = "none"
    <3>1. t > submitted
      BY <2>1 DEF TypeOK, DriverType
    <3> QED
      BY <3>1 DEF PlacesInv, QueuePlaces
  <2>3. Entering(t)
    BY <1>1, <2>1, <2>2 DEF Entering, SubmitAccepted, SubmitPending, AddTransaction, Moves
  <2> QED
    BY <2>3 DEF Movement
<1>2. CASE BarrierPending \/ BarrierQueued
  BY <1>2 DEF BarrierPending, BarrierQueued, Barrier, queueVars, Movement, Staying
<1>3. CASE EnterRunPIM \/ LeaveRunPIM
  BY <1>3 DEF EnterRunPIM, LeaveRunPIM, queueVars, Movement, Staying
<1> QED
  BY <1>1, <1>2, <1>3 DEF Driver

LEMMA EnqueueStep ==
    ASSUME TypeOK, PlacesInv, EnqueueCommand
    PROVE  \E t \in Ids : \E i \in Nat : Enqueuing(t, i)
<1>q. QueuePlaces
  BY DEF PlacesInv
<1>1. PICK i \in DOMAIN transactionQueue :
        LET t == transactionQueue[i] IN
        /\ Schedulable(i)
        /\ transactionQueue' = RemoveAt(transactionQueue, i)
        /\ commandQueue' = [commandQueue EXCEPT ![RouteOf(t)] = Append(@, t)]
        /\ stage' = [stage EXCEPT ![t] = "command"]
        /\ pendingReadTransactions' =
            IF Op(t) = "READ" THEN Append(pendingReadTransactions, t)
            ELSE pendingReadTransactions
  BY DEF EnqueueCommand
<1>2. i \in 1 .. Len(transactionQueue) /\ i \in Nat
  BY <1>q, QueueFacts, LenProperties
<1>3. transactionQueue[i] \in Ids /\ stage[transactionQueue[i]] = "queued"
  BY <1>q, <1>2, QueueFacts, ElementOfSeq DEF QueuePlaces, Holds
<1>4. UNCHANGED <<submitted, pendingTransactions>>
  BY DEF EnqueueCommand, driverVars
<1>5. Enqueuing(transactionQueue[i], i)
  BY <1>1, <1>2, <1>3, <1>4 DEF Enqueuing, Moves
<1> QED
  BY <1>2, <1>3, <1>5

LEMMA PopStep ==
    ASSUME TypeOK, PlacesInv, NEW t \in Ids, PopCommand(t)
    PROVE  \E i \in Nat : Popping(t, i)
<1>q. QueuePlaces
  BY DEF PlacesInv
<1>1. PICK r \in Route : \E i \in DOMAIN commandQueue[r] :
        /\ commandQueue[r][i] = t
        /\ ~HasPriorDependency(commandQueue[r], i)
        /\ commandQueue' = [commandQueue EXCEPT ![r] = RemoveAt(@, i)]
  BY DEF PopCommand, TakeCommand
<1>2. PICK i \in DOMAIN commandQueue[r] :
        /\ commandQueue[r][i] = t
        /\ ~HasPriorDependency(commandQueue[r], i)
        /\ commandQueue' = [commandQueue EXCEPT ![r] = RemoveAt(@, i)]
  BY <1>1
<1>3. i \in 1 .. Len(commandQueue[r]) /\ i \in Nat
  BY <1>q, QueueFacts, LenProperties
<1>4. stage[t] = "command" /\ r = RouteOf(t)
  BY <1>q, <1>2, <1>3 DEF QueuePlaces, Holds
<1>5. /\ stage' = [stage EXCEPT ![t] = "issued"]
      /\ UNCHANGED <<submitted, pendingTransactions, transactionQueue>>
  BY DEF PopCommand, driverVars
<1>6. Popping(t, i)
  BY <1>2, <1>3, <1>4, <1>5 DEF Popping, Moves
<1> QED
  BY <1>3, <1>6

LEMMA MovementOfUpdate == TypeOK /\ PlacesInv /\ Update => Movement
<1> SUFFICES ASSUME TypeOK, PlacesInv, Update PROVE Movement
  OBVIOUS
<1>q. QueuePlaces
  BY DEF PlacesInv
<1>1. CASE \/ BeginUpdate \/ RankReturns \/ RankWaits \/ PullNothing
           \/ CommandBusRead \/ CommandBusDirect \/ CommandBusOther
           \/ DataBusDone \/ DataBusBusy \/ WriteDataStarts \/ WriteDataWaits
           \/ PopNothing \/ EnqueueNothing \/ ReturnReadData \/ ReturnNothing
  <2>1. UNCHANGED stage /\ UNCHANGED queueVars /\ UNCHANGED driverVars
    BY <1>1 DEF BeginUpdate, RankReturns, RankWaits, PullNothing, CommandBusRead,
                CommandBusDirect, CommandBusOther, CommandBus, DataBusDone,
                DataBusBusy, WriteDataStarts, WriteDataWaits, PopNothing,
                EnqueueNothing, ReturnReadData, ReturnNothing
  <2> QED
    BY <2>1 DEF queueVars, driverVars, Movement, Staying
<1>2. CASE PullPending
  <2> DEFINE t == Head(pendingTransactions)
  <2>1. t \in Ids /\ stage[t] = "pending"
    BY <1>2, <1>q, QueueFacts DEF PullPending
  <2>2. Pulling(t)
    BY <1>2, <2>1 DEF PullPending, Pulling, AddTransaction, Moves, driverVars
  <2> QED
    BY <2>1, <2>2 DEF Movement
<1>3. EnqueueCommand => Movement
  BY EnqueueStep DEF Movement
<1>4. ASSUME NEW t \in Ids, PopCommand(t) PROVE Movement
  BY <1>4, PopStep DEF Movement
<1> QED
  BY <1>1, <1>2, <1>3, <1>4 DEF Update

LEMMA MovementOfNext == TypeOK /\ PlacesInv /\ [Next]_vars => Movement
<1>1. UNCHANGED vars => Movement
  BY DEF vars, driverVars, queueVars, Movement, Staying
<1> QED
  BY <1>1, MovementOfDriver, MovementOfUpdate DEF Next

(* How the stage of one transaction may change.                             *)
LEMMA StageOrder ==
    ASSUME TypeOK, Movement
    PROVE  /\ \A t \in Ids : stage[t] \in Begun => stage'[t] \in Begun
           /\ \A t \in Ids : stage[t] = "issued" => stage'[t] = "issued"
           /\ \A t \in Ids : Accepted(t) => Accepted(t)'
           /\ \A t \in Ids : stage'[t] = "none" => stage[t] = "none"
<1>1. stage \in [Ids -> Stages]
  BY DEF TypeOK, TransactionType
<1>2. ASSUME NEW u \in Ids,
             \/ Moves(u, "none", "queued") \/ Moves(u, "none", "pending")
             \/ Moves(u, "pending", "queued") \/ Moves(u, "queued", "command")
             \/ Moves(u, "command", "issued")
      PROVE  \A t \in Ids :
                /\ stage[t] \in Begun => stage'[t] \in Begun
                /\ stage[t] = "issued" => stage'[t] = "issued"
                /\ Accepted(t) => Accepted(t)'
                /\ stage'[t] = "none" => stage[t] = "none"
  BY <1>1, <1>2 DEF Moves, Begun, Accepted
<1>3. CASE Staying
  BY <1>3 DEF Staying, Accepted
<1>4. CASE ~Staying
  <2>1. PICK u \in Ids :
             \/ Moves(u, "none", "queued") \/ Moves(u, "none", "pending")
             \/ Moves(u, "pending", "queued") \/ Moves(u, "queued", "command")
             \/ Moves(u, "command", "issued")
    BY <1>4 DEF Movement, Entering, Pulling, Enqueuing, Popping
  <2> QED
    BY <1>2, <2>1
<1> QED
  BY <1>3, <1>4
-----------------------------------------------------------------------------
(* Every transaction stays where its stage says.                            *)
LEMMA FoundNext ==
    ASSUME TypeOK, PlacesInv, FoundInv, [Next]_vars
    PROVE  FoundInv'
<1>m. Movement
  BY MovementOfNext
<1>r. \A u : RouteOf(u)' = RouteOf(u)
  BY RequestFixed, RequestOperators
<1>s. /\ stage \in [Ids -> Stages] /\ submitted \in Int /\ \A u \in Ids : u \in Int
      /\ \A u \in Ids : RouteOf(u) \in Route
      /\ commandQueue \in [Route -> Seq(Ids)]
  BY RequestFields DEF TypeOK, TransactionType, DriverType, QueueType, Ids
<1>q. /\ pendingTransactions \in Seq(Ids) /\ Distinct(pendingTransactions)
      /\ transactionQueue \in Seq(Ids) /\ Distinct(transactionQueue)
      /\ \A r \in Route : commandQueue[r] \in Seq(Ids) /\ Distinct(commandQueue[r])
  BY QueueFacts DEF PlacesInv, QueuePlaces, Holds, Distinct
<1> DEFINE In2(t) ==
        /\ stage'[t] = "none" => t > submitted'
        /\ stage'[t] = "pending" => In(t, pendingTransactions')
        /\ stage'[t] = "queued" => In(t, transactionQueue')
        /\ stage'[t] = "command" => In(t, commandQueue'[RouteOf(t)])
<1>1. CASE Staying
  BY <1>1, <1>r DEF Staying, FoundInv, In
<1>2. ASSUME NEW t \in Ids, Entering(t) PROVE \A u \in Ids : In2(u)
  <2>1. CASE SubmitAccepted(t) /\ Moves(t, "none", "queued")
    <3>1. /\ transactionQueue' = Append(transactionQueue, t)
          /\ UNCHANGED <<pendingTransactions, commandQueue>>
          /\ submitted' = submitted + 1 /\ t = submitted + 1
      BY <1>2, <2>1, <1>s DEF Entering, Moves, SubmitPending, SubmitAccepted
    <3> QED
      BY <1>q, <1>s, <2>1, <3>1, InAppend DEF FoundInv, Moves
  <2>2. CASE SubmitPending(t) /\ Moves(t, "none", "pending")
    <3>1. /\ pendingTransactions' = Append(pendingTransactions, t)
          /\ UNCHANGED <<transactionQueue, commandQueue>>
          /\ submitted' = submitted + 1 /\ t = submitted + 1
      BY <1>2, <2>2, <1>s DEF Entering, Moves, SubmitPending, SubmitAccepted
    <3> QED
      BY <1>q, <1>s, <2>2, <3>1, InAppend DEF FoundInv, Moves
  <2> QED
    BY <1>2, <2>1, <2>2 DEF Entering
<1>3. ASSUME NEW t \in Ids, Pulling(t) PROVE \A u \in Ids : In2(u)
  <2>1. /\ \A u : In(u, pendingTransactions') <=> In(u, pendingTransactions) /\ u # t
        /\ \A u : In(u, transactionQueue') <=> In(u, transactionQueue) \/ u = t
    BY <1>3, <1>q, InTail, InAppend DEF Pulling
  <2> QED
    BY <1>3, <1>s, <2>1 DEF Pulling, Moves, FoundInv
<1>4. ASSUME NEW t \in Ids, NEW i \in Nat, Enqueuing(t, i) PROVE \A u \in Ids : In2(u)
  <2>1. \A u : In(u, transactionQueue') <=> In(u, transactionQueue) /\ u # t
    BY <1>4, <1>q, InRemoveAt DEF Enqueuing
  <2>2. /\ commandQueue'[RouteOf(t)] = Append(commandQueue[RouteOf(t)], t)
        /\ \A r \in Route : r # RouteOf(t) => commandQueue'[r] = commandQueue[r]
    BY <1>4, <1>s DEF Enqueuing
  <2>3. \A u : In(u, commandQueue'[RouteOf(t)]) <=>
                In(u, commandQueue[RouteOf(t)]) \/ u = t
    BY <1>q, <1>s, <2>2, InAppend
  <2>4. \A u \in Ids : stage'[u] = IF u = t THEN "command" ELSE stage[u]
    BY <1>4, <1>s DEF Enqueuing, Moves
  <2> QED
    BY <1>4, <1>s, <2>1, <2>2, <2>3, <2>4 DEF Enqueuing, FoundInv
<1>5. ASSUME NEW t \in Ids, NEW i \in Nat, Popping(t, i) PROVE \A u \in Ids : In2(u)
  <2>1. /\ commandQueue'[RouteOf(t)] = RemoveAt(commandQueue[RouteOf(t)], i)
        /\ \A r \in Route : r # RouteOf(t) => commandQueue'[r] = commandQueue[r]
    BY <1>5, <1>s DEF Popping
  <2>2. \A u : In(u, commandQueue'[RouteOf(t)]) <=>
                In(u, commandQueue[RouteOf(t)]) /\ u # t
    BY <1>5, <1>q, <1>s, <2>1, InRemoveAt DEF Popping
  <2>3. \A u \in Ids : stage'[u] = IF u = t THEN "issued" ELSE stage[u]
    BY <1>5, <1>s DEF Popping, Moves
  <2> QED
    BY <1>5, <1>s, <2>1, <2>2, <2>3 DEF Popping, FoundInv
<1>6. ASSUME \A u \in Ids : In2(u) PROVE FoundInv'
  BY <1>6, <1>r DEF FoundInv, In
<1> QED
  BY <1>1, <1>2, <1>3, <1>4, <1>5, <1>6, <1>m DEF Movement
-----------------------------------------------------------------------------
(* Only these steps touch the line and the list of pending reads.           *)
LEMMA ReadFrames ==
    ASSUME TypeOK, [Next]_vars, ~ReturnReadData
    PROVE  /\ (\A t \in Ids : ~PopCommand(t)) => ReadLine' = ReadLine
           /\ ~EnqueueCommand => UNCHANGED pendingReadTransactions
<1>r. UNCHANGED request
  BY RequestFixed
<1>o. \A u : Op(u)' = Op(u)
  BY <1>r, RequestOperators
<1>k. UNCHANGED <<outgoingCmdPacket, rankReads, returnTransaction>> => ReadLine' = ReadLine
  BY <1>o DEF ReadLine, BusRead
<1>1. CASE UNCHANGED vars
  BY <1>1, <1>k DEF vars, readVars
<1>2. CASE Driver
  <2>1. UNCHANGED outgoingCmdPacket /\ UNCHANGED readVars
    BY <1>2 DEF Driver, SubmitAccepted, SubmitPending, Submit, BarrierPending,
                BarrierQueued, Barrier, EnterRunPIM, LeaveRunPIM
  <2> QED
    BY <2>1, <1>k DEF readVars
<1>3. CASE \/ BeginUpdate \/ RankWaits \/ PullPending \/ PullNothing \/ DataBusDone
           \/ DataBusBusy \/ WriteDataStarts \/ WriteDataWaits \/ PopNothing
           \/ EnqueueNothing \/ ReturnNothing
  <2>1. UNCHANGED outgoingCmdPacket /\ UNCHANGED readVars
    BY <1>3 DEF BeginUpdate, RankWaits, PullPending, PullNothing, DataBusDone,
                DataBusBusy, WriteDataStarts, WriteDataWaits, PopNothing,
                EnqueueNothing, ReturnNothing
  <2> QED
    BY <2>1, <1>k DEF readVars
<1>4. CASE RankReturns \/ CommandBusRead
  <2>1. ReadLine' = ReadLine
    BY <1>r, <1>4, LineKept
  <2>2. UNCHANGED pendingReadTransactions
    BY <1>4 DEF RankReturns, CommandBusRead, CommandBus
  <2> QED
    BY <2>1, <2>2
<1>5. CASE CommandBusDirect \/ CommandBusOther
  <2>1. /\ BusRead = <<>>
        /\ outgoingCmdPacket' = NoPacket
        /\ UNCHANGED <<rankReads, returnTransaction, pendingReadTransactions>>
    BY <1>5 DEF CommandBusDirect, CommandBusOther, CommandBus, BusRead
  <2>2. BusRead' = <<>>
    BY <2>1 DEF BusRead
  <2> QED
    BY <2>1, <2>2 DEF ReadLine
<1>6. CASE EnqueueCommand
  <2>1. UNCHANGED <<outgoingCmdPacket, rankReads, returnTransaction>>
    BY <1>6 DEF EnqueueCommand
  <2> QED
    BY <1>6, <2>1, <1>k
<1>7. ASSUME NEW t \in Ids, PopCommand(t) PROVE UNCHANGED pendingReadTransactions
  BY <1>7 DEF PopCommand, readVars
<1> QED
  BY <1>1, <1>2, <1>3, <1>4, <1>5, <1>6, <1>7 DEF Next, Update

(* How transactions finish: a write or a direct command from a bus, a read   *)
(* from the list of pending reads.                                          *)
LEMMA FinishedStep ==
    ASSUME TypeOK, PlacesInv, [Next]_vars, ~ReturnReadData
    PROVE  \/ UNCHANGED finished
           \/ /\ Staying
              /\ \E t \in Ids : Op(t) # "READ" /\ InFlight(t) /\ CallBack(t)
<1>1. CASE UNCHANGED vars
  BY <1>1 DEF vars, doneVars
<1>2. CASE Driver
  BY <1>2 DEF Driver, SubmitAccepted, SubmitPending, Submit, BarrierPending,
              BarrierQueued, Barrier, EnterRunPIM, LeaveRunPIM, doneVars
<1>3. CASE \/ BeginUpdate \/ RankReturns \/ RankWaits \/ PullPending \/ PullNothing
           \/ CommandBusRead \/ CommandBusOther \/ DataBusBusy \/ WriteDataStarts
           \/ WriteDataWaits \/ (\E t \in Ids : PopCommand(t)) \/ PopNothing
           \/ EnqueueCommand \/ EnqueueNothing \/ ReturnNothing
  BY <1>3 DEF BeginUpdate, RankReturns, RankWaits, PullPending, PullNothing,
              CommandBusRead, CommandBusOther, DataBusBusy, WriteDataStarts,
              WriteDataWaits, PopCommand, PopNothing, EnqueueCommand,
              EnqueueNothing, ReturnNothing, doneVars
<1>4. CASE CommandBusDirect
  <2>1. /\ outgoingCmdPacket # NoPacket /\ Op(outgoingCmdPacket) = "DIRECT"
        /\ CallBack(outgoingCmdPacket) /\ Staying
    BY <1>4 DEF CommandBusDirect, CommandBus, Staying, driverVars, queueVars
  <2>2. outgoingCmdPacket \in Ids /\ InFlight(outgoingCmdPacket)
    BY <2>1, BusFacts DEF PlacesInv, BusPlaces, CommandBusPlaces, InFlight
  <2> QED
    BY <2>1, <2>2
<1>5. CASE DataBusDone
  <2>1. outgoingDataPacket # NoPacket /\ CallBack(outgoingDataPacket) /\ Staying
    BY <1>5 DEF DataBusDone, Staying, driverVars, queueVars
  <2>2. /\ outgoingDataPacket \in Ids /\ InFlight(outgoingDataPacket)
        /\ Op(outgoingDataPacket) = "WRITE"
    BY <2>1, BusFacts DEF PlacesInv, BusPlaces, DataBusPlaces
  <2> QED
    BY <2>1, <2>2
<1> QED
  BY <1>1, <1>2, <1>3, <1>4, <1>5 DEF Next, Update

LEMMA ReturnStep ==
    ASSUME TypeOK, ReturnReadData
    PROVE  /\ Staying /\ UNCHANGED request
           /\ \E i \in 1 .. Len(pendingReadTransactions) :
                /\ MatchesReturn(i)
                /\ \A j \in 1 .. i - 1 : ~MatchesReturn(j)
                /\ CallBack(pendingReadTransactions[i])
                /\ pendingReadTransactions' = RemoveAt(pendingReadTransactions, i)
<1>1. DOMAIN pendingReadTransactions = 1 .. Len(pendingReadTransactions)
  BY LineType, LenProperties
<1> QED
  BY <1>1 DEF ReturnReadData, Staying, driverVars, queueVars
-----------------------------------------------------------------------------
LEMMA LineNext ==
    ASSUME TypeOK, PlacesInv, LineInv, [Next]_vars
    PROVE  LineInv'
<1>m. Movement
  BY MovementOfNext
<1>r. UNCHANGED request
  BY RequestFixed
<1>o. \A u : Op(u)' = Op(u)
  BY <1>r, RequestOperators
<1>s. stage \in [Ids -> Stages] /\ ReadLine \in Seq(Ids)
  BY LineType DEF TypeOK, TransactionType
<1>1. CASE ReturnReadData
  <2>1. ReadLine # <<>> /\ ReadLine' = Tail(ReadLine) /\ UNCHANGED stage
    BY <1>r, <1>1, LineLeft, ReturnStep DEF Staying
  <2>2. Holds(stage', ReadLine', "issued")
    BY <1>s, <2>1, HoldsTail DEF LineInv
  <2>3. \A i \in 1 .. Len(ReadLine') : Op(ReadLine'[i]) = "READ"
    BY <1>s, <2>1, HeadIsFirst DEF LineInv
  <2> QED
    BY <1>o, <2>2, <2>3 DEF LineInv, Holds
<1>2. ASSUME NEW t \in Ids, PopCommand(t), Op(t) = "READ" PROVE LineInv'
  <2>1. ReadLine' = Append(ReadLine, t)
    BY <1>r, <1>2, LineJoined
  <2>2. stage[t] = "command" /\ stage' = [stage EXCEPT ![t] = "issued"]
    BY <1>2, PopStep DEF Popping, Moves
  <2>3. Holds(stage', Append(ReadLine, t), "issued")
    BY <1>s, <2>2, HoldsAppended DEF LineInv
  <2>4. \A i \in 1 .. Len(ReadLine') : ReadLine'[i] = t \/ In(ReadLine'[i], ReadLine)
    BY <1>s, <2>1, InAppend DEF In
  <2>5. \A i \in 1 .. Len(ReadLine') : Op(ReadLine'[i]) = "READ"
    BY <1>2, <2>4 DEF LineInv, In
  <2> QED
    BY <1>o, <2>1, <2>3, <2>5 DEF LineInv, Holds
<1>3. CASE ~ReturnReadData /\ \A t \in Ids : ~(PopCommand(t) /\ Op(t) = "READ")
  <2>1. ReadLine' = ReadLine
    BY <1>r, <1>3, LineJoined, ReadFrames
  <2>2. \A i \in 1 .. Len(ReadLine) : stage'[ReadLine[i]] = "issued"
    BY <1>m, <1>s, StageOrder, ElementOfSeq DEF LineInv, Holds
  <2> QED
    BY <1>o, <2>1, <2>2 DEF LineInv, Holds
<1> QED
  BY <1>1, <1>2, <1>3

LEMMA UnreadNext ==
    ASSUME TypeOK, PlacesInv, UnreadInv, CountInv, [Next]_vars
    PROVE  UnreadInv'
<1> DEFINE p == pendingReadTransactions
<1>m. Movement
  BY MovementOfNext
<1>s. stage \in [Ids -> Stages] /\ p \in Seq(Ids)
  BY LineType DEF TypeOK, TransactionType
<1>b. \A u \in Ids : stage[u] \in Begun => stage'[u] \in Begun
  BY <1>m, StageOrder
<1>1. CASE ReturnReadData
  <2>1. PICK i \in 1 .. Len(p) : CallBack(p[i]) /\ p' = RemoveAt(p, i)
    BY <1>1, ReturnStep
  <2>2. UNCHANGED stage /\ finished' = finished \cup {p[i]}
    BY <1>1, <2>1, ReturnStep DEF Staying, CallBack
  <2>3. \A u : In(u, p') <=> In(u, p) /\ u # p[i]
    BY <1>s, <2>1, InRemoveAt DEF UnreadInv
  <2>4. Distinct(p')
    <3> DEFINE k(j) == IF j < i THEN j ELSE j + 1
    <3>1. /\ Len(p') = Len(p) - 1 /\ Len(p) \in Nat
          /\ \A j \in 1 .. Len(p) - 1 : p'[j] = p[k(j)]
      BY <1>s, <2>1, RemoveAtProperties, LenProperties
    <3>2. \A j \in 1 .. Len(p) - 1 : k(j) \in 1 .. Len(p)
      BY <3>1
    <3> QED
      BY <3>1, <3>2 DEF Distinct, UnreadInv
  <2>5. \A i1 \in 1 .. Len(p') : stage[p'[i1]] \in Begun /\ p'[i1] \notin finished'
    BY <2>2, <2>3 DEF In, UnreadInv
  <2> QED
    BY <2>2, <2>4, <2>5 DEF UnreadInv, Distinct
<1>2. ASSUME ~ReturnReadData, NEW t \in Ids, NEW i \in Nat, Enqueuing(t, i), Op(t) = "READ"
      PROVE  UnreadInv'
  <2>1. p' = Append(p, t) /\ stage[t] = "queued" /\ stage'[t] = "command"
    BY <1>2, <1>s DEF Enqueuing, Moves
  <2>2. UNCHANGED finished
    BY <1>2 DEF Enqueuing, EnqueueCommand, doneVars
  <2>3. t \notin finished /\ ~In(t, p)
    BY <2>1 DEF CountInv, UnreadInv, In, Begun
  <2>4. /\ Len(p') = Len(p) + 1 /\ Len(p) \in Nat /\ p'[Len(p) + 1] = t
        /\ \A j \in 1 .. Len(p) : p'[j] = p[j] /\ p[j] \in Ids
    BY <1>s, <2>1, AppendProperties, LenProperties, ElementOfSeq
  <2>5. \A j \in 1 .. Len(p) + 1 : j = Len(p) + 1 \/ j \in 1 .. Len(p)
    BY <2>4
  <2>6. Distinct(p')
    BY <2>3, <2>4, <2>5 DEF Distinct, UnreadInv, In
  <2>7. \A j \in 1 .. Len(p') : stage'[p'[j]] \in Begun /\ p'[j] \notin finished'
    BY <1>b, <2>1, <2>2, <2>3, <2>4, <2>5 DEF UnreadInv, Begun
  <2> QED
    BY <2>6, <2>7 DEF UnreadInv, Distinct
<1>3. CASE ~ReturnReadData
           /\ \A t \in Ids : \A i \in Nat : ~(Enqueuing(t, i) /\ Op(t) = "READ")
  <2>1. UNCHANGED p
    <3>1. CASE \E t \in Ids : \E i \in Nat : Enqueuing(t, i)
      BY <1>3, <3>1 DEF Enqueuing
    <3>2. CASE \A t \in Ids : \A i \in Nat : ~Enqueuing(t, i)
      BY <1>3, <3>2, EnqueueStep, ReadFrames
    <3> QED
      BY <3>1, <3>2
  <2>2. \A j \in 1 .. Len(p) : p[j] \in Ids /\ Op(p[j]) = "READ"
    BY <1>s, ElementOfSeq DEF PlacesInv, ReadPlaces
  <2>3. \A j \in 1 .. Len(p) : p[j] \notin finished'
    BY <1>3, <2>2, FinishedStep DEF UnreadInv, CallBack
  <2> QED
    BY <1>b, <2>1, <2>2, <2>3 DEF UnreadInv, Distinct
<1> QED
  BY <1>1, <1>2, <1>3
-----------------------------------------------------------------------------
(* Both sides of the balance gain the same read, or lose one of the same    *)
(* address.                                                                 *)
LEMMA CardinalityMoves ==
    ASSUME NEW S, IsFiniteSet(S), NEW x
    PROVE  /\ x \notin S => Cardinality(S \cup {x}) = Cardinality(S) + 1
           /\ x \in S => Cardinality(S \ {x}) = Cardinality(S) - 1
           /\ Cardinality(S) \in Nat
  BY FS_AddElement, FS_RemoveElement, FS_CardinalityType

LEMMA FiniteParts ==
    /\ IsFiniteSet(Ids)
    /\ \A S \in SUBSET Ids : IsFiniteSet(S)
    /\ \A S \in SUBSET Ids : \A a : IsFiniteSet(At(S, a))
<1>1. IsFiniteSet(Ids)
  BY FS_Interval, ConstantsAssumption DEF Ids
<1>2. \A S \in SUBSET Ids : \A a : At(S, a) \in SUBSET Ids
  BY DEF At
<1> QED
  BY <1>1, <1>2, FS_Subset

LEMMA BalanceGains ==
    ASSUME BalanceInv, UNCHANGED request, NEW t \in Ids,
           Flying \subseteq Ids, Unread \subseteq Ids, t \notin Flying, t \notin Unread,
           Flying' = Flying \cup {t}, Unread' = Unread \cup {t}
    PROVE  BalanceInv'
<1>1. \A u : Addr(u)' = Addr(u)
  BY RequestOperators
<1> SUFFICES ASSUME NEW a \in Addresses
             PROVE  Cardinality(At(Flying, a)') = Cardinality(At(Unread, a)')
  BY DEF BalanceInv
<1>2. /\ IsFiniteSet(At(Flying, a)) /\ IsFiniteSet(At(Unread, a))
      /\ t \notin At(Flying, a) /\ t \notin At(Unread, a)
  BY FiniteParts DEF At
<1>3. CASE Addr(t) = a
  <2>1. At(Flying, a)' = At(Flying, a) \cup {t} /\ At(Unread, a)' = At(Unread, a) \cup {t}
    BY <1>1, <1>3 DEF At
  <2>2. /\ Cardinality(At(Flying, a) \cup {t}) = Cardinality(At(Flying, a)) + 1
        /\ Cardinality(At(Unread, a) \cup {t}) = Cardinality(At(Unread, a)) + 1
    BY <1>2, CardinalityMoves
  <2>3. Cardinality(At(Flying, a)) = Cardinality(At(Unread, a))
    BY DEF BalanceInv
  <2> QED
    BY <2>1, <2>2, <2>3
<1>4. CASE Addr(t) # a
  <2>1. At(Flying, a)' = At(Flying, a) /\ At(Unread, a)' = At(Unread, a)
    BY <1>1, <1>4 DEF At
  <2> QED
    BY <2>1 DEF BalanceInv
<1> QED
  BY <1>3, <1>4

LEMMA BalanceLoses ==
    ASSUME BalanceInv, UNCHANGED request, NEW h, NEW m,
           Flying \subseteq Ids, Unread \subseteq Ids, h \in Flying, m \in Unread,
           Addr(h) = Addr(m),
           Flying' = Flying \ {h}, Unread' = Unread \ {m}
    PROVE  BalanceInv'
<1>1. \A u : Addr(u)' = Addr(u)
  BY RequestOperators
<1> SUFFICES ASSUME NEW a \in Addresses
             PROVE  Cardinality(At(Flying, a)') = Cardinality(At(Unread, a)')
  BY DEF BalanceInv
<1>2. IsFiniteSet(At(Flying, a)) /\ IsFiniteSet(At(Unread, a))
  BY FiniteParts
<1>3. CASE Addr(h) = a
  <2>1. /\ At(Flying, a)' = At(Flying, a) \ {h} /\ At(Unread, a)' = At(Unread, a) \ {m}
        /\ h \in At(Flying, a) /\ m \in At(Unread, a)
    BY <1>1, <1>3 DEF At
  <2>2. /\ Cardinality(At(Flying, a) \ {h}) = Cardinality(At(Flying, a)) - 1
        /\ Cardinality(At(Unread, a) \ {m}) = Cardinality(At(Unread, a)) - 1
    BY <1>2, <2>1, CardinalityMoves
  <2>3. Cardinality(At(Flying, a)) = Cardinality(At(Unread, a))
    BY DEF BalanceInv
  <2> QED
    BY <2>1, <2>2, <2>3
<1>4. CASE Addr(h) # a
  <2>1. At(Flying, a)' = At(Flying, a) /\ At(Unread, a)' = At(Unread, a)
    BY <1>1, <1>4 DEF At
  <2> QED
    BY <2>1 DEF BalanceInv
<1> QED
  BY <1>3, <1>4

LEMMA BalanceStays ==
    ASSUME BalanceInv, UNCHANGED request, Flying' = Flying, Unread' = Unread
    PROVE  BalanceInv'
<1>1. \A u : Addr(u)' = Addr(u)
  BY RequestOperators
<1> QED
  BY <1>1 DEF BalanceInv, At

(* What a returned packet does to the two sides.                            *)
LEMMA SidesReturn ==
    ASSUME TypeOK, PlacesInv, LineInv, UnreadInv, [Next]_vars, ReturnReadData
    PROVE  \E i \in 1 .. Len(pendingReadTransactions) :
                /\ MatchesReturn(i)
                /\ \A j \in 1 .. i - 1 : ~MatchesReturn(j)
                /\ CallBack(pendingReadTransactions[i])
                /\ pendingReadTransactions' = RemoveAt(pendingReadTransactions, i)
                /\ Head(returnTransaction) \in Flying
                /\ Flying' = Flying \ {Head(returnTransaction)}
                /\ Unread' = Unread \ {pendingReadTransactions[i]}
<1> DEFINE p == pendingReadTransactions  h == Head(returnTransaction)
<1>r. UNCHANGED request
  BY RequestFixed
<1>o. \A u : Op(u)' = Op(u)
  BY <1>r, RequestOperators
<1>s. /\ stage \in [Ids -> Stages] /\ p \in Seq(Ids) /\ ReadLine \in Seq(Ids)
      /\ Distinct(p) /\ Distinct(ReadLine)
  BY LineType DEF TypeOK, TransactionType, UnreadInv, LineInv, Holds, Distinct
<1>l. \A u : In(u, ReadLine) => u \in Ids /\ Op(u) = "READ" /\ stage[u] = "issued"
  BY <1>s, InIds DEF LineInv, Holds, In
<1>f. Flying' = {u \in Ids : Op(u) = "READ" /\ (stage'[u] = "command" \/ In(u, ReadLine'))}
  BY <1>o DEF Flying, In
<1>u. Unread' = {u \in Ids : In(u, p')}
  BY DEF Unread, In
<1>1. PICK i \in 1 .. Len(p) :
        /\ MatchesReturn(i)
        /\ \A j \in 1 .. i - 1 : ~MatchesReturn(j)
        /\ CallBack(p[i])
        /\ p' = RemoveAt(p, i)
  BY ReturnStep
<1>2. ReadLine # <<>> /\ Head(ReadLine) = h /\ ReadLine' = Tail(ReadLine)
  BY <1>r, LineLeft
<1>3. /\ In(h, ReadLine)
      /\ \A u : In(u, ReadLine') <=> In(u, ReadLine) /\ u # h
  <2>1. \A u : In(u, Tail(ReadLine)) <=> In(u, ReadLine) /\ u # Head(ReadLine)
    BY <1>s, <1>2, InTail
  <2>2. 1 \in 1 .. Len(ReadLine) /\ ReadLine[1] = h
    BY <1>s, <1>2, HeadIsFirst
  <2> QED
    BY <1>2, <2>1, <2>2 DEF In
<1>4. \A u : In(u, p') <=> In(u, p) /\ u # p[i]
  BY <1>s, <1>1, InRemoveAt
<1>5. stage' = stage /\ stage[h] = "issued" /\ h \in Ids
  BY <1>l, <1>3, ReturnStep DEF Staying
<1>6. h \in Flying /\ Flying' = Flying \ {h}
  BY <1>l, <1>f, <1>3, <1>5 DEF Flying
<1>7. Unread' = Unread \ {p[i]}
  BY <1>u, <1>4 DEF Unread
<1> QED
  BY <1>1, <1>6, <1>7

(* What each kind of step does to the two sides.                            *)
LEMMA SidesStep ==
    ASSUME TypeOK, PlacesInv, LineInv, UnreadInv, [Next]_vars
    PROVE  \/ Flying' = Flying /\ Unread' = Unread
           \/ \E t \in Ids :
                /\ \E i \in Nat : Enqueuing(t, i)
                /\ t \notin Flying /\ t \notin Unread
                /\ Flying' = Flying \cup {t} /\ Unread' = Unread \cup {t}
           \/ /\ ReturnReadData
              /\ \E i \in 1 .. Len(pendingReadTransactions) :
                    /\ MatchesReturn(i)
                    /\ \A j \in 1 .. i - 1 : ~MatchesReturn(j)
                    /\ CallBack(pendingReadTransactions[i])
                    /\ Head(returnTransaction) \in Flying
                    /\ Flying' = Flying \ {Head(returnTransaction)}
                    /\ Unread' = Unread \ {pendingReadTransactions[i]}
<1> DEFINE p == pendingReadTransactions  h == Head(returnTransaction)
<1>m. Movement
  BY MovementOfNext
<1>r. UNCHANGED request
  BY RequestFixed
<1>o. \A u : Op(u)' = Op(u)
  BY <1>r, RequestOperators
<1>s. /\ stage \in [Ids -> Stages] /\ p \in Seq(Ids) /\ ReadLine \in Seq(Ids)
      /\ Distinct(p) /\ Distinct(ReadLine)
  BY LineType DEF TypeOK, TransactionType, UnreadInv, LineInv, Holds, Distinct
<1>l. \A u : In(u, ReadLine) => u \in Ids /\ Op(u) = "READ" /\ stage[u] = "issued"
  BY <1>s, InIds DEF LineInv, Holds, In
<1>f. Flying' = {u \in Ids : Op(u) = "READ" /\ (stage'[u] = "command" \/ In(u, ReadLine'))}
  BY <1>o DEF Flying, In
<1>u. Unread' = {u \in Ids : In(u, p')}
  BY DEF Unread, In
<1>1. CASE ReturnReadData
  BY <1>1, SidesReturn
<1>2. ASSUME NEW t \in Ids, NEW i \in Nat, Enqueuing(t, i)
      PROVE  \/ Flying' = Flying /\ Unread' = Unread
             \/ /\ t \notin Flying /\ t \notin Unread
                /\ Flying' = Flying \cup {t} /\ Unread' = Unread \cup {t}
  <2>1. /\ stage[t] = "queued"
        /\ \A u \in Ids : stage'[u] = IF u = t THEN "command" ELSE stage[u]
        /\ p' = IF Op(t) = "READ" THEN Append(p, t) ELSE p
    BY <1>2, <1>s DEF Enqueuing, Moves
  <2>2. ReadLine' = ReadLine
    <3>1. ~ReturnReadData /\ \A u \in Ids : ~PopCommand(u)
      BY <1>2 DEF Enqueuing, EnqueueCommand, ReturnReadData, PopCommand
    <3> QED
      BY <3>1, ReadFrames
  <2>3. ~In(t, ReadLine) /\ ~In(t, p)
    BY <1>l, <2>1 DEF UnreadInv, In, Begun
  <2>4. CASE Op(t) = "READ"
    <3>1. \A u : In(u, p') <=> In(u, p) \/ u = t
      BY <1>s, <2>1, <2>4, InAppend
    <3>2. Flying' = Flying \cup {t} /\ t \notin Flying
      BY <1>f, <2>1, <2>2, <2>3, <2>4 DEF Flying
    <3>3. Unread' = Unread \cup {t} /\ t \notin Unread
      BY <1>u, <2>3, <3>1 DEF Unread
    <3> QED
      BY <3>2, <3>3
  <2>5. CASE Op(t) # "READ"
    <3>1. Flying' = Flying
      BY <1>f, <2>1, <2>2, <2>5 DEF Flying
    <3>2. Unread' = Unread
      BY <1>u, <2>1, <2>5 DEF Unread
    <3> QED
      BY <3>1, <3>2
  <2> QED
    BY <2>4, <2>5
<1>3. ASSUME NEW t \in Ids, PopCommand(t) PROVE Flying' = Flying /\ Unread' = Unread
  <2>1. /\ stage[t] = "command"
        /\ \A u \in Ids : stage'[u] = IF u = t THEN "issued" ELSE stage[u]
    BY <1>3, <1>s, PopStep DEF Popping, Moves
  <2>2. \A u : In(u, ReadLine') <=> In(u, ReadLine) \/ (u = t /\ Op(t) = "READ")
    <3>1. ReadLine' = IF Op(t) = "READ" THEN Append(ReadLine, t) ELSE ReadLine
      BY <1>r, <1>3, LineJoined
    <3>2. \A u : In(u, Append(ReadLine, t)) <=> In(u, ReadLine) \/ u = t
      BY <1>s, InAppend
    <3> QED
      BY <3>1, <3>2
  <2>3. p' = p
    BY <1>3 DEF PopCommand, readVars
  <2>4. Flying' = Flying
    BY <1>f, <2>1, <2>2 DEF Flying
  <2> QED
    BY <1>u, <2>3, <2>4 DEF Unread
<1>4. CASE ~ReturnReadData /\ ~EnqueueCommand /\ \A t \in Ids : ~PopCommand(t)
  <2>1. ReadLine' = ReadLine /\ p' = p
    BY <1>4, ReadFrames
  <2>2. \A u \in Ids : stage'[u] = "command" <=> stage[u] = "command"
    BY <1>m, <1>s, <1>4 DEF Movement, Staying, Entering, Pulling, Enqueuing, Popping, Moves
  <2>3. Flying' = Flying
    BY <1>f, <2>1, <2>2 DEF Flying
  <2> QED
    BY <1>u, <2>1, <2>3 DEF Unread
<1> QED
  BY <1>1, <1>2, <1>3, <1>4, EnqueueStep

LEMMA BalanceNext ==
    ASSUME TypeOK, PlacesInv, ReadInv, [Next]_vars
    PROVE  BalanceInv'
<1>r. UNCHANGED request
  BY RequestFixed
<1>1. Flying \subseteq Ids /\ Unread \subseteq Ids
  BY DEF Flying, Unread
<1>2. ASSUME NEW i \in 1 .. Len(pendingReadTransactions), MatchesReturn(i)
      PROVE  /\ pendingReadTransactions[i] \in Unread
             /\ Addr(Head(returnTransaction)) = Addr(pendingReadTransactions[i])
  <2>1. pendingReadTransactions[i] \in Ids
    BY LineType, ElementOfSeq
  <2> QED
    BY <1>2, <2>1 DEF Unread, In, MatchesReturn
<1> QED
  BY <1>r, <1>1, <1>2, SidesStep, BalanceStays, BalanceGains, BalanceLoses DEF ReadInv
-----------------------------------------------------------------------------
(* The two sides of an address are empty together.                          *)
LEMMA SidesMeet ==
    TypeOK /\ BalanceInv =>
        /\ \A t \in Flying : \E u \in Unread : Addr(u) = Addr(t)
        /\ \A u \in Unread : \E t \in Flying : Addr(t) = Addr(u)
<1> SUFFICES ASSUME TypeOK, BalanceInv
             PROVE  /\ \A t \in Flying : \E u \in Unread : Addr(u) = Addr(t)
                    /\ \A u \in Unread : \E t \in Flying : Addr(t) = Addr(u)
  OBVIOUS
<1>1. Flying \subseteq Ids /\ Unread \subseteq Ids
  BY DEF Flying, Unread
<1>2. \A t \in Ids : Addr(t) \in Addresses
  <2>1. request \in [Ids -> Request]
    BY ConstantsAssumption DEF TypeOK, DriverType, Ids
  <2> QED
    BY <2>1 DEF Addr, Request
<1>3. ASSUME NEW a \in Addresses PROVE At(Flying, a) = {} <=> At(Unread, a) = {}
  <2>1. IsFiniteSet(At(Flying, a)) /\ IsFiniteSet(At(Unread, a))
    BY <1>1, FiniteParts
  <2>2. Cardinality(At(Flying, a)) = Cardinality(At(Unread, a))
    BY DEF BalanceInv
  <2>3. /\ Cardinality(At(Flying, a)) = 0 <=> At(Flying, a) = {}
        /\ Cardinality(At(Unread, a)) = 0 <=> At(Unread, a) = {}
    BY <2>1, FS_EmptySet
  <2> QED
    BY <2>2, <2>3
<1> QED
  BY <1>1, <1>2, <1>3 DEF At

(* A transaction that has not been issued keeps something unfinished: itself *)
(* or, when its data were reported early, the read it was mistaken for.     *)
LEMMA SomeUnfinished ==
    TypeOK /\ PlacesInv /\ ReadInv /\ CountInv
        /\ (transactionQueue # <<>> \/ \E t \in Ids : stage[t] = "command")
    => \E t \in AcceptedSet : t \notin finished
<1> SUFFICES ASSUME TypeOK, PlacesInv, ReadInv, CountInv,
                    transactionQueue # <<>> \/ \E t \in Ids : stage[t] = "command"
             PROVE  \E t \in AcceptedSet : t \notin finished
  OBVIOUS
<1>1. CASE transactionQueue # <<>>
  <2>1. Last(transactionQueue) \in Ids /\ stage[Last(transactionQueue)] = "queued"
    BY <1>1, QueueFacts DEF PlacesInv
  <2> QED
    BY <2>1 DEF CountInv, Begun, AcceptedSet, Accepted
<1>2. ASSUME NEW t \in Ids, stage[t] = "command"
      PROVE  \E u \in AcceptedSet : u \notin finished
  <2>1. CASE Op(t) = "READ"
    <3>1. t \in Flying
      BY <1>2, <2>1 DEF Flying
    <3>2. PICK u \in Unread : Addr(u) = Addr(t)
      BY <3>1, SidesMeet DEF ReadInv
    <3>3. u \in Ids /\ stage[u] \in Begun /\ u \notin finished
      BY <3>2 DEF Unread, In, ReadInv, UnreadInv
    <3> QED
      BY <3>3 DEF AcceptedSet, Accepted, Begun
  <2>2. CASE Op(t) # "READ"
    <3>1. t \notin finished
      BY <1>2, <2>2 DEF PlacesInv, ReadPlaces
    <3> QED
      BY <1>2, <3>1 DEF AcceptedSet, Accepted
  <2> QED
    BY <2>1, <2>2
<1> QED
  BY <1>1, <1>2

(* The three ways numOnTheFly moves.                                        *)
LEMMA CountStep ==
    ASSUME TypeOK, PlacesInv, UnreadInv, [Next]_vars
    PROVE  \/ AcceptedSet' = AcceptedSet /\ UNCHANGED doneVars
           \/ \E t \in Ids :
                /\ t \notin AcceptedSet /\ AcceptedSet' = AcceptedSet \cup {t}
                /\ finished' = finished /\ numOnTheFly' = numOnTheFly + 1
           \/ \E t \in Ids :
                t \notin finished /\ stage[t] \in Begun /\ CallBack(t) /\ Staying
<1>m. Movement
  BY MovementOfNext
<1>s. stage \in [Ids -> Stages]
  BY DEF TypeOK, TransactionType
<1>k. UNCHANGED stage => AcceptedSet' = AcceptedSet
  BY DEF AcceptedSet, Accepted
<1>a. ASSUME NEW t \in Ids, Moves(t, "none", "queued") \/ Moves(t, "pending", "queued")
      PROVE  t \notin AcceptedSet /\ AcceptedSet' = AcceptedSet \cup {t}
  BY <1>a, <1>s DEF Moves, AcceptedSet, Accepted
<1>1. CASE ReturnReadData
  <2>1. PICK i \in 1 .. Len(pendingReadTransactions) : CallBack(pendingReadTransactions[i])
    BY <1>1, ReturnStep
  <2>2. pendingReadTransactions[i] \in Ids
    BY LineType, ElementOfSeq
  <2> QED
    BY <1>1, <2>1, <2>2, ReturnStep DEF UnreadInv
<1>2. CASE CommandBusDirect \/ DataBusDone
  <2>1. Staying
    BY <1>2 DEF CommandBusDirect, CommandBus, DataBusDone, Staying, driverVars, queueVars
  <2>2. CASE CommandBusDirect
    <3>1. /\ outgoingCmdPacket # NoPacket /\ Op(outgoingCmdPacket) = "DIRECT"
          /\ CallBack(outgoingCmdPacket)
      BY <2>2 DEF CommandBusDirect
    <3>2. outgoingCmdPacket \in Ids /\ InFlight(outgoingCmdPacket)
      BY <3>1, BusFacts DEF PlacesInv, BusPlaces, CommandBusPlaces, InFlight
    <3> QED
      BY <2>1, <3>1, <3>2 DEF InFlight, Begun
  <2>3. CASE DataBusDone
    <3>1. outgoingDataPacket # NoPacket /\ CallBack(outgoingDataPacket)
      BY <2>3 DEF DataBusDone
    <3>2. outgoingDataPacket \in Ids /\ InFlight(outgoingDataPacket)
      BY <3>1, BusFacts DEF PlacesInv, BusPlaces, DataBusPlaces
    <3> QED
      BY <2>1, <3>1, <3>2 DEF InFlight, Begun
  <2> QED
    BY <1>2, <2>2, <2>3
<1>3. ASSUME NEW t \in Ids, SubmitAccepted(t)
      PROVE  /\ t \notin AcceptedSet /\ AcceptedSet' = AcceptedSet \cup {t}
             /\ finished' = finished /\ numOnTheFly' = numOnTheFly + 1
  <2>1. stage[t] = "none"
    <3>1. t > submitted
      BY <1>3 DEF SubmitAccepted, Submit, TypeOK, DriverType
    <3> QED
      BY <3>1 DEF PlacesInv, QueuePlaces
  <2>2. Moves(t, "none", "queued")
    BY <1>3, <2>1 DEF SubmitAccepted, AddTransaction, Moves
  <2> QED
    BY <1>3, <1>a, <2>2 DEF SubmitAccepted, Submit, AddTransaction
<1>4. CASE PullPending
  <2> DEFINE t == Head(pendingTransactions)
  <2>1. t \in Ids /\ Moves(t, "pending", "queued")
    BY <1>4, QueueFacts DEF PullPending, AddTransaction, Moves, PlacesInv
  <2> QED
    BY <1>4, <1>a, <2>1 DEF PullPending, AddTransaction
<1>5. CASE \/ BeginUpdate \/ RankReturns \/ RankWaits \/ PullNothing
           \/ CommandBusRead \/ CommandBusOther \/ DataBusBusy
           \/ WriteDataStarts \/ WriteDataWaits \/ PopNothing
           \/ EnqueueNothing \/ ReturnNothing
           \/ EnterRunPIM \/ LeaveRunPIM \/ BarrierPending \/ BarrierQueued
           \/ UNCHANGED vars
  <2>1. UNCHANGED stage /\ UNCHANGED doneVars
    BY <1>5 DEF BeginUpdate, RankReturns, RankWaits, PullNothing, CommandBusRead,
                CommandBusOther, CommandBus, DataBusBusy, WriteDataStarts,
                WriteDataWaits, PopNothing, EnqueueNothing, ReturnNothing,
                EnterRunPIM, LeaveRunPIM, BarrierPending, BarrierQueued, Barrier, vars
  <2> QED
    BY <2>1, <1>k
<1>6. ASSUME NEW t \in Ids, SubmitPending(t)
      PROVE  AcceptedSet' = AcceptedSet /\ UNCHANGED doneVars
  <2>1. UNCHANGED doneVars /\ phase = "idle"
    BY <1>6 DEF SubmitPending, Submit, doneVars
  <2>2. stage[t] = "none" /\ stage' = [stage EXCEPT ![t] = "pending"]
    <3>1. t > submitted
      BY <1>6 DEF SubmitPending, Submit, TypeOK, DriverType
    <3> QED
      BY <1>6, <3>1 DEF SubmitPending, PlacesInv, QueuePlaces
  <2> QED
    BY <1>s, <2>1, <2>2 DEF AcceptedSet, Accepted
<1>7. CASE EnqueueCommand
  <2>1. PICK t \in Ids : Moves(t, "queued", "command")
    BY <1>7, EnqueueStep DEF Enqueuing
  <2>2. AcceptedSet' = AcceptedSet
    BY <1>s, <2>1 DEF Moves, AcceptedSet, Accepted
  <2> QED
    BY <1>7, <2>2 DEF EnqueueCommand
<1>8. ASSUME NEW t \in Ids, PopCommand(t)
      PROVE  AcceptedSet' = AcceptedSet /\ UNCHANGED doneVars
  <2>1. Moves(t, "command", "issued")
    BY <1>8, PopStep DEF Popping
  <2>2. AcceptedSet' = AcceptedSet
    BY <1>s, <2>1 DEF Moves, AcceptedSet, Accepted
  <2> QED
    BY <1>8, <2>2 DEF PopCommand
<1> QED
  BY <1>1, <1>2, <1>3, <1>4, <1>5, <1>6, <1>7, <1>8 DEF Next, Driver, Update

LEMMA CountNext ==
    ASSUME TypeOK, PlacesInv, UnreadInv, CountInv, [Next]_vars
    PROVE  CountInv'
<1>b. \A u \in Ids : stage[u] \in Begun => stage'[u] \in Begun
  BY MovementOfNext, StageOrder
<1>f. /\ finished \subseteq Ids /\ AcceptedSet \subseteq Ids
      /\ IsFiniteSet(finished) /\ IsFiniteSet(AcceptedSet)
  BY FiniteParts DEF TypeOK, TransactionType, AcceptedSet
<1>c. Cardinality(finished) \in Nat /\ Cardinality(AcceptedSet) \in Nat
  BY <1>f, FS_CardinalityType
<1>1. CASE AcceptedSet' = AcceptedSet /\ UNCHANGED doneVars
  BY <1>1, <1>b, <1>f DEF doneVars, CountInv
<1>2. ASSUME NEW t \in Ids,
             t \notin AcceptedSet, AcceptedSet' = AcceptedSet \cup {t},
             finished' = finished, numOnTheFly' = numOnTheFly + 1
      PROVE  CountInv'
  <2>1. Cardinality(AcceptedSet \cup {t}) = Cardinality(AcceptedSet) + 1
    BY <1>2, <1>f, CardinalityMoves
  <2>2. numOnTheFly' = Cardinality(AcceptedSet') - Cardinality(finished')
    BY <1>2, <1>c, <2>1 DEF CountInv
  <2> QED
    BY <1>2, <1>b, <1>f, <2>2 DEF CountInv
<1>3. ASSUME NEW t \in Ids, t \notin finished, stage[t] \in Begun, CallBack(t), Staying
      PROVE  CountInv'
  <2>1. Cardinality(finished \cup {t}) = Cardinality(finished) + 1
    BY <1>3, <1>f, CardinalityMoves
  <2>2. AcceptedSet' = AcceptedSet
    BY <1>3 DEF Staying, AcceptedSet, Accepted
  <2>3. numOnTheFly' = Cardinality(AcceptedSet') - Cardinality(finished')
    BY <1>3, <1>c, <2>1, <2>2 DEF CountInv, CallBack
  <2>4. \A u \in finished' : stage'[u] \in Begun
    BY <1>3, <1>b, <1>f DEF CountInv, CallBack
  <2> QED
    BY <2>3, <2>4 DEF CountInv
<1> QED
  BY <1>1, <1>2, <1>3, CountStep
-----------------------------------------------------------------------------
(* While a transaction waits in front of the controller, the block of the   *)
(* cycle that runs next decides what keeps the controller busy.             *)
LEMMA QueueOccupied ==
    ASSUME TypeOK, ~WillAcceptTransaction
    PROVE  transactionQueue # <<>>
  BY ConstantsAssumption, EmptySeq DEF TypeOK, QueueType, WillAcceptTransaction

LEMMA WaitNext ==
    ASSUME TypeOK, PlacesInv, WaitInv, [Next]_vars,
           (transactionQueue' # <<>> \/ \E t \in Ids : stage'[t] = "command")
                => \E t \in AcceptedSet' : t \notin finished'
    PROVE  WaitInv'
<1> DEFINE p == pendingTransactions  q == transactionQueue
<1>t. p \in Seq(Ids) /\ q \in Seq(Ids) /\ stage \in [Ids -> Stages]
  BY DEF TypeOK, QueueType, TransactionType
<1>a. UNCHANGED stage => AcceptedSet' = AcceptedSet
  BY DEF AcceptedSet, Accepted
<1>1. CASE UNCHANGED vars
  <2>1. UNCHANGED <<phase, p, q, stage, finished>>
    BY <1>1 DEF vars, queueVars, doneVars
  <2> QED
    BY <1>a, <2>1 DEF WaitInv
<1>2. ASSUME NEW t \in Ids, SubmitAccepted(t) PROVE WaitInv'
  <2>1. phase' = "idle" /\ q' = Append(q, t)
    BY <1>2 DEF SubmitAccepted, Submit, AddTransaction
  <2>2. q' # <<>>
    BY <1>t, <2>1, AppendProperties
  <2> QED
    BY <2>1, <2>2 DEF WaitInv
<1>3. ASSUME NEW t \in Ids, SubmitPending(t) PROVE WaitInv'
  <2>1. phase' = "idle" /\ q' = q /\ ~WillAcceptTransaction
    BY <1>3 DEF SubmitPending, Submit
  <2> QED
    BY <2>1, QueueOccupied DEF WaitInv
<1>4. CASE BarrierPending \/ BarrierQueued \/ EnterRunPIM \/ LeaveRunPIM
  <2>1. UNCHANGED <<phase, p, q, stage, finished>>
    BY <1>4 DEF BarrierPending, BarrierQueued, Barrier, EnterRunPIM, LeaveRunPIM,
                queueVars, doneVars
  <2> QED
    BY <1>a, <2>1 DEF WaitInv
<1>5. CASE BeginUpdate \/ RankReturns \/ RankWaits
  BY <1>5 DEF BeginUpdate, RankReturns, RankWaits, WaitInv
<1>6. CASE PullPending
  <2>1. q' = Append(q, Head(p)) /\ Head(p) \in Ids /\ phase' = "command"
    BY <1>6, QueueFacts DEF PullPending, AddTransaction, PlacesInv
  <2>2. q' # <<>>
    BY <1>t, <2>1, AppendProperties
  <2> QED
    BY <2>1, <2>2 DEF WaitInv
<1>7. CASE PullNothing
  <2>1. p' = p /\ q' = q /\ phase' = "command" /\ (p = <<>> \/ ~WillAcceptTransaction)
    BY <1>7 DEF PullNothing, queueVars
  <2> QED
    BY <2>1, QueueOccupied DEF WaitInv
<1>8. CASE \/ CommandBusRead \/ CommandBusDirect \/ CommandBusOther
           \/ DataBusDone \/ DataBusBusy \/ WriteDataStarts \/ WriteDataWaits
           \/ (\E t \in Ids : PopCommand(t)) \/ PopNothing
  <2>1. /\ UNCHANGED <<p, q>>
        /\ phase \in {"command", "data", "burst", "pop"}
        /\ phase' \in {"data", "burst", "pop", "enqueue"}
    BY <1>8 DEF CommandBusRead, CommandBusDirect, CommandBusOther, CommandBus,
                DataBusDone, DataBusBusy, WriteDataStarts, WriteDataWaits,
                PopCommand, PopNothing, queueVars
  <2> QED
    BY <2>1 DEF WaitInv
<1>9. CASE EnqueueCommand
  <2>1. PICK t \in Ids : Moves(t, "queued", "command")
    BY <1>9, EnqueueStep DEF Enqueuing
  <2>2. stage'[t] = "command" /\ phase' = "return"
    BY <1>9, <1>t, <2>1 DEF Moves, EnqueueCommand
  <2> QED
    BY <2>2 DEF WaitInv
<1>10. CASE EnqueueNothing
  <2>1. UNCHANGED <<p, q>> /\ phase = "enqueue" /\ phase' = "return"
    BY <1>10 DEF EnqueueNothing, queueVars
  <2> QED
    BY <2>1 DEF WaitInv
<1>11. CASE ReturnReadData \/ ReturnNothing
  <2>1. UNCHANGED <<p, q, stage>> /\ phase = "return" /\ phase' = "idle"
    BY <1>11 DEF ReturnReadData, ReturnNothing, queueVars
  <2> QED
    BY <2>1 DEF WaitInv
<1> QED
  BY <1>1, <1>2, <1>3, <1>4, <1>5, <1>6, <1>7, <1>8, <1>9, <1>10, <1>11
     DEF Next, Driver, Update
-----------------------------------------------------------------------------
LEMMA FlowInit == Init => FlowInv
<1> SUFFICES ASSUME Init PROVE FlowInv
  OBVIOUS
<1>1. ReadLine = <<>>
  <2>1. BusRead = <<>> /\ returnTransaction = <<>> /\ rankReads = <<>>
    BY DEF Init, BusRead, NoPacket
  <2>2. <<>> \in Seq(Ids) /\ <<>> \o <<>> = <<>>
    BY EmptySeq, ConcatEmptySeq
  <2> QED
    BY <2>1, <2>2 DEF ReadLine
<1>2. Flying = {} /\ Unread = {} /\ AcceptedSet = {}
  BY <1>1, InEmpty DEF Init, Flying, Unread, AcceptedSet, Accepted
<1>3. LineInv /\ UnreadInv
  BY <1>1 DEF Init, LineInv, UnreadInv, Holds, Distinct
<1>4. BalanceInv
  <2>1. \A a : At(Flying, a) = At(Unread, a)
    BY <1>2 DEF At
  <2> QED
    BY <2>1 DEF BalanceInv
<1>5. FoundInv
  BY ConstantsAssumption DEF Init, FoundInv, Ids
<1>6. CountInv
  BY <1>2, FS_EmptySet DEF Init, CountInv
<1>7. WaitInv
  BY DEF Init, WaitInv
<1> QED
  BY <1>3, <1>4, <1>5, <1>6, <1>7 DEF FlowInv, ReadInv

LEMMA FlowNext ==
    (TypeOK /\ PlacesInv /\ FlowInv) /\ [Next]_vars /\ (TypeOK /\ PlacesInv)' => FlowInv'
<1> SUFFICES ASSUME TypeOK, PlacesInv, FlowInv, [Next]_vars, (TypeOK /\ PlacesInv)'
             PROVE  FlowInv'
  OBVIOUS
<1> USE DEF FlowInv
<1>1. ReadInv' /\ FoundInv' /\ CountInv'
  BY LineNext, UnreadNext, BalanceNext, FoundNext, CountNext DEF ReadInv
<1>2. (TypeOK /\ PlacesInv /\ ReadInv /\ CountInv
        /\ (transactionQueue # <<>> \/ \E t \in Ids : stage[t] = "command")
        => \E t \in AcceptedSet : t \notin finished)'
  BY SomeUnfinished, PTL
<1>3. (transactionQueue' # <<>> \/ \E t \in Ids : stage'[t] = "command")
        => \E t \in AcceptedSet' : t \notin finished'
  BY <1>1, <1>2
<1>4. WaitInv'
  BY <1>3, WaitNext
<1> QED
  BY <1>1, <1>4

LEMMA FlowInductive == Spec => [](TypeOK /\ PlacesInv /\ EpochInv /\ FlowInv)
<1>1. Spec => [](TypeOK /\ PlacesInv /\ EpochInv)
  BY EpochInductive
<1> QED
  BY <1>1, FlowInit, FlowNext, PTL DEF Spec

(* MemoryController never reaches the abort() of its return path: a packet  *)
(* that comes back finds a pending read of its address, although the two    *)
(* are kept in different lists, filled by different blocks of update() and  *)
(* matched by address alone.                                                *)
THEOREM ReturnsFindTheirRead == Spec => []ReturnHasMatch
<1>1. TypeOK /\ ReadInv => ReturnHasMatch
  <2> SUFFICES ASSUME TypeOK, ReadInv, returnTransaction # <<>>
               PROVE  \E i \in DOMAIN pendingReadTransactions : MatchesReturn(i)
    BY DEF ReturnHasMatch
  <2> DEFINE h == Head(returnTransaction)
  <2>1. In(h, ReadLine)
    <3>1. /\ returnTransaction \in Seq(Ids) /\ rankReads \in Seq(Ids) /\ BusRead \in Seq(Ids)
          /\ returnTransaction \o rankReads \in Seq(Ids)
      BY LineType, ConcatProperties
    <3>2. 1 \in 1 .. Len(returnTransaction) /\ returnTransaction[1] = h
      BY <3>1, HeadIsFirst
    <3>3. /\ 1 \in 1 .. Len(returnTransaction \o rankReads)
          /\ (returnTransaction \o rankReads)[1] = h
      BY <3>1, <3>2, ConcatProperties, LenProperties
    <3>4. 1 \in 1 .. Len(ReadLine) /\ ReadLine[1] = h
      BY <3>1, <3>3, ConcatProperties, LenProperties DEF ReadLine
    <3> QED
      BY <3>4 DEF In
  <2>2. h \in Flying
    BY <2>1, LineType, InIds DEF Flying, ReadInv, LineInv, In
  <2>3. PICK u \in Unread : Addr(u) = Addr(h)
    BY <2>2, SidesMeet DEF ReadInv
  <2>4. PICK i \in 1 .. Len(pendingReadTransactions) : pendingReadTransactions[i] = u
    BY <2>3 DEF Unread, In
  <2>5. DOMAIN pendingReadTransactions = 1 .. Len(pendingReadTransactions)
    BY LineType, LenProperties
  <2> QED
    BY <2>3, <2>4, <2>5 DEF MatchesReturn
<1> QED
  BY <1>1, FlowInductive, PTL DEF FlowInv

(* Nothing on the fly between two updates: the controller is empty, and so   *)
(* is the queue in front of it.                                             *)
LEMMA NothingLeft ==
    ASSUME TypeOK, PlacesInv, FlowInv, phase = "idle", numOnTheFly = 0
    PROVE  /\ pendingTransactions = <<>>
           /\ finished = AcceptedSet
           /\ finished = Submitted
<1>1. finished \subseteq AcceptedSet /\ AcceptedSet \subseteq Ids /\ finished \subseteq Ids
  BY DEF FlowInv, CountInv, Begun, AcceptedSet, Accepted, TypeOK, TransactionType
<1>2. Cardinality(AcceptedSet) = Cardinality(finished)
  <2>1. Cardinality(AcceptedSet) \in Nat /\ Cardinality(finished) \in Nat
    BY <1>1, FiniteParts, FS_CardinalityType
  <2> QED
    BY <2>1 DEF FlowInv, CountInv
<1>3. AcceptedSet = finished
  BY <1>1, <1>2, FiniteParts, FS_Subset
<1>4. pendingTransactions = <<>>
  BY <1>3 DEF FlowInv, WaitInv
<1>5. ASSUME NEW t \in Ids PROVE t \in AcceptedSet <=> t <= submitted
  <2>1. stage[t] # "pending"
    BY <1>4, InEmpty DEF FlowInv, FoundInv
  <2>2. t \in AcceptedSet <=> stage[t] # "none"
    BY <2>1 DEF AcceptedSet, Accepted
  <2>3. stage[t] # "none" <=> ~(t > submitted)
    BY DEF FlowInv, FoundInv, PlacesInv, QueuePlaces
  <2> QED
    BY <2>2, <2>3 DEF TypeOK, DriverType, Ids
<1>6. submitted \in Nat /\ submitted <= MaxTxn
  BY ConstantsAssumption DEF TypeOK, DriverType
<1>7. \A t : t \in Submitted <=> t \in Ids /\ t <= submitted
  BY <1>6, ConstantsAssumption DEF Submitted, Ids
<1> QED
  BY <1>1, <1>3, <1>4, <1>5, <1>7

(* PIMKernel::runPIM leaves its loop on numOnTheFly alone, which does not   *)
(* count the transactions that wait in front of the controller: when it is  *)
(* zero between two updates, everything submitted is finished all the same. *)
THEOREM DrainFinishesAll == Spec => []DrainedMeansFinished
<1>1. TypeOK /\ PlacesInv /\ FlowInv => DrainedMeansFinished
  BY NothingLeft DEF DrainedMeansFinished
<1> QED
  BY <1>1, FlowInductive, PTL
=============================================================================
