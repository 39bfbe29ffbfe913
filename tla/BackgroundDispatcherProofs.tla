--------------------- MODULE BackgroundDispatcherProofs ---------------------
(***************************************************************************)
(* Proofs about BackgroundDispatcher for any clients and work.  The        *)
(* dispatcher is shown to use its two components as they are specified, so *)
(* that what is proved of the queue and of the cancellation holds inside   *)
(* it; the rest is about the life of the owner and of the worker.          *)
(***************************************************************************)
EXTENDS BackgroundDispatcher, FiniteSetTheorems, SequenceTheorems, TLAPS

\* The queue Work, with the facts proved about every such queue.
WP == INSTANCE BlockingConcurrentQueueProofs WITH
    Producers <- Clients, Consumers <- {worker}, Controllers <- {owner},
    Calls <- {"blocking_drain"}, token <- requested, pc <- qpc,
    dest <- [c \in {worker} |-> Received]

(* The worker's own sequences have their types. *)
Holds ==
    /\ dest \in [{worker} -> Seq(Items)]
    /\ at \in 0 .. Len(dest[worker])
    /\ ran \in Seq(Items)
    /\ opc \in OwnerStates
    /\ closing \in BOOLEAN
    /\ wpc \in WorkerStates

CP == INSTANCE CancellationProofs WITH
    Threads <- {owner}, Listeners <- {wake}, pc <- cpc

-----------------------------------------------------------------------------
(* What the proofs need besides the invariants of the queue and of the     *)
(* cancellation: the lives of the two threads, in named parts.             *)

\* The thread ends with the cancellation, and cancel() does not go past its
\* join before.
OwnerWaits ==
    /\ opc = "construct" => ~requested /\ wpc = "none"
    /\ opc \in {"cancel", "join", "clear", "clearing", "drop", "gone"} => requested
    /\ requested /\ opc \notin {"cancel", "join"} => wpc = "exited"

\* The destructor leaves the queue as empty as its cancel() made it.
ClosedIsEmpty ==
    /\ closing => opc \notin {"construct", "open"}
    /\ opc \in {"drop", "gone"} => closing
    /\ closing /\ opc \in {"clearing", "drop", "gone"} => data = <<>>

\* The worker is inside blocking_drain, or has a workload, in these states only.
WorkerInTurn ==
    /\ wpc # "running" => at = 0
    /\ qpc[worker] # "idle" => wpc = "draining"
    /\ dest[worker] # <<>> =>
         wpc = "running" \/ (wpc = "draining" /\ qpc[worker] = "idle")

\* The owner notifies from its listener or from clear, one at a time.
OwnerNotifies ==
    qpc[owner] = "idle" \/ (opc = "cancel" /\ cpc[owner] = "callback") \/ opc = "clearing"

Control == OwnerWaits /\ ClosedIsEmpty /\ WorkerInTurn /\ OwnerNotifies

-----------------------------------------------------------------------------

LEMMA CancellationConstants == CP!CancellationAssumption
BY DispatcherAssumption DEF CP!CancellationAssumption

LEMMA QueueConstants == WP!QueueAssumption
BY DispatcherAssumption
   DEF WP!QueueAssumption, WP!Threads, WP!BlockingCalls, WP!TryCalls

-----------------------------------------------------------------------------
(* What the worker received is the same wherever its parts are kept. *)

LEMMA NothingHeld ==
  ASSUME NEW r \in Seq(Items), NEW d \in Seq(Items)
  PROVE  r \o SubSeq(d, Len(d) + 1, Len(d)) = r
<1>1. SubSeq(d, Len(d) + 1, Len(d)) = <<>>
  BY SubSeqProperties, EmptySeq
<1> QED BY <1>1

LEMMA Associative ==
  \A r, s, u \in Seq(Items) : (r \o s) \o u = r \o (s \o u)
BY ConcatAssociative

LEMMA AppendLast ==
  ASSUME NEW r \in Seq(Items), NEW d \in Seq(Items), NEW x \in Items
  PROVE  Append(r \o d, x) = r \o Append(d, x)
<1>1. <<x>> \in Seq(Items) /\ r \o d \in Seq(Items)
  OBVIOUS
<1>2. Append(r \o d, x) = (r \o d) \o <<x>>
  BY <1>1, AppendIsConcat
<1>3. Append(d, x) = d \o <<x>>
  BY AppendIsConcat
<1>4. (r \o d) \o <<x>> = r \o (d \o <<x>>)
  BY <1>1, Associative
<1> QED BY <1>2, <1>3, <1>4

LEMMA OneMoreRun ==
  ASSUME NEW r \in Seq(Items), NEW d \in Seq(Items), NEW k \in 0 .. Len(d), k < Len(d)
  PROVE  /\ Append(r, d[k + 1]) \in Seq(Items)
         /\ Append(r, d[k + 1]) \o SubSeq(d, k + 2, Len(d)) = r \o SubSeq(d, k + 1, Len(d))
<1> DEFINE x == d[k + 1]
           u == SubSeq(d, k + 2, Len(d))
<1>1. x \in Items /\ k + 1 \in 1 .. Len(d) /\ Len(d) \in k + 1 .. Len(d)
  OBVIOUS
<1>2. <<x>> \in Seq(Items) /\ Append(r, x) \in Seq(Items)
  BY <1>1
<1>3. u \in Seq(Items)
  BY SubSeqProperties
<1>4. SubSeq(d, k + 1, Len(d)) = <<x>> \o SubSeq(d, k + 1 + 1, Len(d))
  BY <1>1, SubSeqRecursiveFirst
<1>5. SubSeq(d, k + 1, Len(d)) = <<x>> \o u
  BY <1>4
<1>6. Append(r, x) = r \o <<x>>
  BY <1>1, AppendIsConcat
<1>7. (r \o <<x>>) \o u = r \o (<<x>> \o u)
  BY <1>2, <1>3, Associative
<1> HIDE DEF x, u
<1>8. Append(r, x) \o u = r \o SubSeq(d, k + 1, Len(d))
  BY <1>5, <1>6, <1>7
<1> QED BY <1>2, <1>8 DEF x, u

LEMMA ReceivedAll ==
  ASSUME Holds, at = 0
  PROVE  Received = ran \o dest[worker]
<1>1. dest[worker] \in Seq(Items)
  BY DEF Holds
<1>2. SubSeq(dest[worker], 1, Len(dest[worker])) = dest[worker]
  BY <1>1, SubSeqFull
<1> QED BY <1>2 DEF Received

LEMMA SameReceived ==
  ASSUME UNCHANGED <<dest, at, ran>>
  PROVE  Received' = Received
BY DEF Received

LEMMA RunWorkReceived ==
  ASSUME Holds, RunWork
  PROVE  Received' = Received /\ ran' \in Seq(Items)
<1> DEFINE d == dest[worker]
<1>1. d \in Seq(Items) /\ at \in 0 .. Len(d) /\ ran \in Seq(Items) /\ at < Len(d)
  BY DEF Holds, RunWork
<1>2. ran' = Append(ran, d[at + 1]) /\ at' = at + 1 /\ dest' = dest
  BY DEF RunWork, queueVars
<1>3. at' + 1 = at + 2
  BY <1>1, <1>2
<1>4. Received' = Append(ran, d[at + 1]) \o SubSeq(d, at + 2, Len(d))
  BY <1>2, <1>3 DEF Received
<1> QED BY <1>1, <1>2, <1>4, OneMoreRun DEF Received

LEMMA FinishTickReceived ==
  ASSUME Holds, FinishTick
  PROVE  Received' = Received
<1>1. dest[worker] \in Seq(Items) /\ at = Len(dest[worker]) /\ ran \in Seq(Items)
  BY DEF Holds, FinishTick
<1>2. Received = ran
  BY <1>1, NothingHeld DEF Received
<1>3. dest'[worker] = <<>> /\ at' = 0 /\ ran' = ran
  BY DEF FinishTick, Holds
<1>4. <<>> \in Seq(Items) /\ Len(<<>>) = 0
  OBVIOUS
<1>5. ran \o SubSeq(<<>>, 0 + 1, 0) = ran
  BY <1>1, <1>4, NothingHeld
<1>6. Received' = ran \o SubSeq(<<>>, 0 + 1, 0)
  BY <1>3, <1>4 DEF Received
<1> QED BY <1>2, <1>5, <1>6

\* A blocking_drain hands over all that is queued.
LEMMA TakeAllReceived ==
  ASSUME Holds, WorkerInTurn, data \in Seq(Items), Drain, Q!TakeAll(worker)
  PROVE  /\ Received' = Received \o data
         /\ dest'[worker] \in Seq(Items)
<1> DEFINE d == dest[worker]
<1>1. d \in Seq(Items) /\ ran \in Seq(Items) /\ at = 0 /\ at' = 0 /\ ran' = ran
  BY DEF Holds, WorkerInTurn, Drain, threadVars
<1>2. dest' = [dest EXCEPT ![worker] = d \o data]
  BY DEF Q!TakeAll
<1>3. dest'[worker] = d \o data
  BY <1>2 DEF Holds
<1>4. d \o data \in Seq(Items) /\ SubSeq(d \o data, 1, Len(d \o data)) = d \o data
  BY <1>1, ConcatProperties, SubSeqFull
<1>5. Received' = ran \o (d \o data)
  <2>1. at' + 1 = 1
    BY <1>1
  <2>2. Received' = ran \o SubSeq(dest'[worker], 1, Len(dest'[worker]))
    BY <1>1, <2>1 DEF Received
  <2> QED BY <1>3, <1>4, <2>2
<1>6. Received = ran \o d
  BY <1>1, ReceivedAll
<1>7. (ran \o d) \o data = ran \o (d \o data)
  BY <1>1, Associative
<1> QED BY <1>3, <1>4, <1>5, <1>6, <1>7

-----------------------------------------------------------------------------
(* Every step of the dispatcher is one of its queue, or leaves it alone. *)

Idle == UNCHANGED <<queueVars, requested>> /\ Received' = Received

LEMMA IdleStep == Idle => UNCHANGED WP!vars
BY DEF Idle, queueVars, WP!vars

LEMMA OwnerStepsIdle ==
  ASSUME Construct \/ SignalCancelled \/ ListenerReturns \/ CancelReturns
         \/ Join \/ FinishCancel \/ Destroy \/ (BeginCancel /\ requested)
  PROVE  Idle
BY SameReceived
   DEF Construct, SignalCancelled, ListenerReturns, CancelReturns, Join, FinishCancel, Destroy,
       BeginCancel, C!Cancel, C!AddListener, C!AddListenerEarly, C!AddListenerLate,
       C!SignalCancelled, C!ListenerReturns, C!CancelReturns, C!DestroyTicket,
       Idle, queueVars, cancelVars, threadVars

LEMMA PushStep ==
  ASSUME NEW p \in Clients, NEW x \in Items, Queue(p, x)
  PROVE  WP!Push(p, x)
<1>1. Received' = Received
  BY SameReceived DEF Queue, Q!Push, threadVars
<1> QED
  BY <1>1 DEF Queue, Q!Push, Q!Goto, Q!Elements, Q!Trim, Q!Notifies, cancelVars,
              WP!Push, WP!Goto, WP!Elements, WP!Trim, WP!Notifies

LEMMA NotifyOneStep ==
  ASSUME NEW p \in Clients, ClientNotifiesOne(p)
  PROVE  WP!NotifyOne(p)
<1>1. Received' = Received
  BY SameReceived DEF ClientNotifiesOne, Q!NotifyOne, threadVars
<1> QED
  BY <1>1 DEF ClientNotifiesOne, Q!NotifyOne, Q!Goto, Q!Sleepers, cancelVars,
              WP!NotifyOne, WP!Goto, WP!Sleepers

LEMMA CancelStep ==
  ASSUME BeginCancel, requested \in BOOLEAN, ~requested
  PROVE  WP!SetToken
<1>1. Received' = Received
  BY SameReceived DEF BeginCancel, queueVars
<1> QED
  BY <1>1 DEF BeginCancel, C!Cancel, queueVars, WP!SetToken

LEMMA ListenerStep ==
  ASSUME Control, CallListener
  PROVE  WP!Cancelled(owner)
<1>1. Received' = Received
  BY SameReceived DEF CallListener, threadVars
<1>2. qpc[owner] = "idle" /\ requested
  BY DEF CallListener, C!CallListener, Control, OwnerNotifies, OwnerWaits
<1> QED
  BY <1>1, <1>2 DEF CallListener, C!CallListener, WP!Cancelled, WP!Goto

LEMMA NotifyAllStep ==
  ASSUME OwnerNotifiesAll
  PROVE  WP!NotifyAll(owner)
<1>1. Received' = Received
  BY SameReceived DEF OwnerNotifiesAll, Q!NotifyAll, threadVars
<1> QED
  BY <1>1 DEF OwnerNotifiesAll, Q!NotifyAll, Q!Threads, Q!Sleepers, cancelVars,
              WP!NotifyAll, WP!Threads, WP!Sleepers

LEMMA ClearStep ==
  ASSUME Clear
  PROVE  WP!Clear(owner)
<1>1. Received' = Received
  BY SameReceived DEF Clear, Q!Clear
<1> QED
  BY <1>1 DEF Clear, Q!Clear, Q!Goto, cancelVars, WP!Clear, WP!Goto

LEMMA LoopTestStep ==
  ASSUME LoopTest
  PROVE  Idle \/ WP!Call(worker, "blocking_drain")
<1>1. Received' = Received
  BY SameReceived DEF LoopTest, Q!Call, queueVars
<1> QED
  BY <1>1 DEF LoopTest, Q!Call, Q!Goto, cancelVars, queueVars, Idle, WP!Call, WP!Goto

LEMMA DrainStep ==
  ASSUME Holds, WorkerInTurn, WP!Section, Drain
  PROVE  WP!Consume(worker)
<1>1. call[worker] = "blocking_drain"
  BY DEF WP!Section, WP!CallsMatch
<1>2. UNCHANGED <<requested, at, ran>>
  BY DEF Drain, cancelVars, threadVars
<1>3. CASE Q!TakeAll(worker)
  <2>1. data \in Seq(Items)
    BY DEF WP!Section, WP!TypeOK
  <2>2. [c \in {worker} |-> Received'] =
          [[c \in {worker} |-> Received] EXCEPT ![worker] = @ \o data]
    BY <1>3, <2>1, TakeAllReceived
  <2> QED BY <1>2, <1>3, <2>2 DEF Q!TakeAll, Q!Goto, WP!TakeAll, WP!Goto, WP!Consume
<1>4. CASE Q!Test(worker) \/ Q!Wait(worker) \/ Q!Check(worker)
  <2>1. Received' = Received
    BY <1>2, <1>4, SameReceived DEF Q!Test, Q!Wait, Q!Check
  <2> QED
    BY <1>2, <1>4, <2>1
       DEF Q!Test, Q!Wait, Q!Check, Q!Goto, Q!BlockingCalls,
           WP!Test, WP!Wait, WP!Check, WP!Goto, WP!BlockingCalls, WP!Consume
<1>5. ~Q!TakeOne(worker)
  BY <1>1 DEF Q!TakeOne
<1> QED BY <1>3, <1>4, <1>5 DEF Drain, Q!Consume

LEMMA WakeStep ==
  ASSUME WakeSpuriously
  PROVE  WP!WakeSpuriously(worker)
<1>1. Received' = Received
  BY SameReceived DEF WakeSpuriously, Q!WakeSpuriously, threadVars
<1> QED
  BY <1>1 DEF WakeSpuriously, Q!WakeSpuriously, Q!Goto, cancelVars, WP!WakeSpuriously, WP!Goto

LEMMA WorkerStepsIdle ==
  ASSUME Holds, DrainReturns \/ RunWork
  PROVE  Idle
BY SameReceived, RunWorkReceived DEF DrainReturns, RunWork, queueVars, cancelVars, Idle

\* FinishTick clears the workload and leaves what was received.
LEMMA FinishTickStep ==
  ASSUME Holds, FinishTick
  PROVE  UNCHANGED WP!vars
BY FinishTickReceived DEF FinishTick, cancelVars, WP!vars

LEMMA QueueStep ==
  ASSUME Holds, Control, WP!Section, [Next]_vars
  PROVE  [WP!Next]_(WP!vars)
<1>1. ASSUME Construct \/ SignalCancelled \/ ListenerReturns \/ CancelReturns
             \/ Join \/ FinishCancel \/ Destroy
      PROVE  [WP!Next]_(WP!vars)
  BY <1>1, OwnerStepsIdle, IdleStep
<1>2. ASSUME BeginCancel PROVE [WP!Next]_(WP!vars)
  <2>1. requested \in BOOLEAN
    BY DEF WP!Section, WP!TypeOK
  <2>2. CASE requested
    BY <1>2, <2>2, OwnerStepsIdle, IdleStep
  <2>3. CASE ~requested
    BY <1>2, <2>1, <2>3, CancelStep DEF WP!Next
  <2> QED BY <2>2, <2>3
<1>3. ASSUME CallListener PROVE [WP!Next]_(WP!vars)
  BY <1>3, ListenerStep DEF WP!Next
<1>4. ASSUME OwnerNotifiesAll PROVE [WP!Next]_(WP!vars)
  BY <1>4, NotifyAllStep DEF WP!Next
<1>5. ASSUME Clear PROVE [WP!Next]_(WP!vars)
  BY <1>5, ClearStep DEF WP!Next
<1>6. ASSUME NEW p \in Clients, ClientNotifiesOne(p) PROVE [WP!Next]_(WP!vars)
  BY <1>6, NotifyOneStep DEF WP!Next
<1>7. ASSUME NEW p \in Clients, NEW x \in Items, Queue(p, x) PROVE [WP!Next]_(WP!vars)
  BY <1>7, PushStep DEF WP!Next
<1>8. ASSUME LoopTest PROVE [WP!Next]_(WP!vars)
  BY <1>8, LoopTestStep, IdleStep DEF WP!Next
<1>9. ASSUME Drain PROVE [WP!Next]_(WP!vars)
  BY <1>9, DrainStep DEF WP!Next, Control
<1>10. ASSUME WakeSpuriously PROVE [WP!Next]_(WP!vars)
  BY <1>10, WakeStep DEF WP!Next
<1>11. ASSUME DrainReturns \/ RunWork PROVE [WP!Next]_(WP!vars)
  BY <1>11, WorkerStepsIdle, IdleStep
<1>12. ASSUME FinishTick PROVE [WP!Next]_(WP!vars)
  BY <1>12, FinishTickStep
<1>13. ASSUME UNCHANGED vars PROVE [WP!Next]_(WP!vars)
  <2>1. Idle
    BY <1>13, SameReceived DEF vars, queueVars, cancelVars, threadVars, Idle
  <2> QED BY <2>1, IdleStep
<1> QED
  BY <1>1, <1>2, <1>3, <1>4, <1>5, <1>6, <1>7, <1>8, <1>9, <1>10, <1>11, <1>12, <1>13
     DEF Next, OwnerStep, WorkerStep

-----------------------------------------------------------------------------
(* Every step is one of the cancellation, or leaves it alone. *)
LEMMA CancellationStep == [Next]_vars => [C!Next]_(C!vars)
<1> SUFFICES ASSUME [Next]_vars PROVE [C!Next]_(C!vars)
  OBVIOUS
<1>1. CASE Construct
  BY <1>1 DEF Construct, C!Next
<1>2. CASE BeginCancel
  BY <1>2 DEF BeginCancel, C!Next
<1>3. CASE SignalCancelled
  BY <1>3 DEF SignalCancelled, C!Continue, C!Next
<1>4. CASE CallListener
  BY <1>4 DEF CallListener, C!Continue, C!Next
<1>5. CASE ListenerReturns
  BY <1>5 DEF ListenerReturns, C!Continue, C!Next
<1>6. CASE CancelReturns
  BY <1>6 DEF CancelReturns, C!Continue, C!Next
<1>7. CASE Destroy
  BY <1>7 DEF Destroy, C!Next
<1>8. CASE \/ OwnerNotifiesAll \/ Join \/ Clear \/ FinishCancel \/ WorkerStep \/ WakeSpuriously
           \/ \E p \in Clients : ClientNotifiesOne(p) \/ \E x \in Items : Queue(p, x)
  BY <1>8 DEF OwnerNotifiesAll, Join, Clear, FinishCancel, WorkerStep, LoopTest, Drain,
              DrainReturns, RunWork, FinishTick, WakeSpuriously, ClientNotifiesOne, Queue,
              cancelVars, C!vars
<1>9. CASE UNCHANGED vars
  BY <1>9 DEF vars, cancelVars, C!vars
<1> QED
  BY <1>1, <1>2, <1>3, <1>4, <1>5, <1>6, <1>7, <1>8, <1>9 DEF Next, OwnerStep

-----------------------------------------------------------------------------
LEMMA HoldsStep ==
  ASSUME Holds, Control, WP!Section, [Next]_vars
  PROVE  Holds'
<1> USE DEF Holds, OwnerStates, WorkerStates
<1>1. CASE \/ Construct \/ BeginCancel \/ SignalCancelled \/ CallListener \/ ListenerReturns
           \/ CancelReturns \/ Join \/ FinishCancel \/ Destroy
  BY <1>1 DEF Construct, BeginCancel, SignalCancelled, CallListener, ListenerReturns,
              CancelReturns, Join, FinishCancel, Destroy, queueVars, threadVars
<1>2. CASE OwnerNotifiesAll \/ Clear
  BY <1>2 DEF OwnerNotifiesAll, Clear, Q!NotifyAll, Q!Clear, threadVars
<1>3. ASSUME NEW p \in Clients, ClientNotifiesOne(p) PROVE Holds'
  BY <1>3 DEF ClientNotifiesOne, Q!NotifyOne, threadVars
<1>4. ASSUME NEW p \in Clients, NEW x \in Items, Queue(p, x) PROVE Holds'
  BY <1>4 DEF Queue, Q!Push, threadVars
<1>5. CASE LoopTest
  BY <1>5 DEF LoopTest, Q!Call, queueVars
<1>6. CASE Drain
  <2>1. call[worker] = "blocking_drain" /\ data \in Seq(Items) /\ at = 0
    BY <1>6 DEF WP!Section, WP!CallsMatch, WP!TypeOK, Control, WorkerInTurn, Drain
  <2>2. CASE Q!TakeAll(worker)
    <3>1. dest'[worker] \in Seq(Items)
      BY <1>6, <2>1, <2>2, TakeAllReceived DEF Control
    <3>2. dest' = [dest EXCEPT ![worker] = dest[worker] \o data]
      BY <2>2 DEF Q!TakeAll
    <3>3. dest' \in [{worker} -> Seq(Items)]
      BY <3>1, <3>2
    <3>4. Len(dest'[worker]) \in Nat
      BY <3>1
    <3>5. UNCHANGED <<at, ran, opc, closing, wpc>>
      BY <1>6 DEF Drain, threadVars
    <3> QED BY <2>1, <3>3, <3>4, <3>5
  <2>3. CASE Q!Test(worker) \/ Q!Wait(worker) \/ Q!Check(worker)
    BY <1>6, <2>3 DEF Drain, Q!Test, Q!Wait, Q!Check, threadVars
  <2>4. ~Q!TakeOne(worker)
    BY <2>1 DEF Q!TakeOne
  <2> QED BY <1>6, <2>2, <2>3, <2>4 DEF Drain, Q!Consume
<1>7. CASE WakeSpuriously
  BY <1>7 DEF WakeSpuriously, Q!WakeSpuriously, threadVars
<1>8. CASE DrainReturns
  BY <1>8 DEF DrainReturns, queueVars
<1>9. CASE RunWork
  <2>1. ran' \in Seq(Items)
    BY <1>9, RunWorkReceived
  <2> QED BY <1>9, <2>1 DEF RunWork, queueVars
<1>10. CASE FinishTick
  BY <1>10 DEF FinishTick
<1>11. CASE UNCHANGED vars
  BY <1>11 DEF vars, queueVars, threadVars
<1> QED
  BY <1>1, <1>2, <1>3, <1>4, <1>5, <1>6, <1>7, <1>8, <1>9, <1>10, <1>11
     DEF Next, OwnerStep, WorkerStep

LEMMA ControlStep ==
  ASSUME Holds, Control, WP!Section, C!TypeOK, [Next]_vars
  PROVE  Control'
<1> USE DispatcherAssumption DEF Control, OwnerWaits, ClosedIsEmpty, WorkerInTurn, OwnerNotifies
<1>0. qpc \in [Clients \cup {worker} \cup {owner} -> WP!PcStates]
      /\ cpc \in [{owner} -> {"idle", "signal", "notify", "callback", "late", "lateCallback"}]
  BY DEF WP!Section, WP!TypeOK, WP!Threads, C!TypeOK
<1>1. CASE Construct
  BY <1>0, <1>1 DEF Construct, C!AddListener, C!AddListenerEarly, C!AddListenerLate,
                      queueVars, Holds
<1>2. CASE BeginCancel
  BY <1>0, <1>2 DEF BeginCancel, C!Cancel, queueVars
<1>3. CASE SignalCancelled
  BY <1>0, <1>3 DEF SignalCancelled, C!SignalCancelled, queueVars, threadVars
<1>4. CASE CallListener
  BY <1>0, <1>4 DEF CallListener, C!CallListener, threadVars
<1>5. CASE ListenerReturns
  BY <1>0, <1>5 DEF ListenerReturns, C!ListenerReturns, queueVars, threadVars
<1>6. CASE CancelReturns
  BY <1>0, <1>6 DEF CancelReturns, C!CancelReturns, queueVars
<1>7. CASE Join \/ FinishCancel
  BY <1>7 DEF Join, FinishCancel, queueVars, cancelVars
<1>8. CASE Destroy
  BY <1>8 DEF Destroy, C!DestroyTicket, queueVars
<1>9. CASE OwnerNotifiesAll
  BY <1>0, <1>9 DEF OwnerNotifiesAll, Q!NotifyAll, Q!Threads, Q!Sleepers, cancelVars, threadVars
<1>10. CASE Clear
  BY <1>0, <1>10 DEF Clear, Q!Clear, Q!Goto, cancelVars
<1>11. ASSUME NEW p \in Clients, ClientNotifiesOne(p) PROVE Control'
  BY <1>0, <1>11 DEF ClientNotifiesOne, Q!NotifyOne, Q!Goto, Q!Sleepers, cancelVars, threadVars
<1>12. ASSUME NEW p \in Clients, NEW x \in Items, Queue(p, x) PROVE Control'
  BY <1>0, <1>12 DEF Queue, Q!Push, Q!Goto, cancelVars, threadVars
<1>13. CASE LoopTest
  BY <1>0, <1>13 DEF LoopTest, Q!Call, Q!Goto, queueVars, cancelVars
<1>14. CASE Drain
  BY <1>0, <1>14 DEF Drain, Q!Consume, Q!Test, Q!Wait, Q!Check, Q!TakeOne, Q!TakeAll, Q!Goto,
                     cancelVars, threadVars
<1>15. CASE WakeSpuriously
  BY <1>0, <1>15 DEF WakeSpuriously, Q!WakeSpuriously, Q!Goto, cancelVars, threadVars
<1>16. CASE DrainReturns \/ RunWork
  BY <1>16 DEF DrainReturns, RunWork, queueVars, cancelVars
<1>17. CASE FinishTick
  BY <1>17 DEF FinishTick, cancelVars, Holds
<1>18. CASE UNCHANGED vars
  BY <1>18 DEF vars, queueVars, cancelVars, threadVars
<1> QED
  BY <1>1, <1>2, <1>3, <1>4, <1>5, <1>6, <1>7, <1>8, <1>9, <1>10, <1>11, <1>12, <1>13,
     <1>14, <1>15, <1>16, <1>17, <1>18 DEF Next, OwnerStep, WorkerStep

-----------------------------------------------------------------------------
LEMMA CancellationTypes == C!TypeOK /\ [C!Next]_(C!vars) => C!TypeOK'
<1> SUFFICES ASSUME C!TypeOK, [C!Next]_(C!vars) PROVE C!TypeOK'
  OBVIOUS
<1>1. CP!TypeOK
  BY DEF C!TypeOK, CP!TypeOK
<1>2. [CP!Next]_(CP!vars)
  BY DEF C!Next, C!Continue, C!AddListener, C!AddListenerEarly, C!AddListenerLate, C!InsertItem,
         C!RunsNow, C!RunCopied, C!ReturnFromCopied, C!DestroyTicket, C!EraseItem, C!Cancel,
         C!SignalCancelled, C!CallListener, C!Youngest, C!ListenerReturns, C!CancelReturns, C!vars,
         CP!Next, CP!Continue, CP!AddListener, CP!AddListenerEarly, CP!AddListenerLate,
         CP!InsertItem, CP!RunsNow, CP!RunCopied, CP!ReturnFromCopied, CP!DestroyTicket,
         CP!EraseItem, CP!Cancel, CP!SignalCancelled, CP!CallListener, CP!Youngest,
         CP!ListenerReturns, CP!CancelReturns, CP!vars
<1>3. CP!TypeOK'
  BY <1>1, <1>2, CP!TypeStep, CancellationConstants
<1> QED BY <1>3 DEF C!TypeOK, CP!TypeOK

Inv == Holds /\ Control /\ WP!Section /\ WP!OrderInv /\ C!TypeOK

LEMMA InitReceived == Init => Received = <<>>
<1> SUFFICES ASSUME Init PROVE Received = <<>>
  OBVIOUS
<1>1. dest[worker] = <<>> /\ ran = <<>> /\ at = 0 /\ <<>> \in Seq(Items) /\ Len(<<>>) = 0
  BY DEF Init, Q!Init
<1>2. <<>> \o SubSeq(<<>>, 0 + 1, 0) = <<>>
  BY <1>1, NothingHeld
<1> QED BY <1>1, <1>2 DEF Received

LEMMA QueueInit == Init => WP!Init
BY InitReceived DEF Init, Q!Init, Q!Threads, WP!Init, WP!Threads

LEMMA InitInv == Init => Inv
<1> SUFFICES ASSUME Init PROVE Inv
  OBVIOUS
<1>1. Holds
  <2>1. dest \in [{worker} -> Seq(Items)] /\ dest[worker] = <<>> /\ Len(<<>>) = 0
    BY DEF Init, Q!Init
  <2>2. at = 0 /\ ran = <<>> /\ <<>> \in Seq(Items) /\ 0 \in 0 .. 0
    BY DEF Init
  <2> QED BY <2>1, <2>2 DEF Init, Holds, OwnerStates, WorkerStates
<1>2. Control
  BY DEF Init, Q!Init, Q!Threads, C!Init, Control, OwnerWaits, ClosedIsEmpty, WorkerInTurn,
         OwnerNotifies
<1>3. WP!Section /\ WP!OrderInv
  BY QueueInit, QueueConstants, WP!InitInv, WP!InitOrder DEF WP!IInv, WP!Section
<1>4. C!TypeOK
  <2>1. CP!Init
    BY DEF Init, C!Init, CP!Init
  <2> QED BY <2>1, CP!InitType, CancellationConstants DEF C!TypeOK, CP!TypeOK
<1> QED BY <1>1, <1>2, <1>3, <1>4 DEF Inv

LEMMA InvStep == Inv /\ [Next]_vars => Inv'
<1> SUFFICES ASSUME Inv, [Next]_vars PROVE Inv'
  OBVIOUS
<1>1. Holds /\ Control /\ WP!Section /\ WP!OrderInv /\ C!TypeOK
  BY DEF Inv
<1>2. [WP!Next]_(WP!vars)
  BY <1>1, QueueStep
<1>3. WP!Section'
  BY <1>1, <1>2, QueueConstants, WP!TypeStep, WP!SectionStep DEF WP!Section
<1>4. WP!OrderInv'
  BY <1>1, <1>2, <1>3, QueueConstants, WP!OrderStep DEF WP!Section
<1>5. C!TypeOK'
  BY <1>1, CancellationStep, CancellationTypes
<1>6. Holds' /\ Control'
  BY <1>1, HoldsStep, ControlStep
<1> QED BY <1>3, <1>4, <1>5, <1>6 DEF Inv

LEMMA Invariant == Spec => []Inv
BY InitInv, InvStep, PTL DEF Spec

-----------------------------------------------------------------------------
(* The variables of the dispatcher and of its parts have their types. *)
THEOREM TypeCorrect == Spec => []TypeOK
<1>1. Inv => TypeOK
  <2> SUFFICES ASSUME Inv PROVE TypeOK
    OBVIOUS
  <2>1. Q!TypeOK
    BY DEF Inv, Holds, WP!Section, WP!TypeOK, WP!Threads, WP!PcStates, WP!BlockingCalls,
           WP!TryCalls, Q!TypeOK, Q!Threads, Q!PcStates, Q!BlockingCalls, Q!TryCalls
  <2> QED BY <2>1 DEF Inv, Holds, TypeOK
<1> QED BY <1>1, Invariant, PTL

(* The dispatcher's use of its cancellation_source is one its              *)
(* specification allows.                                                   *)
THEOREM CancellationUsed == Spec => UsesItsCancellation
<1>1. Init => C!Init
  BY DEF Init
<1> QED BY <1>1, CancellationStep, PTL DEF Spec, UsesItsCancellation, C!Spec

(* The dispatcher implements its queue, the worker being the consumer that *)
(* keeps all it receives: clearing the workload and running it are no      *)
(* steps of the queue.                                                     *)
THEOREM QueueUsed == Spec => UsesItsQueue
<1>1. WP!Init => Work!Init
  BY DEF WP!Init, WP!Threads, Work!Init, Work!Threads
<1>2. [WP!Next]_(WP!vars) => [Work!Next]_(Work!vars)
  BY DEF WP!Next, WP!Push, WP!NotifyOne, WP!SetToken, WP!Clear, WP!Cancelled, WP!NotifyAll,
         WP!Consume, WP!Test, WP!Wait, WP!Check, WP!TakeOne, WP!TakeAll, WP!WakeSpuriously,
         WP!Call, WP!Goto, WP!Trim, WP!Notifies, WP!Elements, WP!Sleepers, WP!Threads,
         WP!BlockingCalls, WP!vars,
         Work!Next, Work!Push, Work!NotifyOne, Work!SetToken, Work!Clear, Work!Cancelled,
         Work!NotifyAll, Work!Consume, Work!Test, Work!Wait, Work!Check, Work!TakeOne,
         Work!TakeAll, Work!WakeSpuriously, Work!Call, Work!Goto, Work!Trim, Work!Notifies,
         Work!Elements, Work!Sleepers, Work!Threads, Work!BlockingCalls, Work!vars
<1>3. Inv /\ [Next]_vars => [Work!Next]_(Work!vars)
  BY <1>2, QueueStep DEF Inv
<1>4. Init => Work!Init
  BY <1>1, QueueInit
<1> QED BY <1>3, <1>4, Invariant, PTL DEF Spec, UsesItsQueue, Work!Spec

(* The destroyed dispatcher holds no work and its thread has ended,        *)
(* whenever the owner cancels, destroys, and whatever clients queue.       *)
THEOREM DestroyedIsClean == Spec => []NothingLeaks
<1>1. Inv => NothingLeaks
  BY DEF Inv, Control, OwnerWaits, ClosedIsEmpty, WorkerInTurn, NothingLeaks
<1> QED BY <1>1, Invariant, PTL

(* No work runs once cancel() is past its join. *)
THEOREM QuietOnceCancelled == Spec => QuietAfterCancel
<1>1. Inv /\ [Next]_vars => (requested /\ opc \notin {"cancel", "join"} => ran' = ran)
  <2> SUFFICES ASSUME Inv, [Next]_vars, requested, opc \notin {"cancel", "join"}
               PROVE  ran' = ran
    OBVIOUS
  <2>1. wpc = "exited"
    BY DEF Inv, Control, OwnerWaits
  <2>2. ~RunWork
    BY <2>1 DEF RunWork
  <2> QED
    BY <2>2 DEF Next, OwnerStep, WorkerStep, Construct, BeginCancel, SignalCancelled,
      CallListener, OwnerNotifiesAll, ListenerReturns, CancelReturns, Join, Clear, FinishCancel,
      Destroy, ClientNotifiesOne, Queue, LoopTest, Drain, DrainReturns, FinishTick,
      WakeSpuriously, vars, threadVars
<1>2. Inv /\ [Next]_vars => [requested /\ opc \notin {"cancel", "join"} => ran' = ran]_vars
  BY <1>1
<1> QED BY <1>2, Invariant, PTL DEF Spec, QuietAfterCancel

-----------------------------------------------------------------------------
(* A sequence without repetition is no longer than the set it is over. *)
LEMMA NoLonger ==
  ASSUME IsFiniteSet(Items), NEW s \in Seq(Items),
         \A i, j \in 1 .. Len(s) : s[i] = s[j] => i = j
  PROVE  Len(s) <= Cardinality(Items)
<1> DEFINE T == {s[i] : i \in 1 .. Len(s)}
<1>1. Len(s) \in Nat /\ s \in [1 .. Len(s) -> T] /\ T \subseteq Items
  OBVIOUS
<1>2. s \in Bijection(1 .. Len(s), T)
  BY <1>1 DEF Bijection, Injection, Surjection, IsInjective
<1>3. ExistsBijection(1 .. Len(s), T)
  BY <1>2 DEF ExistsBijection
<1> HIDE DEF T
<1>4. Cardinality(T) = Len(s)
  BY <1>1, <1>3, FS_CountingElements
<1> QED BY <1>1, <1>4, FS_Subset

AllThere == ~requested => pushed = Received \o data

\* A queue without a limit of its own keeps what is pushed.
LEMMA PushKeepsAll ==
  ASSUME IsFiniteSet(Items), Cardinality(Items) <= MaxSize,
         WP!TypeOK, WP!TypeOK', WP!OrderInv, WP!OrderInv',
         NEW p \in Clients, NEW x \in Items, WP!Push(p, x),
         pushed = Received \o data
  PROVE  pushed' = Received' \o data'
<1>1. data \in Seq(Items) /\ pushed \in Seq(Items) /\ pushed' \in Seq(Items)
      /\ Received \in Seq(Items)
  BY DEF WP!TypeOK
<1>2. Received' = Received
  BY DEF WP!Push
<1>3. pushed' = Append(pushed, x) /\ data' = WP!Trim(Append(data, x))
  BY DEF WP!Push
<1>4. Len(pushed') <= MaxSize
  <2>1. Len(pushed') <= Cardinality(Items)
    BY <1>1, NoLonger DEF WP!OrderInv, WP!PushedOnce
  <2>2. Cardinality(Items) \in Nat
    BY FS_CardinalityType
  <2> QED BY <1>1, <2>1, <2>2, DispatcherAssumption
<1>5. Len(data) <= Len(pushed)
  BY <1>1 DEF WP!OrderInv, WP!QueuedIsSuffix, WP!Gone
<1>6. Len(Append(data, x)) <= MaxSize
  BY <1>1, <1>3, <1>4, <1>5, DispatcherAssumption
<1>7. data' = Append(data, x)
  BY <1>1, <1>3, <1>6, DispatcherAssumption DEF WP!Trim
<1>8. Append(Received \o data, x) = Received \o Append(data, x)
  BY <1>1, AppendLast
<1> QED BY <1>2, <1>3, <1>7, <1>8

LEMMA AllThereStep ==
  ASSUME IsFiniteSet(Items), Cardinality(Items) <= MaxSize,
         Inv, Inv', AllThere, [Next]_vars
  PROVE  AllThere'
<1> SUFFICES ASSUME ~requested' PROVE pushed' = Received' \o data'
  BY DEF AllThere
<1>1. [WP!Next]_(WP!vars)
  BY QueueStep DEF Inv
<1>2. ~(\E k \in {owner} : WP!Clear(k))
  <2>1. qpc'[owner] = "idle"
    BY DEF Inv, Control, OwnerNotifies, OwnerWaits
  <2>2. qpc \in [Clients \cup {worker} \cup {owner} -> WP!PcStates]
    BY DEF Inv, WP!Section, WP!TypeOK, WP!Threads
  <2> QED BY <2>1, <2>2 DEF WP!Clear, WP!Goto
<1>3. ~requested
  BY <1>1 DEF WP!Next, WP!Push, WP!NotifyOne, WP!SetToken, WP!Clear, WP!Cancelled, WP!NotifyAll,
              WP!Consume, WP!Test, WP!Wait, WP!Check, WP!TakeOne, WP!TakeAll, WP!WakeSpuriously,
              WP!Call, WP!vars
<1>4. pushed = Received \o data
  BY <1>3 DEF AllThere
<1>5. ASSUME NEW p \in Clients, NEW x \in Items, WP!Push(p, x) PROVE pushed' = Received' \o data'
  BY <1>4, <1>5, PushKeepsAll DEF Inv, WP!Section
<1>6. ASSUME WP!TakeAll(worker) PROVE pushed' = Received' \o data'
  <2>1. [c \in {worker} |-> Received'] =
          [[c \in {worker} |-> Received] EXCEPT ![worker] = @ \o data]
    BY <1>6 DEF WP!TakeAll
  <2>2. Received' = Received \o data
    BY <2>1
  <2>3. data \in Seq(Items) /\ Received \in Seq(Items)
    BY DEF Inv, WP!Section, WP!TypeOK
  <2>4. (Received \o data) \o <<>> = Received \o data
    BY <2>3
  <2> QED BY <1>4, <1>6, <2>2, <2>4 DEF WP!TakeAll
<1>7. ASSUME WP!Test(worker) \/ WP!Wait(worker) \/ WP!Check(worker) \/ WP!WakeSpuriously(worker)
             \/ WP!Call(worker, "blocking_drain")
      PROVE  pushed' = Received' \o data'
  <2>1. [c \in {worker} |-> Received'] = [c \in {worker} |-> Received]
    BY <1>7 DEF WP!Test, WP!Wait, WP!Check, WP!WakeSpuriously, WP!Call
  <2>2. Received' = Received
    BY <2>1
  <2> QED BY <1>4, <1>7, <2>2 DEF WP!Test, WP!Wait, WP!Check, WP!WakeSpuriously, WP!Call
<1>8. ASSUME WP!SetToken \/ WP!Cancelled(owner) \/ WP!NotifyAll(owner)
             \/ (\E p \in Clients : WP!NotifyOne(p)) \/ UNCHANGED WP!vars
      PROVE  pushed' = Received' \o data'
  <2>1. [c \in {worker} |-> Received'] = [c \in {worker} |-> Received]
    BY <1>8 DEF WP!SetToken, WP!Cancelled, WP!NotifyAll, WP!NotifyOne, WP!vars
  <2>2. Received' = Received
    BY <2>1
  <2> QED BY <1>4, <1>8, <2>2 DEF WP!SetToken, WP!Cancelled, WP!NotifyAll, WP!NotifyOne, WP!vars
<1>9. ~WP!TakeOne(worker)
  BY DEF Inv, WP!Section, WP!CallsMatch, WP!TakeOne
<1> QED BY <1>1, <1>2, <1>5, <1>6, <1>7, <1>8, <1>9 DEF WP!Next, WP!Consume

(* Work is run in the order it was queued and never twice; and unless the  *)
(* dispatcher is cancelled all of it is run, held by the worker or queued. *)
(* The queue has no limit in background_dispatcher: the hypothesis says    *)
(* that MaxSize is out of reach.                                           *)
THEOREM NoWorkIsLost ==
  ASSUME IsFiniteSet(Items), Cardinality(Items) <= MaxSize
  PROVE  Spec => []NothingLost
<1>1. Init => AllThere
  <2> SUFFICES ASSUME Init PROVE AllThere
    OBVIOUS
  <2>1. Received = <<>> /\ pushed = <<>> /\ data = <<>>
    BY InitReceived DEF Init, Q!Init
  <2> QED BY <2>1 DEF AllThere
<1>2. Inv /\ Inv' /\ AllThere /\ [Next]_vars => AllThere'
  BY AllThereStep
<1>3. Inv /\ AllThere => NothingLost
  <2> SUFFICES ASSUME Inv, AllThere PROVE NothingLost
    OBVIOUS
  <2>1. WP!Fifo
    BY QueueConstants, WP!OrderMeansFifo DEF Inv, WP!Section
  <2>2. WP!Ascending(Received)
    BY <2>1 DEF WP!Fifo
  <2>3. Q!Ascending(Received)
    BY <2>2 DEF WP!Ascending, WP!Position, Q!Ascending, Q!Position
  <2> QED BY <2>3 DEF AllThere, NothingLost
<1> QED BY <1>1, <1>2, <1>3, Invariant, PTL DEF Spec
=============================================================================
