------------------------ MODULE BackgroundDispatcher ------------------------
(***************************************************************************)
(* dispatcher and background_dispatcher (threading/dispatcher.h): clients  *)
(* queue work, one worker thread drains and runs it, and the owner cancels *)
(* and destroys the object.  It composes the two components it is made of: *)
(*                                                                         *)
(*   Q  its m_work, with the worker as the only consumer, the owner as the *)
(*      only thread that clears and notifies, and cancelled() of C as the  *)
(*      token;                                                             *)
(*   C  its m_cancellation, cancelled by the owner only, with the listener *)
(*      the constructor registers: a call of the queue's cancelled().      *)
(*                                                                         *)
(* Work does not throw and does not call cancel(): both end the process    *)
(* (std::terminate on the worker thread, a thread that joins itself).      *)
(***************************************************************************)
EXTENDS Sequences, Naturals

CONSTANTS Clients, Items, MaxSize, worker, owner, wake, NoThread, NoListener

ASSUME DispatcherAssumption ==
    /\ owner # worker
    /\ {owner, worker} \cap Clients = {}
    /\ NoThread \notin Clients \cup {owner, worker}
    /\ NoListener # wake
    /\ MaxSize \in Nat

VARIABLES
    data, lock, qpc, call, dest, pushed,                      \* m_work
    requested, signaled, seed, id, items, cpc, todo, current,
    ticket, calls,                                            \* m_cancellation
    opc,        \* where the owner is in the life of the dispatcher
    closing,    \* the owner is in the destructor
    wpc,        \* where the worker is in its loop
    at,         \* how much of its workload the worker has run
    ran         \* the work that has been run, in order (for the properties)

queueVars == <<data, lock, qpc, call, dest, pushed>>
cancelVars == <<requested, signaled, seed, id, items, cpc, todo, current, ticket, calls>>
threadVars == <<opc, closing, wpc, at, ran>>
vars == <<queueVars, cancelVars, threadVars>>

Q == INSTANCE BlockingConcurrentQueue WITH
    Producers <- Clients, Consumers <- {worker}, Controllers <- {owner},
    Calls <- {"blocking_drain"}, token <- requested, pc <- qpc

C == INSTANCE Cancellation WITH
    Threads <- {owner}, Listeners <- {wake}, pc <- cpc

OwnerStates == {"construct", "open", "cancel", "join", "clear", "clearing", "drop", "gone"}
WorkerStates == {"none", "loop", "draining", "running", "exited"}

TypeOK ==
    /\ Q!TypeOK
    /\ C!TypeOK
    /\ opc \in OwnerStates
    /\ closing \in BOOLEAN
    /\ wpc \in WorkerStates
    /\ at \in 0 .. Len(dest[worker])
    /\ ran \in Seq(Items)

Init ==
    /\ Q!Init
    /\ C!Init
    /\ opc = "construct"
    /\ closing = FALSE
    /\ wpc = "none"
    /\ at = 0
    /\ ran = <<>>

-----------------------------------------------------------------------------
(* The owner. *)

\* The listener is registered first, then the thread is started.
Construct ==
    /\ opc = "construct"
    /\ C!AddListener(owner, wake)
    /\ opc' = "open"
    /\ wpc' = "loop"
    /\ UNCHANGED <<queueVars, closing, at, ran>>

\* cancel(), called by the owner or by the destructor: m_cancellation.cancel()
\* goes on to signal, or returns at once because it was cancelled before.
\* Whoever destroys the dispatcher made sure nobody is still queueing.
BeginCancel ==
    /\ opc = "open"
    /\ C!Cancel(owner)
    /\ closing' \in IF \A p \in Clients : qpc[p] = "idle" THEN BOOLEAN ELSE {FALSE}
    /\ opc' = IF requested THEN "join" ELSE "cancel"
    /\ UNCHANGED <<queueVars, wpc, at, ran>>

SignalCancelled ==
    /\ opc = "cancel"
    /\ C!SignalCancelled(owner)
    /\ UNCHANGED <<queueVars, threadVars>>

\* The only listener is a call of m_work.cancelled().
CallListener ==
    /\ opc = "cancel"
    /\ C!CallListener(owner, wake)
    /\ qpc' = [qpc EXCEPT ![owner] = "notifyAll"]
    /\ UNCHANGED <<data, lock, call, dest, pushed, threadVars>>

\* A cancelled() that notifies nobody.
BugOwnerNotifiesAll ==
    /\ qpc[owner] = "notifyAll"
    /\ qpc' = [qpc EXCEPT ![owner] = "idle"]
    /\ UNCHANGED <<data, lock, call, dest, pushed, cancelVars, threadVars>>

OwnerNotifiesAll ==
    /\ Q!NotifyAll(owner)
    /\ UNCHANGED <<cancelVars, threadVars>>

ListenerReturns ==
    /\ opc = "cancel" /\ qpc[owner] = "idle"
    /\ C!ListenerReturns(owner)
    /\ UNCHANGED <<queueVars, threadVars>>

CancelReturns ==
    /\ opc = "cancel"
    /\ C!CancelReturns(owner)
    /\ opc' = "join"
    /\ UNCHANGED <<queueVars, closing, wpc, at, ran>>

\* A cancel that does not wait for the worker.
BugJoin ==
    /\ opc = "join"
    /\ opc' = "clear"
    /\ UNCHANGED <<queueVars, cancelVars, closing, wpc, at, ran>>

\* m_thread.join(), or nothing when it was joined before.
Join ==
    /\ opc = "join"
    /\ wpc = "exited"
    /\ opc' = "clear"
    /\ UNCHANGED <<queueVars, cancelVars, closing, wpc, at, ran>>

\* A cancel that leaves the queue as it is.
BugClear ==
    /\ opc = "clear"
    /\ opc' = "clearing"
    /\ UNCHANGED <<queueVars, cancelVars, closing, wpc, at, ran>>

Clear ==
    /\ opc = "clear"
    /\ Q!Clear(owner)
    /\ opc' = "clearing"
    /\ UNCHANGED <<cancelVars, closing, wpc, at, ran>>

\* cancel() returns, into the destructor or to the owner.
FinishCancel ==
    /\ opc = "clearing" /\ qpc[owner] = "idle"
    /\ opc' = IF closing THEN "drop" ELSE "open"
    /\ UNCHANGED <<queueVars, cancelVars, closing, wpc, at, ran>>

\* The members are destroyed, the registration before the cancellation.
Destroy ==
    /\ opc = "drop"
    /\ C!DestroyTicket(wake)
    /\ opc' = "gone"
    /\ UNCHANGED <<queueVars, closing, wpc, at, ran>>

OwnerStep ==
    \/ SignalCancelled \/ CallListener \/ OwnerNotifiesAll \/ ListenerReturns
    \/ CancelReturns \/ Join \/ Clear \/ FinishCancel \/ Destroy

-----------------------------------------------------------------------------
(* The clients and the worker. *)

\* queue(): clients use the dispatcher between its construction and its
\* destruction, also after it was cancelled.
Queue(p, x) ==
    /\ opc # "construct" /\ ~closing
    /\ Q!Push(p, x)
    /\ UNCHANGED <<cancelVars, threadVars>>

\* A push that notifies nobody.
BugClientNotifiesOne(p) ==
    /\ qpc[p] = "notify"
    /\ qpc' = [qpc EXCEPT ![p] = "idle"]
    /\ UNCHANGED <<data, lock, call, dest, pushed, cancelVars, threadVars>>

ClientNotifiesOne(p) ==
    /\ Q!NotifyOne(p)
    /\ UNCHANGED <<cancelVars, threadVars>>

\* while (!m_cancellation.cancelled()): the thread ends, or ticks again.
LoopTest ==
    /\ wpc = "loop"
    /\ IF requested
         THEN wpc' = "exited" /\ UNCHANGED queueVars
         ELSE wpc' = "draining" /\ Q!Call(worker, "blocking_drain")
    /\ UNCHANGED <<cancelVars, opc, closing, at, ran>>

\* Inside blocking_drain.
Drain ==
    /\ wpc = "draining"
    /\ Q!Consume(worker)
    /\ UNCHANGED <<cancelVars, threadVars>>

WakeSpuriously ==
    /\ Q!WakeSpuriously(worker)
    /\ UNCHANGED <<cancelVars, threadVars>>

\* blocking_drain has returned: TRUE exactly when it filled the workload.
DrainReturns ==
    /\ wpc = "draining" /\ qpc[worker] = "idle"
    /\ wpc' = IF dest[worker] = <<>> THEN "loop" ELSE "running"
    /\ UNCHANGED <<queueVars, cancelVars, opc, closing, at, ran>>

RunWork ==
    /\ wpc = "running" /\ at < Len(dest[worker])
    /\ at' = at + 1
    /\ ran' = Append(ran, dest[worker][at + 1])
    /\ UNCHANGED <<queueVars, cancelVars, opc, closing, wpc>>

\* A tick that does not clear the workload it has run.
BugKeepWorkload ==
    /\ wpc = "running" /\ at = Len(dest[worker])
    /\ at' = 0
    /\ wpc' = "loop"
    /\ UNCHANGED <<queueVars, cancelVars, opc, closing, ran>>

\* m_workload.clear().
FinishTick ==
    /\ wpc = "running" /\ at = Len(dest[worker])
    /\ dest' = [dest EXCEPT ![worker] = <<>>]
    /\ at' = 0
    /\ wpc' = "loop"
    /\ UNCHANGED <<data, lock, qpc, call, pushed, cancelVars, opc, closing, ran>>

WorkerStep == LoopTest \/ Drain \/ DrainReturns \/ RunWork \/ FinishTick

Next ==
    \/ Construct \/ BeginCancel \/ OwnerStep
    \/ \E p \in Clients : ClientNotifiesOne(p) \/ \E x \in Items : Queue(p, x)
    \/ WorkerStep \/ WakeSpuriously

Spec == Init /\ [][Next]_vars

\* Threads run on inside a call and work returns; nobody has to queue, to
\* cancel or to destroy, and no spurious wake-up is counted on.
FairSpec ==
    /\ Spec
    /\ WF_vars(OwnerStep)
    /\ WF_vars(WorkerStep)
    /\ \A p \in Clients : WF_vars(ClientNotifiesOne(p))

-----------------------------------------------------------------------------
(* All the work the worker ever got: what it has run and what it holds. *)
Received == ran \o SubSeq(dest[worker], at + 1, Len(dest[worker]))

(***************************************************************************)
(* Work runs once each and in the order it was queued, through the queue,  *)
(* the workload and the cancellations; and until somebody cancels nothing  *)
(* is lost: what has run, what the worker still holds and what is queued   *)
(* are all that was queued.                                                *)
(***************************************************************************)
NothingLost ==
    /\ Q!Ascending(Received)
    /\ ~requested => pushed = Received \o data

(***************************************************************************)
(* Once cancel() is past its join no work runs, whatever is still queued   *)
(* or gets queued later: the owner may destroy what the work refers to.    *)
(***************************************************************************)
QuietAfterCancel ==
    [][requested /\ opc \notin {"cancel", "join"} => ran' = ran]_vars

(***************************************************************************)
(* The destroyed dispatcher holds on to no work (DispatcherLeakCheck), and *)
(* no thread runs on its members.                                          *)
(***************************************************************************)
NothingLeaks ==
    opc \in {"drop", "gone"} => data = <<>> /\ dest[worker] = <<>> /\ wpc = "exited"

(***************************************************************************)
(* Everything queued is run in the end unless the dispatcher is cancelled: *)
(* no interleaving of push, notify_one and wait makes the worker miss it.  *)
(* What was drained is run even so, when the cancellation comes in the     *)
(* middle of the batch.                                                    *)
(***************************************************************************)
EverythingRuns ==
    \A x \in Items :
        /\ x \in Q!Elements(pushed) ~> (x \in Q!Elements(ran) \/ requested)
        /\ x \in Q!Elements(dest[worker]) ~> x \in Q!Elements(ran)

(***************************************************************************)
(* A worker that already waits when cancelled() notifies ends its thread,  *)
(* so the cancel() that joins it returns.                                  *)
(***************************************************************************)
NotifiedWorkerStops ==
    (qpc[worker] = "sleep" /\ opc = "cancel" /\ qpc[owner] = "notifyAll")
        ~> opc \in {"open", "gone"}

(***************************************************************************)
(* cancel(), and with it the destructor, returns: the scope of             *)
(* DispatcherLeakCheck ends.  The run refutes it: cancelled() notifies     *)
(* without the mutex, so the notification can fall between the worker's    *)
(* test of the token and its wait.                                         *)
(***************************************************************************)
CancelCompletes == opc = "cancel" ~> opc \in {"open", "gone"}

-----------------------------------------------------------------------------
\* What the queue is to its clients: a worker that keeps all it receives.
Work == INSTANCE BlockingConcurrentQueue WITH
    Producers <- Clients, Consumers <- {worker}, Controllers <- {owner},
    Calls <- {"blocking_drain"}, token <- requested, pc <- qpc,
    dest <- [c \in {worker} |-> Received]

(***************************************************************************)
(* Whatever the owner and the worker do, the dispatcher uses its queue and *)
(* its cancellation as their specifications allow, so that all that holds  *)
(* of the two components holds inside the dispatcher.                      *)
(***************************************************************************)
UsesItsQueue == Work!Spec
UsesItsCancellation == C!Spec
=============================================================================
