---------------------- MODULE BlockingConcurrentQueue ----------------------
(***************************************************************************)
(* blocking_concurrent_queue (threading/blocking_concurrent_queue.h): a    *)
(* bounded queue under one mutex with one condition variable.              *)
(*                                                                         *)
(* push and clear hold the mutex for one step and notify after they        *)
(* released it, in a step of their own; cancelled() notifies without ever  *)
(* taking it.  A consumer reads the cancellation token, which no mutex     *)
(* guards, up to three times inside its critical section, so that section  *)
(* is several steps and lock says who is inside.  A thread that waits may  *)
(* wake without being notified.  Every element of Items is pushed once.    *)
(***************************************************************************)
EXTENDS Sequences, Naturals

CONSTANTS
    Producers, Consumers, Controllers,
    Items,
    MaxSize,    \* the template argument max_size
    Calls,      \* the calls consumers make
    NoThread

Threads == Producers \cup Consumers \cup Controllers

BlockingCalls == {"blocking_pop", "blocking_drain"}
TryCalls == {"try_pop", "try_drain"}

ASSUME QueueAssumption ==
    /\ NoThread \notin Threads
    /\ MaxSize \in Nat
    /\ Calls \subseteq BlockingCalls \cup TryCalls
    /\ Producers \cap Consumers = {}
    /\ Producers \cap Controllers = {}
    /\ Consumers \cap Controllers = {}

VARIABLES
    data,       \* m_data
    lock,       \* the holder of m_mutex between two steps
    pc,         \* pc[t]: "sleep" is a thread inside m_dataReady.wait
    call,       \* call[c]: the call consumer c is in
    dest,       \* dest[c]: what consumer c has received
    token,      \* cancel.cancelled() of the token the consumers share
    pushed      \* every item pushed, in order (for the properties)

vars == <<data, lock, pc, call, dest, token, pushed>>

PcStates ==
    {"idle", "notify", "notifyAll", "ready", "wait", "sleep", "check", "take"}

TypeOK ==
    /\ data \in Seq(Items)
    /\ lock \in Consumers \cup {NoThread}
    /\ pc \in [Threads -> PcStates]
    /\ call \in [Consumers -> BlockingCalls \cup TryCalls]
    /\ dest \in [Consumers -> Seq(Items)]
    /\ token \in BOOLEAN
    /\ pushed \in Seq(Items)

Init ==
    /\ data = <<>>
    /\ lock = NoThread
    /\ pc = [t \in Threads |-> "idle"]
    /\ call \in [Consumers -> Calls]
    /\ dest = [c \in Consumers |-> <<>>]
    /\ token = FALSE
    /\ pushed = <<>>

Goto(t, l) == pc' = [pc EXCEPT ![t] = l]

Elements(s) == {s[i] : i \in DOMAIN s}
Sleepers == {c \in Consumers : pc[c] = "sleep"}

-----------------------------------------------------------------------------
\* Definitions named "Bug..." are wrong variants of the one that follows;
\* no action uses them.

\* The oldest elements go while there are too many.
BugTrim(s) == IF Len(s) > MaxSize THEN SubSeq(s, 1, MaxSize) ELSE s

Trim(s) == IF Len(s) > MaxSize THEN SubSeq(s, Len(s) - MaxSize + 1, Len(s)) ELSE s

\* Only the push that finds the queue empty notifies.
BugNotifies == Len(data) = 1

Notifies == data = <<>>

Push(p, x) ==
    /\ pc[p] = "idle"
    /\ lock = NoThread
    /\ x \notin Elements(pushed)
    /\ pushed' = Append(pushed, x)
    /\ data' = Trim(Append(data, x))
    /\ Goto(p, IF Notifies THEN "notify" ELSE "idle")
    /\ UNCHANGED <<lock, call, dest, token>>

\* notify_one: some waiting thread, if there is any, has to contend for the
\* mutex again.
NotifyOne(p) ==
    /\ pc[p] = "notify"
    /\ IF Sleepers = {}
         THEN Goto(p, "idle")
         ELSE \E c \in Sleepers : pc' = [pc EXCEPT ![p] = "idle", ![c] = "ready"]
    /\ UNCHANGED <<data, lock, call, dest, token, pushed>>

\* clear: the swap under the mutex, then notify_all.
Clear(k) ==
    /\ pc[k] = "idle"
    /\ lock = NoThread
    /\ data' = <<>>
    /\ Goto(k, "notifyAll")
    /\ UNCHANGED <<lock, call, dest, token, pushed>>

\* The token is somebody else's: it is cancelled at any time, once.
SetToken ==
    /\ ~token
    /\ token' = TRUE
    /\ UNCHANGED <<data, lock, pc, call, dest, pushed>>

\* A call of cancelled(), which its caller makes after cancelling the token.
Cancelled(k) ==
    /\ pc[k] = "idle"
    /\ token
    /\ Goto(k, "notifyAll")
    /\ UNCHANGED <<data, lock, call, dest, token, pushed>>

\* cancelled(), and the end of clear: everyone who waits is woken.
NotifyAll(k) ==
    /\ pc[k] = "notifyAll"
    /\ pc' = [t \in Threads |->
                IF t = k THEN "idle"
                ELSE IF t \in Sleepers THEN "ready" ELSE pc[t]]
    /\ UNCHANGED <<data, lock, call, dest, token, pushed>>

-----------------------------------------------------------------------------
Call(c, f) ==
    /\ pc[c] = "idle"
    /\ f \in Calls
    /\ call' = [call EXCEPT ![c] = f]
    /\ Goto(c, "ready")
    /\ UNCHANGED <<data, lock, dest, token, pushed>>

\* c has the mutex and evaluates the condition of the wait loop; a try call
\* goes straight to the test behind it.
Test(c) ==
    /\ pc[c] = "ready"
    /\ lock = NoThread
    /\ lock' = c
    /\ Goto(c, IF call[c] \in BlockingCalls /\ ~token /\ data = <<>>
                 THEN "wait" ELSE "check")
    /\ UNCHANGED <<data, call, dest, token, pushed>>

\* m_dataReady.wait: releasing the mutex and waiting are one step, but the
\* condition was evaluated in an earlier one.
Wait(c) ==
    /\ pc[c] = "wait"
    /\ lock' = NoThread
    /\ Goto(c, "sleep")
    /\ UNCHANGED <<data, call, dest, token, pushed>>

WakeSpuriously(c) ==
    /\ pc[c] = "sleep"
    /\ Goto(c, "ready")
    /\ UNCHANGED <<data, lock, call, dest, token, pushed>>

\* "empty or cancelled" ends the call with FALSE and nothing taken.
Check(c) ==
    /\ pc[c] = "check"
    /\ IF data = <<>> \/ token
         THEN Goto(c, "idle") /\ lock' = NoThread
         ELSE Goto(c, "take") /\ lock' = lock
    /\ UNCHANGED <<data, call, dest, token, pushed>>

TakeOne(c) ==
    /\ pc[c] = "take" /\ call[c] \in {"blocking_pop", "try_pop"}
    /\ dest' = [dest EXCEPT ![c] = Append(@, Head(data))]
    /\ data' = Tail(data)
    /\ Goto(c, "idle")
    /\ lock' = NoThread
    /\ UNCHANGED <<call, token, pushed>>

TakeAll(c) ==
    /\ pc[c] = "take" /\ call[c] \in {"blocking_drain", "try_drain"}
    /\ dest' = [dest EXCEPT ![c] = @ \o data]
    /\ data' = <<>>
    /\ Goto(c, "idle")
    /\ lock' = NoThread
    /\ UNCHANGED <<call, token, pushed>>

\* A consumer's way through its call, without the spurious wake-ups.
Consume(c) == Test(c) \/ Wait(c) \/ Check(c) \/ TakeOne(c) \/ TakeAll(c)

Next ==
    \/ \E p \in Producers : NotifyOne(p) \/ \E x \in Items : Push(p, x)
    \/ SetToken
    \/ \E k \in Controllers : Clear(k) \/ Cancelled(k) \/ NotifyAll(k)
    \/ \E c \in Consumers :
         \/ Consume(c)
         \/ WakeSpuriously(c)
         \/ \E f \in Calls : Call(c, f)

Spec == Init /\ [][Next]_vars

-----------------------------------------------------------------------------
Position(x) == CHOOSE i \in DOMAIN pushed : pushed[i] = x

Ascending(s) == \A i, j \in DOMAIN s : i < j => Position(s[i]) < Position(s[j])

(***************************************************************************)
(* First in, first out, once each: the queue holds the latest pushes, each *)
(* consumer receives items in the order they were pushed, and no item is   *)
(* received twice or received and still queued, although the queue drops   *)
(* old items at its limit and clear drops everything.                      *)
(***************************************************************************)
Fifo ==
    /\ data = SubSeq(pushed, Len(pushed) - Len(data) + 1, Len(pushed))
    /\ \A c \in Consumers :
         /\ Ascending(dest[c])
         /\ Elements(dest[c]) \cap Elements(data) = {}
         /\ \A d \in Consumers \ {c} : Elements(dest[c]) \cap Elements(dest[d]) = {}

(***************************************************************************)
(* Notifying only on the push that finds the queue empty is enough: while  *)
(* something is queued, nobody sleeps unless a notification is on its way  *)
(* or a woken consumer has yet to look, until the token is cancelled (from *)
(* then on it is for cancelled() to wake them).  It holds for one consumer *)
(* and for several that block in blocking_drain; of several that block in  *)
(* blocking_pop one may be left asleep beside a queued item.               *)
(***************************************************************************)
NoStrandedItem ==
    data # <<>> /\ Sleepers # {} /\ ~token =>
        \/ \E t \in Threads : pc[t] \in {"notify", "notifyAll"}
        \/ \E c \in Consumers : pc[c] \in {"ready", "check", "take"}
=============================================================================
