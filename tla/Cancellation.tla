---------------------------- MODULE Cancellation ----------------------------
(***************************************************************************)
(* cancellation and cancellation_source (threading/cancellation.h) with    *)
(* the ticketed_collection that holds the listeners.  Any number of        *)
(* threads add listeners, cancel and destroy tickets at the same time.     *)
(*                                                                         *)
(* A critical section of m_mutex is one step; what happens outside it      *)
(* (the exchange on the atomic flag, each call of a listener, its return)  *)
(* is a step of its own.  A listener runs with no lock held, so what it    *)
(* does to the source while it runs is a step of another thread here.      *)
(* Every element of Listeners is one call of add_listener.                 *)
(***************************************************************************)
EXTENDS Naturals

CONSTANTS Threads, Listeners, NoListener

ASSUME CancellationAssumption == NoListener \notin Listeners

VARIABLES
    requested,  \* m_cancellationRequested, what cancelled() returns
    signaled,   \* m_signaled
    seed,       \* m_seed of the ticketed collection
    id,         \* id[l]: the number drawn for l's entry
    items,      \* the listeners whose entry is in the collection
    pc,         \* pc[t]: where thread t is
    todo,       \* todo[t]: t's local copy of the listeners, those not called yet
    current,    \* current[t]: the listener t is adding late or calling
    ticket,     \* ticket[l]: the life of the ticket add_listener returns
    calls       \* calls[l]: how often l was invoked (for the properties)

vars == <<requested, signaled, seed, id, items, pc, todo, current, ticket, calls>>

TypeOK ==
    /\ requested \in BOOLEAN
    /\ signaled \in BOOLEAN
    /\ seed \in Nat
    /\ id \in [Listeners -> Nat]
    /\ items \in SUBSET Listeners
    /\ pc \in [Threads -> {"idle", "signal", "notify", "callback", "late", "lateCallback"}]
    /\ todo \in [Threads -> SUBSET Listeners]
    /\ current \in [Threads -> Listeners \cup {NoListener}]
    /\ ticket \in [Listeners -> {"none", "adding", "held", "destroyed"}]
    /\ calls \in [Listeners -> Nat]

Init ==
    /\ requested = FALSE
    /\ signaled = FALSE
    /\ seed = 0
    /\ id = [l \in Listeners |-> 0]
    /\ items = {}
    /\ pc = [t \in Threads |-> "idle"]
    /\ todo = [t \in Threads |-> {}]
    /\ current = [t \in Threads |-> NoListener]
    /\ ticket = [l \in Listeners |-> "none"]
    /\ calls = [l \in Listeners |-> 0]

-----------------------------------------------------------------------------
\* Wrong variants: each definition named "Bug..." replaces the one after it
\* in a run that shows a property failing; no action uses them.

\* ticketed_collection::insert: the caller holds the mutex.
InsertItem(l) ==
    /\ id' = [id EXCEPT ![l] = seed]
    /\ seed' = seed + 1
    /\ items' = items \cup {l}

\* ticket_functor::operator(): the entry is found by its number and erased.
BugEraseItem(l) == items' = items

EraseItem(l) == items' = items \ {l}

\* The flag that internal_add_listener reads under the mutex.
BugRunsNowOnRequest == requested
BugNeverRunsNow == FALSE

RunsNow == signaled

\* add_listener before the signal: the ticket is all there is to do.
AddListenerEarly(t, l) ==
    /\ pc[t] = "idle" /\ ticket[l] = "none"
    /\ ~RunsNow
    /\ InsertItem(l)
    /\ ticket' = [ticket EXCEPT ![l] = "held"]
    /\ UNCHANGED <<requested, signaled, pc, todo, current, calls>>

\* add_listener after the signal: the entry is made all the same, and the
\* copy of the callback is still to be run before the ticket is returned.
AddListenerLate(t, l) ==
    /\ pc[t] = "idle" /\ ticket[l] = "none"
    /\ RunsNow
    /\ InsertItem(l)
    /\ ticket' = [ticket EXCEPT ![l] = "adding"]
    /\ pc' = [pc EXCEPT ![t] = "late"]
    /\ current' = [current EXCEPT ![t] = l]
    /\ UNCHANGED <<requested, signaled, todo, calls>>

AddListener(t, l) == AddListenerEarly(t, l) \/ AddListenerLate(t, l)

RunCopied(t) ==
    /\ pc[t] = "late"
    /\ calls' = [calls EXCEPT ![current[t]] = @ + 1]
    /\ pc' = [pc EXCEPT ![t] = "lateCallback"]
    /\ UNCHANGED <<requested, signaled, seed, id, items, todo, current, ticket>>

ReturnFromCopied(t) ==
    /\ pc[t] = "lateCallback"
    /\ ticket' = [ticket EXCEPT ![current[t]] = "held"]
    /\ pc' = [pc EXCEPT ![t] = "idle"]
    /\ current' = [current EXCEPT ![t] = NoListener]
    /\ UNCHANGED <<requested, signaled, seed, id, items, todo, calls>>

\* Whoever holds the ticket may drop it at any time, from any thread, also
\* from inside a listener.
DestroyTicket(l) ==
    /\ ticket[l] = "held"
    /\ ticket' = [ticket EXCEPT ![l] = "destroyed"]
    /\ EraseItem(l)
    /\ UNCHANGED <<requested, signaled, seed, id, pc, todo, current, calls>>

\* cancel: only the thread whose exchange finds FALSE goes on to signal.
Cancel(t) ==
    /\ pc[t] = "idle"
    /\ requested' = TRUE
    /\ pc' = [pc EXCEPT ![t] = IF requested THEN "idle" ELSE "signal"]
    /\ UNCHANGED <<signaled, seed, id, items, todo, current, ticket, calls>>

BugSignalCancelled(t) ==
    /\ pc[t] = "signal"
    /\ todo' = [todo EXCEPT ![t] = items]
    /\ pc' = [pc EXCEPT ![t] = "notify"]
    /\ UNCHANGED <<requested, signaled, seed, id, items, current, ticket, calls>>

\* signal_cancelled, the locked part: the copy of the listeners and the flag.
SignalCancelled(t) ==
    /\ pc[t] = "signal"
    /\ todo' = [todo EXCEPT ![t] = items]
    /\ signaled' = TRUE
    /\ pc' = [pc EXCEPT ![t] = "notify"]
    /\ UNCHANGED <<requested, seed, id, items, current, ticket, calls>>

\* The reverse iteration: the entry with the greatest number comes next.
BugYoungest(S, l) == l \in S /\ \A m \in S : id[l] <= id[m]

Youngest(S, l) == l \in S /\ \A m \in S : id[m] <= id[l]

CallListener(t, l) ==
    /\ pc[t] = "notify"
    /\ Youngest(todo[t], l)
    /\ todo' = [todo EXCEPT ![t] = @ \ {l}]
    /\ current' = [current EXCEPT ![t] = l]
    /\ calls' = [calls EXCEPT ![l] = @ + 1]
    /\ pc' = [pc EXCEPT ![t] = "callback"]
    /\ UNCHANGED <<requested, signaled, seed, id, items, ticket>>

ListenerReturns(t) ==
    /\ pc[t] = "callback"
    /\ current' = [current EXCEPT ![t] = NoListener]
    /\ pc' = [pc EXCEPT ![t] = "notify"]
    /\ UNCHANGED <<requested, signaled, seed, id, items, todo, ticket, calls>>

BugCancelReturns(t) ==
    /\ pc[t] = "notify"
    /\ pc' = [pc EXCEPT ![t] = "idle"]
    /\ UNCHANGED <<requested, signaled, seed, id, items, todo, current, ticket, calls>>

\* The loop is over and cancel() returns.
CancelReturns(t) ==
    /\ pc[t] = "notify"
    /\ todo[t] = {}
    /\ pc' = [pc EXCEPT ![t] = "idle"]
    /\ UNCHANGED <<requested, signaled, seed, id, items, todo, current, ticket, calls>>

\* What a thread does without being asked: it finishes the call it is in.
Continue(t) ==
    \/ RunCopied(t)
    \/ ReturnFromCopied(t)
    \/ SignalCancelled(t)
    \/ \E l \in Listeners : CallListener(t, l)
    \/ ListenerReturns(t)
    \/ CancelReturns(t)

Next ==
    \/ \E t \in Threads : Cancel(t) \/ Continue(t)
    \/ \E t \in Threads, l \in Listeners : AddListener(t, l)
    \/ \E l \in Listeners : DestroyTicket(l)

Spec == Init /\ [][Next]_vars

\* A thread inside a call keeps running, and listeners return; nobody is
\* obliged to cancel, to add a listener or to drop a ticket.
FairSpec == Spec /\ \A t \in Threads : WF_vars(Continue(t))

-----------------------------------------------------------------------------
(* Those who will be called whatever happens next. *)
Owed ==
    {l \in Listeners : \E t \in Threads :
        l \in todo[t] \/ (pc[t] = "late" /\ current[t] = l)}

(***************************************************************************)
(* The coat check agrees with the tickets: an entry is in the collection   *)
(* exactly from the insertion until its ticket is destroyed.  Both asserts *)
(* rest on it: ticket_functor finds the entry it erases, and ~cancellation *)
(* finds no entry once every ticket is gone.                               *)
(***************************************************************************)
ItemsMatchTickets == items = {l \in Listeners : ticket[l] \in {"adding", "held"}}

(***************************************************************************)
(* However the cancels, the late additions and the removals interleave, no *)
(* listener is invoked twice: it is either in the one copy that            *)
(* signal_cancelled makes or is run by its own add_listener, never both.   *)
(***************************************************************************)
AtMostOnce == \A l \in Listeners : calls[l] <= 1

(***************************************************************************)
(* Once the source is signalled, a listener whose ticket is held was       *)
(* invoked or is about to be, by a thread that is inside a call: none is   *)
(* lost between the exchange on the flag, the copy of the listeners and an *)
(* addition on another thread.                                             *)
(***************************************************************************)
NoMissedListener ==
    signaled => \A l \in items : calls[l] = 1 \/ l \in Owed

(***************************************************************************)
(* "We want to signal cancellation in reverse order": a listener that is   *)
(* still waiting for its call was added before every listener that has     *)
(* been invoked already, those that were added late included.              *)
(***************************************************************************)
ReverseOrder ==
    \A t \in Threads : \A l \in todo[t] : \A m \in Listeners :
        calls[m] > 0 => id[l] < id[m]

(***************************************************************************)
(* No listener runs unless cancelled() already answers TRUE, so that code  *)
(* woken by its listener and testing the token sees the cancellation.      *)
(***************************************************************************)
RequestedFirst == \A l \in Listeners : calls[l] > 0 => requested

(***************************************************************************)
(* A listener whose ticket was destroyed before the canceller copied the   *)
(* listeners is never invoked afterwards.                                  *)
(***************************************************************************)
RemovedIsSilent ==
    [][\A l \in Listeners :
         ticket[l] = "destroyed" /\ l \notin Owed
           => calls'[l] = calls[l] /\ l \notin Owed']_vars

(***************************************************************************)
(* A cancel() reaches every listener: one that holds a ticket when the     *)
(* cancellation has been requested is invoked in the end, or its ticket    *)
(* goes first.                                                             *)
(***************************************************************************)
CancelReachesAll ==
    \A l \in Listeners :
        (requested /\ ticket[l] \in {"adding", "held"})
          ~> (calls[l] = 1 \/ ticket[l] = "destroyed")

\* The source implements its abstract specification.
Signal == INSTANCE OneShotSignal WITH
    fired     <- signaled,
    joined    <- {l \in Listeners : ticket[l] # "none"},
    members   <- items,
    owed      <- Owed,
    delivered <- {l \in Listeners : calls[l] > 0}

(***************************************************************************)
(* The mutex, the snapshot and the late path together behave as a signal   *)
(* that fires once and owes one call to each member: safety and delivery.  *)
(***************************************************************************)
ImplementsSignal == Signal!Spec
=============================================================================
