-------------------------------- MODULE Router --------------------------------
(***************************************************************************)
(* router (messaging/router.h) with its sentries (sentry.h): events are    *)
(* sent to listeners on one thread.  Listeners call back into the router:  *)
(* they fire events, add listeners and destroy tickets while one or more   *)
(* calls of fire iterate the lists, and they may throw.  stack holds the   *)
(* calls of fire that have begun, the outermost first; between two of its  *)
(* steps a call of fire is inside a listener or about to look at the next. *)
(*                                                                         *)
(* Every element of Listeners is one call of add_listener.                 *)
(***************************************************************************)
EXTENDS Naturals, Sequences, SequencesExt

CONSTANTS
    Events,
    Listeners,
    EventOf,            \* EventOf[l]: the event listener l is added for
    Ids,                \* the values of ticket_seed are 0 .. Ids - 1
    MaxDepth,           \* bounds the nesting of fire
    DestroysPending     \* whether a ticket may be destroyed whose listener
                        \* still waits for the end of a fire

ASSUME RouterAssumption ==
    /\ EventOf \in [Listeners -> Events]
    /\ Ids \in Nat \ {0}
    /\ MaxDepth \in Nat
    /\ DestroysPending \in BOOLEAN

VARIABLES
    listeners,  \* m_listeners
    pending,    \* m_pending
    sentry,     \* m_sentries: the value of each sentry
    nextId,     \* m_nextId
    ticket,     \* ticket[l]: its state, and the id it was given
    stack,      \* the calls of fire
    threw       \* threw[e]: a listener threw out of a fire of e, after which
                \* no fire of e has cleaned up (for the properties)

vars == <<listeners, pending, sentry, nextId, ticket, stack, threw>>

ListenerEntries == [who : Listeners, id : 0 .. Ids - 1, valid : BOOLEAN]

\* A call of fire: its event, the next position it looks at, what its guard
\* restores, and whether it is inside the listener at that position.  The
\* listeners it found when it began and those it called are for the properties.
Frames == [event : Events, at : Nat \ {0}, previous : BOOLEAN, calling : BOOLEAN,
           audience : Seq(Listeners), heard : Seq(Listeners)]

TypeOK ==
    /\ listeners \in [Events -> Seq(ListenerEntries)]
    /\ pending \in [Events -> Seq(ListenerEntries)]
    /\ sentry \in [Events -> BOOLEAN]
    /\ nextId \in 0 .. Ids - 1
    /\ ticket \in [Listeners -> [state : {"none", "alive", "destroyed"}, id : 0 .. Ids - 1]]
    /\ stack \in Seq(Frames)
    /\ threw \in [Events -> BOOLEAN]

\* m_nextId has no initializer: it starts with any value.
Init ==
    /\ listeners = [e \in Events |-> <<>>]
    /\ pending = [e \in Events |-> <<>>]
    /\ sentry = [e \in Events |-> FALSE]
    /\ nextId \in 0 .. Ids - 1
    /\ ticket = [l \in Listeners |-> [state |-> "none", id |-> 0]]
    /\ stack = <<>>
    /\ threw = [e \in Events |-> FALSE]

ValidAt(s) == {i \in DOMAIN s : s[i].valid}
Rank(S, i) == Cardinality({j \in S : j <= i})

\* What remove_if keeps, in its order: the k-th of the valid entries is the
\* one with k valid entries up to it.
Valid(s) ==
    [k \in 1 .. Cardinality(ValidAt(s)) |->
        s[CHOOSE i \in ValidAt(s) : Rank(ValidAt(s), i) = k]]

Names(s) == [i \in DOMAIN s |-> s[i].who]

Top == stack[Len(stack)]
Replaced(frame) == [stack EXCEPT ![Len(stack)] = frame]
Popped == SubSeq(stack, 1, Len(stack) - 1)
Current == listeners[Top.event][Top.at]
AtEnd == Top.at > Len(listeners[Top.event])

\* The thread is outside the router, or inside a listener.
CallerRuns == stack # <<>> => Top.calling

-----------------------------------------------------------------------------
(* fire.  Definitions named "Bug..." are wrong variants of the one that    *)
(* follows; no action uses them.                                           *)

Fire(e) ==
    /\ CallerRuns
    /\ Len(stack) < MaxDepth
    /\ sentry' = [sentry EXCEPT ![e] = TRUE]
    /\ stack' = Append(stack,
         [event |-> e, at |-> 1, previous |-> sentry[e], calling |-> FALSE,
          audience |-> Names(Valid(listeners[e])), heard |-> <<>>])
    /\ UNCHANGED <<listeners, pending, nextId, ticket, threw>>

\* A fire that does not look at valid.
BugCallListener ==
    /\ ~CallerRuns /\ ~AtEnd
    /\ stack' = Replaced([Top EXCEPT !.calling = TRUE, !.heard = Append(@, Current.who)])
    /\ UNCHANGED <<listeners, pending, sentry, nextId, ticket, threw>>

CallListener ==
    /\ ~CallerRuns /\ ~AtEnd /\ Current.valid
    /\ stack' = Replaced([Top EXCEPT !.calling = TRUE, !.heard = Append(@, Current.who)])
    /\ UNCHANGED <<listeners, pending, sentry, nextId, ticket, threw>>

SkipListener ==
    /\ ~CallerRuns /\ ~AtEnd /\ ~Current.valid
    /\ stack' = Replaced([Top EXCEPT !.at = @ + 1])
    /\ UNCHANGED <<listeners, pending, sentry, nextId, ticket, threw>>

ListenerReturns ==
    /\ stack # <<>> /\ Top.calling
    /\ stack' = Replaced([Top EXCEPT !.calling = FALSE, !.at = @ + 1])
    /\ UNCHANGED <<listeners, pending, sentry, nextId, ticket, threw>>

\* A guard that always opens the sentry again.
BugReleaseGuard == sentry' = [sentry EXCEPT ![Top.event] = FALSE]

\* The guard's destructor.
ReleaseGuard == sentry' = [sentry EXCEPT ![Top.event] = Top.previous]

\* The listener's exception leaves fire past the clean-up.  Whoever called fire
\* is a listener again, which may catch it or let it through in turn.
ListenerThrows ==
    /\ stack # <<>> /\ Top.calling
    /\ ReleaseGuard
    /\ stack' = Popped
    /\ threw' = [threw EXCEPT ![Top.event] = TRUE]
    /\ UNCHANGED <<listeners, pending, nextId, ticket>>

\* A clean-up that leaves the pending listeners in both lists.
BugCleanUp(e) ==
    /\ listeners' = [listeners EXCEPT ![e] = Valid(@) \o pending[e]]
    /\ threw' = [threw EXCEPT ![e] = FALSE]
    /\ UNCHANGED pending

CleanUp(e) ==
    /\ listeners' = [listeners EXCEPT ![e] = Valid(@) \o pending[e]]
    /\ pending' = [pending EXCEPT ![e] = <<>>]
    /\ threw' = [threw EXCEPT ![e] = FALSE]

\* The end of fire: the outermost call for this event cleans up.
FireReturns ==
    /\ ~CallerRuns /\ AtEnd
    /\ ReleaseGuard
    /\ stack' = Popped
    /\ IF sentry'[Top.event]
         THEN UNCHANGED <<listeners, pending, threw>>
         ELSE CleanUp(Top.event)
    /\ UNCHANGED <<nextId, ticket>>

-----------------------------------------------------------------------------
(* Listeners and their tickets. *)

Following(n) == (n + 1) % Ids

\* An addition to the list that is being iterated.
BugAddListener(l) ==
    /\ CallerRuns
    /\ ticket[l].state = "none"
    /\ LET entry == [who |-> l, id |-> nextId, valid |-> TRUE]
           e == EventOf[l]
       IN  listeners' = [listeners EXCEPT ![e] = Append(@, entry)]
    /\ ticket' = [ticket EXCEPT ![l] = [state |-> "alive", id |-> nextId]]
    /\ nextId' = Following(nextId)
    /\ UNCHANGED <<pending, sentry, stack, threw>>

AddListener(l) ==
    /\ CallerRuns
    /\ ticket[l].state = "none"
    /\ LET entry == [who |-> l, id |-> nextId, valid |-> TRUE]
           e == EventOf[l]
       IN  IF sentry[e]
             THEN pending' = [pending EXCEPT ![e] = Append(@, entry)] /\ UNCHANGED listeners
             ELSE listeners' = [listeners EXCEPT ![e] = Append(@, entry)] /\ UNCHANGED pending
    /\ ticket' = [ticket EXCEPT ![l] = [state |-> "alive", id |-> nextId]]
    /\ nextId' = Following(nextId)
    /\ UNCHANGED <<sentry, stack, threw>>

\* Removes the entry at i or, while the list is iterated, disables it.
Disable(e, i) ==
    listeners' = [listeners EXCEPT ![e] =
        IF sentry[e] THEN [@ EXCEPT ![i].valid = FALSE] ELSE RemoveAt(@, i)]

IsFound(l) == \E i \in DOMAIN listeners[EventOf[l]] : listeners[EventOf[l]][i].id = ticket[l].id

\* Found or not (the assertion that it is found is not part of a release
\* build), the ticket is gone.
DestroyTicket(l) ==
    /\ CallerRuns
    /\ ticket[l].state = "alive"
    /\ DestroysPending \/ IsFound(l)
    /\ LET e == EventOf[l] IN
       IF IsFound(l)
         THEN Disable(e, SelectInSeq(listeners[e], LAMBDA x : x.id = ticket[l].id))
         ELSE UNCHANGED listeners
    /\ ticket' = [ticket EXCEPT ![l].state = "destroyed"]
    /\ UNCHANGED <<pending, sentry, nextId, stack, threw>>

Next ==
    \/ \E e \in Events : Fire(e)
    \/ CallListener \/ SkipListener \/ ListenerReturns \/ ListenerThrows
    \/ FireReturns
    \/ \E l \in Listeners : AddListener(l) \/ DestroyTicket(l)

Spec == Init /\ [][Next]_vars

-----------------------------------------------------------------------------
(***************************************************************************)
(* No list changes its entries under an iteration: while a call of fire is *)
(* on the stack, listeners of its event are neither inserted, erased nor   *)
(* moved, by whatever its listeners do, the ends and the exceptions of     *)
(* other calls for the same event included.  (The range-for over a vector  *)
(* would be undefined otherwise.)                                          *)
(***************************************************************************)
IterationStable ==
    [][\A i \in DOMAIN stack \cap DOMAIN stack' :
         LET e == stack[i].event IN Names(listeners'[e]) = Names(listeners[e])]_vars

(***************************************************************************)
(* Who hears an event: listeners that were registered when fire began, in  *)
(* the order of their registration, once each; and when fire ends, every   *)
(* one of them that still has its ticket.                                  *)
(***************************************************************************)
HeardByAudience ==
    \A i \in DOMAIN stack :
        LET f == stack[i] IN
        /\ ToSet(f.heard) \subseteq ToSet(f.audience)
        /\ \A j, k \in DOMAIN f.heard : \A p, q \in DOMAIN f.audience :
             j < k /\ f.heard[j] = f.audience[p] /\ f.heard[k] = f.audience[q] => p < q
        /\ i = Len(stack) /\ ~f.calling /\ AtEnd =>
             \A l \in ToSet(f.audience) \ ToSet(f.heard) : ticket[l].state = "destroyed"

(***************************************************************************)
(* A listener is never called once its ticket is destroyed, whether that   *)
(* was before fire, in an earlier listener of the same fire or inside a    *)
(* nested one.  (For tickets of listeners that are not pending.)           *)
(***************************************************************************)
RemovedIsSilent ==
    [][Len(stack') = Len(stack) /\ ~CallerRuns /\ CallerRuns' =>
         ticket[Current.who].state = "alive"]_vars

(***************************************************************************)
(* Tickets and entries agree: who has its ticket has one entry, valid and  *)
(* under the ticket's id, in one of the two lists, and whose ticket was    *)
(* destroyed has none or an invalid one.  And nobody waits for a fire that *)
(* is over: listeners are pending for an event, and invalid entries kept,  *)
(* only while the event is being fired or after a listener threw out of it. *)
(***************************************************************************)
EntriesOf(l) == listeners[EventOf[l]] \o pending[EventOf[l]]

OneEntry(l, s) ==
    \E i \in DOMAIN s :
        /\ s[i] = [who |-> l, id |-> ticket[l].id, valid |-> TRUE]
        /\ \A j \in DOMAIN s \ {i} : s[j].who # l /\ s[j].id # ticket[l].id

PendingWaitsForFire ==
    \A e \in Events :
        pending[e] # <<>> \/ (\E x \in ToSet(listeners[e]) : ~x.valid) =>
            threw[e] \/ \E i \in DOMAIN stack : stack[i].event = e

TicketsFindListeners ==
    /\ \A l \in Listeners :
         /\ ticket[l].state = "alive" => OneEntry(l, EntriesOf(l))
         /\ ticket[l].state = "destroyed" =>
              \A e \in Events : \A x \in ToSet(listeners[e] \o pending[e]) : x.who = l => ~x.valid
    /\ PendingWaitsForFire

(***************************************************************************)
(* What the assertion of internal_remove_listener says: a ticket that is   *)
(* destroyed finds its listener.                                           *)
(***************************************************************************)
RemovalFindsListener ==
    [][\A l \in Listeners :
         ticket[l].state = "alive" /\ ticket'[l].state = "destroyed" => IsFound(l)]_vars
=============================================================================
