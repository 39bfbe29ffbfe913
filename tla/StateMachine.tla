---------------------------- MODULE StateMachine ----------------------------
(***************************************************************************)
(* state_machine_driver and state_machine_observer                         *)
(* (scheduling/state_machine.h): one driver moves through states, moving   *)
(* on when the work observers do in a state is over; observers wait for a  *)
(* state, work in it on a dispatcher and leave it.                         *)
(*                                                                         *)
(* The map from states to completions is guarded by a mutex; everything    *)
(* between two critical sections is a step of its own.  An entry is one    *)
(* completions object with its two completion sources, StateEntered and    *)
(* StateExited; entries are numbered as they are made.  Each actor passes  *)
(* one cancellation to all its calls, which another thread, its canceller, *)
(* may cancel once (the listeners are those of module Cancellation).       *)
(*                                                                         *)
(* The driver makes one move at a time, and an observer makes one call of  *)
(* on at a time, when nobody is entered in the state: the assertion of     *)
(* enter.  A dispatcher that runs work inline is a driver that is slow.    *)
(***************************************************************************)
EXTENDS Naturals

CONSTANTS
    driver,
    Observers,
    States,
    Cancellable,    \* the actors whose cancellation may be cancelled
    MaxEntries      \* bound: completions objects made

Actors == Observers \cup {driver}
Canceller(a) == <<"cancel", a>>
Procs == Actors \cup {Canceller(a) : a \in Actors}

\* Whose cancellation p deals with.
Token(p) == IF p \in Actors THEN p ELSE p[2]

Entries == 1 .. MaxEntries
NoEntry == 0

ASSUME StateMachineAssumption ==
    /\ driver \notin Observers /\ States # {}
    /\ Cancellable \subseteq Actors
    /\ MaxEntries \in Nat
    /\ \A a, b \in Actors : a # Canceller(b)

VARIABLES
    current,    \* m_states: the entry of each state, if it has one
    made,       \* how many entries were made
    pending,    \* WorkPending of an entry
    verdict,    \* Result of StateEntered: what was last assigned to it
    entered,    \* StateEntered is completed
    exited,     \* StateExited is completed
    requested,  \* the cancellations that are cancelled
    signaled,   \* the cancellations that have called their listeners
    listening,  \* the actors whose listener is registered
    pc,
    where,      \* where[p]: the state of p's call
    at,         \* at[a]: the entry a's call is about
    target      \* target[p]: the entry p is completing a source of

mapVars == <<current, made, pending>>
entryVars == <<verdict, entered, exited>>
tokenVars == <<requested, signaled, listening>>
procVars == <<pc, where, at, target>>
vars == <<mapVars, entryVars, tokenVars, procVars>>

PcStates ==
    {"idle", "assign", "settle", "listen", "take", "attach", "waiting", "queued",
     "refused", "working", "exit", "complete", "signal", "threw", "done"}

TypeOK ==
    /\ current \in [States -> Entries \cup {NoEntry}]
    /\ made \in 0 .. MaxEntries
    /\ pending \in [Entries -> BOOLEAN]
    /\ verdict \in [Entries -> {"none", "ok", "cancelled"}]
    /\ entered \in [Entries -> BOOLEAN]
    /\ exited \in [Entries -> BOOLEAN]
    /\ signaled \subseteq requested /\ requested \subseteq Cancellable
    /\ listening \subseteq Actors
    /\ pc \in [Procs -> PcStates]
    /\ where \in [Procs -> States]
    /\ at \in [Actors -> Entries \cup {NoEntry}]
    /\ target \in [Procs -> Entries \cup {NoEntry}]

Init ==
    /\ current = [s \in States |-> NoEntry]
    /\ made = 0
    /\ pending = [e \in Entries |-> FALSE]
    /\ verdict = [e \in Entries |-> "none"]
    /\ entered = [e \in Entries |-> FALSE]
    /\ exited = [e \in Entries |-> FALSE]
    /\ requested = {} /\ signaled = {} /\ listening = {}
    /\ pc = [p \in Procs |-> "idle"]
    /\ where = [p \in Procs |-> CHOOSE s \in States : TRUE]
    /\ at = [a \in Actors |-> NoEntry]
    /\ target = [p \in Procs |-> NoEntry]

Goto(p, l) == pc' = [pc EXCEPT ![p] = l]

-----------------------------------------------------------------------------
(* The critical sections. *)

\* fetch_state: the state's entry, or a new one.
FetchState(p, s) ==
    /\ IF current[s] = NoEntry
         THEN /\ made < MaxEntries
              /\ made' = made + 1
              /\ current' = [current EXCEPT ![s] = made + 1]
         ELSE UNCHANGED <<made, current>>
    /\ where' = [where EXCEPT ![p] = s]
    /\ at' = [at EXCEPT ![p] = current'[s]]

MoveTo(s) ==
    /\ pc[driver] = "idle"
    /\ FetchState(driver, s)
    /\ target' = [target EXCEPT ![driver] = at'[driver]]
    /\ Goto(driver, "assign")
    /\ UNCHANGED <<pending, entryVars, tokenVars>>

\* enter, with its assertion as the callers' obligation.
Enter(o, s) ==
    /\ pc[o] = "idle"
    /\ current[s] # NoEntry => ~pending[current[s]]
    /\ FetchState(o, s)
    /\ pending' = [pending EXCEPT ![at'[o]] = TRUE]
    /\ Goto(o, "listen")
    /\ UNCHANGED <<entryVars, tokenVars, target>>

\* An exit that leaves the entry in the map.
BugErase(s) == UNCHANGED current

Erase(s) == current' = [current EXCEPT ![s] = NoEntry]

\* Where a listener goes when it has nothing (left) to do: back into the
\* call that ran it inline, or to the end of cancel().
AfterListener(p) == IF p \in Actors THEN "attach" ELSE "done"

\* What a listener takes from the map, if it is there: an entry that is not
\* past what the listener cancels.
Takable(p, e) ==
    /\ e # NoEntry
    /\ IF Token(p) = driver THEN ~exited[e] ELSE ~entered[e]

\* cancel_enter (of an observer's token) and cancel_exit (of the driver's).
CancelTake(p) ==
    /\ pc[p] = "take"
    /\ LET e == current[where[p]] IN
         IF Takable(p, e)
           THEN /\ Erase(where[p])
                /\ target' = [target EXCEPT ![p] = e]
                /\ Goto(p, IF Token(p) = driver THEN "complete" ELSE "assign")
           ELSE /\ Goto(p, AfterListener(p))
                /\ UNCHANGED <<current, target>>
    /\ UNCHANGED <<made, pending, entryVars, tokenVars, where, at>>

\* An exit that only removes the entry.
BugExitTake(o) ==
    /\ pc[o] = "exit"
    /\ Erase(where[o])
    /\ Goto(o, "idle")
    /\ at' = [at EXCEPT ![o] = NoEntry]
    /\ UNCHANGED <<made, pending, entryVars, tokenVars, where, target>>

\* exit: whatever entry the state has by now is taken.
ExitTake(o) ==
    /\ pc[o] = "exit"
    /\ LET e == current[where[o]] IN
         IF e = NoEntry
           THEN /\ Goto(o, "idle")
                /\ UNCHANGED <<current, target>>
           ELSE /\ Erase(where[o])
                /\ target' = [target EXCEPT ![o] = e]
                /\ Goto(o, "complete")
    /\ at' = [at EXCEPT ![o] = NoEntry]
    /\ UNCHANGED <<made, pending, entryVars, tokenVars, where>>

-----------------------------------------------------------------------------
(* Completions, outside the critical sections. *)

\* complete() of StateEntered, by move_to or cancel_enter: Result first.
AssignEntered(p) ==
    /\ pc[p] = "assign"
    /\ verdict' = [verdict EXCEPT ![target[p]] = IF p = driver THEN "ok" ELSE "cancelled"]
    /\ Goto(p, "settle")
    /\ UNCHANGED <<mapVars, entered, exited, tokenVars, where, at, target>>

\* What an observer's continuation of StateEntered goes on with.
Admit(e) == IF verdict[e] = "ok" THEN "queued" ELSE "refused"
WaitingFor(e) == {o \in Observers : pc[o] = "waiting" /\ at[o] = e}

\* The source is complete and the continuation of whoever waits for it runs;
\* completing it a second time throws, out of move_to or out of cancel().
SettleEntered(p) ==
    /\ pc[p] = "settle"
    /\ LET e == target[p]
           W == WaitingFor(e)
       IN IF entered[e]
            THEN /\ Goto(p, "threw")
                 /\ UNCHANGED <<entered, listening>>
            ELSE /\ entered' = [entered EXCEPT ![e] = TRUE]
                 /\ pc' = [q \in Procs |->
                             IF q = p THEN IF p = driver THEN "listen" ELSE AfterListener(p)
                             ELSE IF q \in W THEN Admit(e) ELSE pc[q]]
                 /\ listening' = listening \ W
    /\ target' = [target EXCEPT ![p] = NoEntry]
    /\ UNCHANGED <<mapVars, verdict, exited, requested, signaled, where, at>>

\* A completion of StateExited that nobody is told of.
BugCompleteExited(p) ==
    /\ pc[p] = "complete"
    /\ exited' = [exited EXCEPT ![target[p]] = TRUE]
    /\ Goto(p, IF p \in Observers THEN "idle" ELSE AfterListener(p))
    /\ target' = [target EXCEPT ![p] = NoEntry]
    /\ UNCHANGED <<mapVars, verdict, entered, tokenVars, where, at>>

\* complete() of StateExited, by exit or cancel_exit: the driver's move is
\* over, if it got as far as waiting for it.
CompleteExited(p) ==
    /\ pc[p] = "complete"
    /\ exited' = [exited EXCEPT ![target[p]] = TRUE]
    /\ LET next == IF p \in Observers THEN "idle" ELSE AfterListener(p) IN
         IF pc[driver] = "waiting" /\ at[driver] = target[p]
           THEN /\ pc' = [pc EXCEPT ![p] = next, ![driver] = "idle"]
                /\ at' = [at EXCEPT ![driver] = NoEntry]
                /\ listening' = listening \ {driver}
           ELSE /\ Goto(p, next)
                /\ UNCHANGED <<at, listening>>
    /\ target' = [target EXCEPT ![p] = NoEntry]
    /\ UNCHANGED <<mapVars, verdict, entered, requested, signaled, where>>

-----------------------------------------------------------------------------
(* Cancellation and waiting. *)

\* add_listener: the listener runs inline when it is too late to register.
AddListener(a) ==
    /\ pc[a] = "listen"
    /\ IF a \in signaled
         THEN Goto(a, "take") /\ UNCHANGED listening
         ELSE Goto(a, "attach") /\ listening' = listening \cup {a}
    /\ UNCHANGED <<mapVars, entryVars, requested, signaled, where, at, target>>

Cancel(a) ==
    /\ a \in Cancellable \ requested
    /\ requested' = requested \cup {a}
    /\ Goto(Canceller(a), "signal")
    /\ UNCHANGED <<mapVars, entryVars, signaled, listening, where, at, target>>

\* signal_cancelled: the listener that is registered now, with the state of
\* the call that registered it, will be called.
Signal(a) ==
    /\ pc[Canceller(a)] = "signal"
    /\ signaled' = signaled \cup {a}
    /\ Goto(Canceller(a), IF a \in listening THEN "take" ELSE "done")
    /\ where' = [where EXCEPT ![Canceller(a)] = where[a]]
    /\ UNCHANGED <<mapVars, entryVars, requested, listening, at, target>>

\* then: the continuation runs at once if its task is complete.
AttachObserver(o) ==
    /\ pc[o] = "attach"
    /\ IF entered[at[o]]
         THEN Goto(o, Admit(at[o])) /\ listening' = listening \ {o}
         ELSE Goto(o, "waiting") /\ UNCHANGED listening
    /\ UNCHANGED <<mapVars, entryVars, requested, signaled, where, at, target>>

\* A move that is over when its state is entered.
BugAttachDriver ==
    /\ pc[driver] = "attach"
    /\ Goto(driver, "idle")
    /\ at' = [at EXCEPT ![driver] = NoEntry]
    /\ listening' = listening \ {driver}
    /\ UNCHANGED <<mapVars, entryVars, requested, signaled, where, target>>

AttachDriver ==
    /\ pc[driver] = "attach"
    /\ IF exited[at[driver]]
         THEN /\ Goto(driver, "idle")
              /\ at' = [at EXCEPT ![driver] = NoEntry]
              /\ listening' = listening \ {driver}
         ELSE /\ Goto(driver, "waiting")
              /\ UNCHANGED <<at, listening>>
    /\ UNCHANGED <<mapVars, entryVars, requested, signaled, where, target>>

MayWork(o) == pc[o] = "queued" /\ o \notin requested

\* The dispatcher gets to it: cancelled or refused, the callable is skipped.
RunWork(o) ==
    /\ pc[o] \in {"queued", "refused"}
    /\ Goto(o, IF MayWork(o) THEN "working" ELSE "exit")
    /\ UNCHANGED <<mapVars, entryVars, tokenVars, where, at, target>>

WorkReturns(o) ==
    /\ pc[o] = "working"
    /\ Goto(o, "exit")
    /\ UNCHANGED <<mapVars, entryVars, tokenVars, where, at, target>>

Step(p) ==
    CancelTake(p) \/ AssignEntered(p) \/ SettleEntered(p) \/ CompleteExited(p)

ActorStep(a) == Step(a) \/ AddListener(a)
DriverStep == ActorStep(driver) \/ AttachDriver
ObserverStep(o) ==
    ActorStep(o) \/ AttachObserver(o) \/ RunWork(o) \/ WorkReturns(o) \/ ExitTake(o)
CancellerStep(a) == Step(Canceller(a)) \/ Signal(a)

Next ==
    \/ \E s \in States : MoveTo(s) \/ \E o \in Observers : Enter(o, s)
    \/ \E a \in Actors : Cancel(a) \/ CancellerStep(a)
    \/ DriverStep
    \/ \E o \in Observers : ObserverStep(o)

Spec == Init /\ [][Next]_vars

\* Threads get on with the call they are in, dispatchers run what they were
\* given and work returns; nobody has to move, to enter or to cancel.
FairSpec ==
    /\ Spec
    /\ WF_vars(DriverStep)
    /\ \A o \in Observers : WF_vars(ObserverStep(o))
    /\ \A a \in Actors : WF_vars(CancellerStep(a))

-----------------------------------------------------------------------------
Working == {o \in Observers : pc[o] = "working"}
InCall(o) == pc[o] \in {"listen", "attach", "waiting", "queued", "refused", "working"}

(***************************************************************************)
(* StateExited is completed once: whichever of exit and cancel_exit takes  *)
(* an entry out of the map has it to itself.  (StateEntered is not so      *)
(* protected: move_to and cancel_enter may both complete it, one throws.)  *)
(***************************************************************************)
OneCompleter ==
    \A p, q \in Procs :
        pc[p] = "complete" =>
            /\ ~exited[target[p]]
            /\ pc[q] = "complete" /\ target[q] = target[p] => q = p

(***************************************************************************)
(* As long as nothing is cancelled, work runs in the state the driver is   *)
(* in, and the driver waits for it: no two states ever run at a time.      *)
(***************************************************************************)
ExclusiveUntilCancelled ==
    requested = {} =>
        \A o \in Working :
            at[o] = at[driver] /\ pc[driver] \in {"listen", "attach", "waiting"}

(***************************************************************************)
(* Who fetches an entry gets one that can still be moved into and exited:  *)
(* entries leave the map before a source of theirs is completed, other     *)
(* than by the driver that moves into them.  And as long as nothing is     *)
(* cancelled, whoever waits can be found: the entry an observer is entered *)
(* in, and the entry the driver waits for, is in the map, or somebody is   *)
(* about to complete it.                                                   *)
(***************************************************************************)
IsOpen(e) ==
    /\ ~exited[e]
    /\ verdict[e] # "cancelled"
    /\ entered[e] => at[driver] = e \/ pc[driver] = "threw"

Findable(a) ==
    \/ current[where[a]] = at[a]
    \/ \E p \in Procs : pc[p] \in {"assign", "settle", "complete"} /\ target[p] = at[a]

MapHoldsOpen ==
    /\ \A s \in States : current[s] # NoEntry => IsOpen(current[s])
    /\ requested = {} =>
         /\ \A o \in Observers : InCall(o) => Findable(o)
         /\ pc[driver] = "waiting" => Findable(driver)

(***************************************************************************)
(* A move ends when an observer has entered its state, unless a            *)
(* cancellation interferes.                                                *)
(***************************************************************************)
MoveCompletes ==
    (pc[driver] = "waiting" /\ \E o \in Observers : InCall(o) /\ at[o] = at[driver])
        ~> (pc[driver] # "waiting" \/ requested # {})
=============================================================================
