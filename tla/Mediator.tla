------------------------------- MODULE Mediator -------------------------------
(***************************************************************************)
(* mediator (messaging/mediator.h): events that any thread sends are fired *)
(* through a router by the one thread that ticks a manual_dispatcher       *)
(* (threading/dispatcher.h).  The dispatcher's queue is blocking_          *)
(* concurrent_queue, of which try_drain and push are one step each here.   *)
(*                                                                         *)
(* The application uses a router directly or behind a mediator (wiring).   *)
(* The sends are numbered in the order in which the queue takes them.      *)
(***************************************************************************)
EXTENDS Router, FiniteSetsExt

CONSTANT MaxSends       \* bounds the sends

ASSUME MediatorAssumption == MaxSends \in Nat

VARIABLES
    wiring,     \* "direct" or "mediated"
    sent,       \* the events that were sent, by number
    work,       \* m_work: the numbers of the sends that wait
    workload,   \* m_workload: those the tick has drained
    at,         \* the position in m_workload of the loop of internal_tick, or 0
    token,      \* whether the token given to tick is cancelled
    fired,      \* the numbers fired so far, and 0 where an exception left tick
                \* (for the properties)
    dropped     \* the numbers that clear() removed (for the properties)

dispatcherVars == <<sent, work, workload, at, token, fired, dropped>>
mediatorVars == <<vars, wiring, dispatcherVars>>

Sends == 1 .. MaxSends

MediatorTypeOK ==
    /\ TypeOK
    /\ wiring \in {"direct", "mediated"}
    /\ sent \in Seq(Events) /\ Len(sent) <= MaxSends
    /\ work \in Seq(Sends) /\ workload \in Seq(Sends)
    /\ at \in Nat
    /\ token \in BOOLEAN
    /\ fired \in Seq(Sends \cup {0})
    /\ dropped \subseteq Sends

MediatorInit ==
    /\ Init
    /\ wiring \in {"direct", "mediated"}
    /\ sent = <<>> /\ work = <<>> /\ workload = <<>> /\ fired = <<>>
    /\ at = 0
    /\ token = FALSE
    /\ dropped = {}

-----------------------------------------------------------------------------
(* Any thread, the ticking one inside a listener included. *)

Send(e) ==
    /\ wiring = "mediated" /\ Len(sent) < MaxSends
    /\ sent' = Append(sent, e)
    /\ work' = Append(work, Len(sent) + 1)
    /\ UNCHANGED <<vars, wiring, workload, at, token, fired, dropped>>

Clear ==
    /\ wiring = "mediated" /\ work # <<>>
    /\ work' = <<>>
    /\ dropped' = dropped \cup ToSet(work)
    /\ UNCHANGED <<vars, wiring, sent, workload, at, token, fired>>

CancelToken ==
    /\ wiring = "mediated" /\ ~token
    /\ token' = TRUE
    /\ UNCHANGED <<vars, wiring, sent, work, workload, at, fired, dropped>>

-----------------------------------------------------------------------------
(* The thread the dispatcher's affinity names; the contract keeps all others *)
(* from tick and add_listener.  Definitions named "Bug..." are wrong variants *)
(* of the one that follows; no action uses them.                             *)

\* try_drain appends.
Tick ==
    /\ wiring = "mediated" /\ at = 0 /\ stack = <<>>
    /\ work # <<>> /\ ~token
    /\ workload' = workload \o work
    /\ work' = <<>>
    /\ at' = 1
    /\ UNCHANGED <<vars, wiring, sent, token, fired, dropped>>

\* tick returns false.
IdleTick ==
    /\ wiring = "mediated" /\ at = 0 /\ stack = <<>>
    /\ work = <<>> \/ token
    /\ UNCHANGED mediatorVars

\* The callable of send.
RunWork ==
    /\ at \in DOMAIN workload /\ stack = <<>>
    /\ Fire(sent[workload[at]])
    /\ fired' = Append(fired, workload[at])
    /\ UNCHANGED <<wiring, sent, work, workload, at, token, dropped>>

WorkReturns ==
    /\ at # 0
    /\ FireReturns
    /\ at' = at + 1
    /\ UNCHANGED <<wiring, sent, work, workload, token, fired, dropped>>

\* The exception of a listener leaves fire, the callable and tick.
WorkThrows ==
    /\ at # 0
    /\ ListenerThrows
    /\ at' = 0
    /\ fired' = Append(fired, 0)
    /\ UNCHANGED <<wiring, sent, work, workload, token, dropped>>

\* A tick that clears the queue with its workload.
BugFinishTick ==
    /\ at > Len(workload)
    /\ workload' = <<>> /\ work' = <<>>
    /\ at' = 0
    /\ UNCHANGED <<vars, wiring, sent, token, fired, dropped>>

FinishTick ==
    /\ at > Len(workload)
    /\ workload' = <<>>
    /\ at' = 0
    /\ UNCHANGED <<vars, wiring, sent, work, token, fired, dropped>>

\* Listeners and their tickets: outside tick, or inside a listener.
Registration(l) ==
    /\ at # 0 => stack # <<>>
    /\ AddListener(l) \/ DestroyTicket(l)
    /\ UNCHANGED <<wiring, dispatcherVars>>

InsideFire ==
    /\ CallListener \/ SkipListener \/ ListenerReturns
    /\ UNCHANGED <<wiring, dispatcherVars>>

\* The application and its listeners fire the router themselves.
DirectFire ==
    /\ wiring = "direct"
    /\ (\E e \in Events : Fire(e)) \/ ListenerThrows \/ FireReturns
    /\ UNCHANGED <<wiring, dispatcherVars>>

TickSteps == Tick \/ RunWork \/ WorkReturns \/ FinishTick

MediatorNext ==
    \/ \E e \in Events : Send(e)
    \/ Clear \/ CancelToken
    \/ Tick \/ IdleTick \/ RunWork \/ WorkReturns \/ WorkThrows \/ FinishTick
    \/ \E l \in Listeners : Registration(l)
    \/ InsideFire \/ DirectFire

\* The application keeps ticking, and its listeners return or throw.
MediatorSpec ==
    /\ MediatorInit /\ [][MediatorNext]_mediatorVars
    /\ WF_mediatorVars(TickSteps)
    /\ WF_mediatorVars(InsideFire /\ wiring = "mediated")

-----------------------------------------------------------------------------
(***************************************************************************)
(* Events are fired in the order of their sends, from whatever threads:    *)
(* each once, unless an exception left tick, which makes the next one start *)
(* over with those that were fired already.  And no send is lost, whatever *)
(* threw: it waits, is in the workload, was fired, or was there when       *)
(* clear() was called.                                                     *)
(***************************************************************************)
FiredInOrder ==
    \A i, j \in DOMAIN fired :
        i < j /\ fired[i] >= fired[j] /\ fired[j] # 0 =>
            \E k \in i .. j : fired[k] = 0

SendsInOrder ==
    /\ FiredInOrder
    /\ \A n \in DOMAIN sent :
         n \in ToSet(work) \cup ToSet(workload) \cup ToSet(fired) \cup dropped

(***************************************************************************)
(* What was sent is fired if the thread goes on ticking, unless it was     *)
(* cleared, the token is cancelled, or an exception left a tick: the rest  *)
(* of its workload then waits for another send.                            *)
(***************************************************************************)
EverySendFires ==
    \A n \in Sends :
        n \in DOMAIN sent ~> n \in ToSet(fired) \cup dropped \/ token \/ 0 \in ToSet(fired)
=============================================================================
