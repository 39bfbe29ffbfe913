---------------------------- MODULE TaskPayload ----------------------------
(***************************************************************************)
(* The payload behind a task (threading/internal/internal_task.h):         *)
(* base_task_payload with its continuations, completion and the redirect   *)
(* that unwrapping a task of a task leaves behind, driven by task::then,   *)
(* task_completion_source::complete and task_factory (threading/task.h).   *)
(*                                                                         *)
(* A payload is a completion source or a continuation, which then creates. *)
(* Actors are the threads and the runs of the continuations: on the inline *)
(* scheduler a run is nested in the actor that schedules it, which waits   *)
(* for it to be over and keeps the mutexes it holds; on any other          *)
(* scheduler it starts later, on its own.  The callable of a continuation  *)
(* makes at most one call of its own.                                      *)
(*                                                                         *)
(* Sources are numbers: a task is only ever unwrapped into one with a      *)
(* greater number, since a task that represents itself is waited for by    *)
(* itself.  Collapsing into a continuation is the same as into a source    *)
(* that somebody else completes.                                           *)
(***************************************************************************)
EXTENDS Sequences, Naturals

CONSTANTS
    Threads, Sources, Conts,
    NoTask, NoActor,
    MaxClaims,      \* how many calls may try to complete the same source
    Reentrant       \* callables may use tasks that were unwrapped

Actors == Threads \cup Conts
Payloads == Sources \cup Conts

ASSUME TaskAssumption ==
    /\ Sources \subseteq Nat
    /\ Threads \cap Conts = {} /\ Sources \cap Conts = {}
    /\ NoTask \notin Payloads /\ NoActor \notin Actors
    /\ MaxClaims \in Nat \ {0} /\ Reentrant \in BOOLEAN

VARIABLES
    (* of a payload *)
    completed,  \* m_completed
    redirect,   \* m_taskRedirect
    conts,      \* m_continuation, none, one or many
    result,     \* Result: who wrote it and for which payload
    lock,       \* the actor that holds m_mutex while it forwards
    (* of a continuation *)
    parent,     \* the payload its result comes from
    inline,     \* it was put on the inline scheduler
    (* of an actor *)
    pc,
    at,         \* the payload it is in a call of
    into,       \* the right-hand side of its collapse
    batch,      \* the continuations in its hands
    awaiting,   \* the inline run it waits for
    ret,        \* where it goes when its call returns
    (* for the properties *)
    claims,     \* how many calls have undertaken to complete each source
    winner,     \* the result of the completion that was accepted
    observed,   \* the result each continuation was given
    runs        \* how often each continuation ran

payloadVars == <<completed, redirect, conts, result, lock>>
contVars == <<parent, inline>>
actorVars == <<pc, at, into, batch, awaiting, ret>>
historyVars == <<claims, winner, observed, runs>>
vars == <<payloadVars, contVars, actorVars, historyVars>>

NoResult == <<>>
Results == (Actors \X Payloads) \cup {NoResult}

PcStates == {"idle", "unborn", "pending", "queued", "running", "finishing", "done",
             "add", "dispatch", "await", "cannibalize", "collapse"}

TypeOK ==
    /\ completed \in [Payloads -> BOOLEAN]
    /\ redirect \in [Payloads -> Sources \cup {NoTask}]
    /\ conts \in [Payloads -> Seq(Conts)]
    /\ result \in [Payloads -> Results]
    /\ lock \in [Payloads -> Actors \cup {NoActor}]
    /\ parent \in [Conts -> Payloads \cup {NoTask}]
    /\ inline \in [Conts -> BOOLEAN]
    /\ pc \in [Actors -> PcStates]
    /\ at \in [Actors -> Payloads \cup {NoTask}]
    /\ into \in [Actors -> Sources \cup {NoTask}]
    /\ batch \in [Actors -> Seq(Conts)]
    /\ awaiting \in [Actors -> Conts \cup {NoTask}]
    /\ ret \in [Actors -> {"idle", "finishing", "done"}]
    /\ claims \in [Sources -> 0 .. MaxClaims]
    /\ winner \in [Payloads -> Results]
    /\ observed \in [Conts -> Results]
    /\ runs \in [Conts -> Nat]

Init ==
    /\ completed = [p \in Payloads |-> FALSE]
    /\ redirect = [p \in Payloads |-> NoTask]
    /\ conts = [p \in Payloads |-> <<>>]
    /\ result = [p \in Payloads |-> NoResult]
    /\ lock = [p \in Payloads |-> NoActor]
    /\ parent = [c \in Conts |-> NoTask]
    /\ inline = [c \in Conts |-> FALSE]
    /\ pc = [a \in Actors |-> IF a \in Threads THEN "idle" ELSE "unborn"]
    /\ at = [a \in Actors |-> NoTask]
    /\ into = [a \in Actors |-> NoTask]
    /\ batch = [a \in Actors |-> <<>>]
    /\ awaiting = [a \in Actors |-> NoTask]
    /\ ret = [a \in Actors |-> IF a \in Threads THEN "idle" ELSE "finishing"]
    /\ claims = [s \in Sources |-> 0]
    /\ winner = [p \in Payloads |-> NoResult]
    /\ observed = [c \in Conts |-> NoResult]
    /\ runs = [c \in Conts |-> 0]

Elements(s) == {s[i] : i \in DOMAIN s}
Existing == Sources \cup {c \in Conts : pc[c] # "unborn"}
Reparent(S, p) == parent' = [c \in Conts |-> IF c \in S THEN p ELSE parent[c]]

\* A thread between two calls, or a callable that has made none yet.
CanCall(a) == pc[a] \in {"idle", "running"}

-----------------------------------------------------------------------------
(* Calls begin. *)

\* task::then: the continuation is built with its weak parent and goes into
\* add_continuations of the payload, as a batch of one.
Then(a, c, p, inl) ==
    /\ CanCall(a) /\ pc[c] = "unborn" /\ p \in Existing
    /\ a \in Threads \/ Reentrant \/ redirect[p] = NoTask
    /\ pc' = [pc EXCEPT ![a] = "add", ![c] = "pending"]
    /\ at' = [at EXCEPT ![a] = p]
    /\ batch' = [batch EXCEPT ![a] = <<c>>]
    /\ Reparent({c}, p)
    /\ inline' = [inline EXCEPT ![c] = inl]
    /\ UNCHANGED <<payloadVars, into, awaiting, ret, historyVars>>

\* task_payload_with_return::complete: Result is assigned before anything is
\* tested, and outside the mutex.
Complete(a, s) ==
    /\ CanCall(a)
    /\ claims[s] < MaxClaims
    /\ claims' = [claims EXCEPT ![s] = @ + 1]
    /\ result' = [result EXCEPT ![s] = <<a, s>>]
    /\ pc' = [pc EXCEPT ![a] = "cannibalize"]
    /\ at' = [at EXCEPT ![a] = s]
    /\ UNCHANGED <<completed, redirect, conts, lock, contVars, into, batch, awaiting, ret,
                   winner, observed, runs>>

\* task_factory: the stand-in source of a task of a task is collapsed into
\* the task it turned out to stand for.  Nobody else can complete it.
Collapse(a, l, r) ==
    /\ CanCall(a)
    /\ l < r /\ claims[l] = 0
    /\ a \in Threads \/ Reentrant \/ redirect[r] = NoTask
    /\ claims' = [claims EXCEPT ![l] = MaxClaims]
    /\ pc' = [pc EXCEPT ![a] = "collapse"]
    /\ at' = [at EXCEPT ![a] = l]
    /\ into' = [into EXCEPT ![a] = r]
    /\ UNCHANGED <<payloadVars, contVars, batch, awaiting, ret, winner, observed, runs>>

\* The callable is over: do_work stores what it returned, do_completion
\* follows.
Finish(c) ==
    /\ pc[c] \in {"running", "finishing"}
    /\ result' = [result EXCEPT ![c] = <<c, c>>]
    /\ pc' = [pc EXCEPT ![c] = "cannibalize"]
    /\ at' = [at EXCEPT ![c] = c]
    /\ ret' = [ret EXCEPT ![c] = "done"]
    /\ UNCHANGED <<completed, redirect, conts, lock, contVars, into, batch, awaiting, historyVars>>

-----------------------------------------------------------------------------
(* add_continuations, one payload at a time. *)

\* A redirected payload hands the batch on, with itself as the parent of
\* nothing any more, and its mutex stays locked until the call is over.
BugForward(a) ==
    /\ pc[a] = "add" /\ lock[at[a]] = NoActor
    /\ redirect[at[a]] # NoTask
    /\ lock' = [lock EXCEPT ![at[a]] = a]
    /\ at' = [at EXCEPT ![a] = redirect[at[a]]]
    /\ UNCHANGED <<completed, redirect, conts, result, contVars, pc, into, batch, awaiting, ret,
                   historyVars>>

Forward(a) ==
    /\ pc[a] = "add" /\ lock[at[a]] = NoActor
    /\ redirect[at[a]] # NoTask
    /\ lock' = [lock EXCEPT ![at[a]] = a]
    /\ Reparent(Elements(batch[a]), redirect[at[a]])
    /\ at' = [at EXCEPT ![a] = redirect[at[a]]]
    /\ UNCHANGED <<completed, redirect, conts, result, inline, pc, into, batch, awaiting, ret,
                   historyVars>>

\* A payload that is not complete keeps the batch.
BugStore(a) ==
    /\ pc[a] = "add" /\ lock[at[a]] = NoActor
    /\ redirect[at[a]] = NoTask
    /\ conts' = [conts EXCEPT ![at[a]] = @ \o batch[a]]
    /\ batch' = [batch EXCEPT ![a] = <<>>]
    /\ pc' = [pc EXCEPT ![a] = "dispatch"]
    /\ UNCHANGED <<completed, redirect, result, lock, contVars, at, into, awaiting, ret, historyVars>>

Store(a) ==
    /\ pc[a] = "add" /\ lock[at[a]] = NoActor
    /\ redirect[at[a]] = NoTask /\ ~completed[at[a]]
    /\ conts' = [conts EXCEPT ![at[a]] = @ \o batch[a]]
    /\ batch' = [batch EXCEPT ![a] = <<>>]
    /\ pc' = [pc EXCEPT ![a] = "dispatch"]
    /\ UNCHANGED <<completed, redirect, result, lock, contVars, at, into, awaiting, ret, historyVars>>

\* A complete one has it run: outside its own mutex, inside those of the
\* payloads that forwarded to it.
RunIt(a) ==
    /\ pc[a] = "add" /\ lock[at[a]] = NoActor
    /\ redirect[at[a]] = NoTask /\ completed[at[a]]
    /\ pc' = [pc EXCEPT ![a] = "dispatch"]
    /\ UNCHANGED <<payloadVars, contVars, at, into, batch, awaiting, ret, historyVars>>

-----------------------------------------------------------------------------
(* Completion. *)

\* A completion that leaves the continuations where they are.
BugTakeContinuations(p) ==
    /\ completed' = [completed EXCEPT ![p] = TRUE]
    /\ UNCHANGED conts

\* cannibalize: the payload is complete and its continuations are moved out.
TakeContinuations(p) ==
    /\ completed' = [completed EXCEPT ![p] = TRUE]
    /\ conts' = [conts EXCEPT ![p] = <<>>]

\* do_completion, accepted.
Cannibalize(a) ==
    /\ pc[a] = "cannibalize" /\ lock[at[a]] = NoActor
    /\ ~completed[at[a]]
    /\ TakeContinuations(at[a])
    /\ batch' = [batch EXCEPT ![a] = conts[at[a]]]
    /\ winner' = [winner EXCEPT ![at[a]] = <<a, at[a]>>]
    /\ pc' = [pc EXCEPT ![a] = "dispatch"]
    /\ UNCHANGED <<redirect, result, lock, contVars, at, into, awaiting, ret, claims, observed, runs>>

\* "tried to complete a task twice": the call ends with an exception.
Reject(a) ==
    /\ pc[a] \in {"cannibalize", "collapse"} /\ lock[at[a]] = NoActor
    /\ completed[at[a]]
    /\ pc' = [pc EXCEPT ![a] = ret[a]]
    /\ at' = [at EXCEPT ![a] = NoTask]
    /\ into' = [into EXCEPT ![a] = NoTask]
    /\ UNCHANGED <<payloadVars, contVars, batch, awaiting, ret, historyVars>>

\* collapse_left_into_right: cannibalize with a forwarding address, then all
\* the continuations get their new parent and are added to it.
CollapseLeft(a) ==
    /\ pc[a] = "collapse" /\ lock[at[a]] = NoActor
    /\ ~completed[at[a]]
    /\ TakeContinuations(at[a])
    /\ redirect' = [redirect EXCEPT ![at[a]] = into[a]]
    /\ batch' = [batch EXCEPT ![a] = conts[at[a]]]
    /\ Reparent(Elements(conts[at[a]]), into[a])
    /\ at' = [at EXCEPT ![a] = into[a]]
    /\ pc' = [pc EXCEPT ![a] = IF conts[at[a]] = <<>> THEN "dispatch" ELSE "add"]
    /\ UNCHANGED <<result, lock, inline, into, awaiting, ret, historyVars>>

-----------------------------------------------------------------------------
(* continuation_payload::run for each of the batch, and the end of a call. *)

\* continuation->run(parent): the callable is given the parent's Result.
Begin(c) ==
    /\ observed' = [observed EXCEPT ![c] = result[parent[c]]]
    /\ runs' = [runs EXCEPT ![c] = @ + 1]

Rest(s) == Tail(s)

RunInline(a) ==
    /\ pc[a] = "dispatch" /\ batch[a] # <<>>
    /\ LET c == Head(batch[a]) IN
         /\ inline[c]
         /\ Begin(c)
         /\ pc' = [pc EXCEPT ![a] = "await", ![c] = "running"]
         /\ awaiting' = [awaiting EXCEPT ![a] = c]
    /\ batch' = [batch EXCEPT ![a] = Rest(@)]
    /\ UNCHANGED <<payloadVars, contVars, at, into, ret, claims, winner>>

InlineReturns(a) ==
    /\ pc[a] = "await" /\ pc[awaiting[a]] = "done"
    /\ pc' = [pc EXCEPT ![a] = "dispatch"]
    /\ awaiting' = [awaiting EXCEPT ![a] = NoTask]
    /\ UNCHANGED <<payloadVars, contVars, at, into, batch, ret, historyVars>>

QueueRun(a) ==
    /\ pc[a] = "dispatch" /\ batch[a] # <<>>
    /\ LET c == Head(batch[a]) IN
         /\ ~inline[c]
         /\ pc' = [pc EXCEPT ![c] = "queued"]
    /\ batch' = [batch EXCEPT ![a] = Rest(@)]
    /\ UNCHANGED <<payloadVars, contVars, at, into, awaiting, ret, historyVars>>

\* A scheduler gets round to a queued run.
StartQueued(c) ==
    /\ pc[c] = "queued"
    /\ Begin(c)
    /\ pc' = [pc EXCEPT ![c] = "running"]
    /\ UNCHANGED <<payloadVars, contVars, at, into, batch, awaiting, ret, claims, winner>>

\* The call returns and the mutexes on the way are released.
CallReturns(a) ==
    /\ pc[a] = "dispatch" /\ batch[a] = <<>>
    /\ lock' = [p \in Payloads |-> IF lock[p] = a THEN NoActor ELSE lock[p]]
    /\ pc' = [pc EXCEPT ![a] = ret[a]]
    /\ at' = [at EXCEPT ![a] = NoTask]
    /\ into' = [into EXCEPT ![a] = NoTask]
    /\ UNCHANGED <<completed, redirect, conts, result, contVars, batch, awaiting, ret, historyVars>>

\* What an actor does to get on with what it has begun.
Step(a) ==
    \/ Forward(a) \/ Store(a) \/ RunIt(a)
    \/ Cannibalize(a) \/ Reject(a) \/ CollapseLeft(a)
    \/ RunInline(a) \/ InlineReturns(a) \/ QueueRun(a) \/ CallReturns(a)

ContStep(c) == StartQueued(c) \/ Finish(c) \/ Step(c)

Next ==
    \/ \E a \in Actors :
         \/ \E c \in Conts, p \in Payloads, inl \in BOOLEAN : Then(a, c, p, inl)
         \/ \E s \in Sources : Complete(a, s)
         \/ \E l, r \in Sources : Collapse(a, l, r)
    \/ \E t \in Threads : Step(t)
    \/ \E c \in Conts : ContStep(c)

Spec == Init /\ [][Next]_vars

\* Every actor gets on, schedulers run what they were given, and callables
\* return.  No source has to be completed by anybody.
FairSpec ==
    /\ Spec
    /\ \A t \in Threads : WF_vars(Step(t))
    /\ \A c \in Conts : WF_vars(ContStep(c))

-----------------------------------------------------------------------------
Started(c) == runs[c] > 0

(***************************************************************************)
(* Whatever completions, unwrappings and additions race, a continuation    *)
(* runs once at most, and is neither lost nor held twice before: one that  *)
(* has not run is kept by one incomplete payload, whose result it will be  *)
(* given however many collapses moved it there, or is in the hands of one  *)
(* actor, or is with its scheduler.                                        *)
(***************************************************************************)
Holders(c) == {p \in Payloads : c \in Elements(conts[p])}
Carriers(c) == {a \in Actors : c \in Elements(batch[a])}

RunsOnce ==
    \A c \in Conts :
        /\ runs[c] <= 1
        /\ pc[c] = "pending" =>
             \/ \E p \in Payloads :
                    /\ Holders(c) = {p} /\ Carriers(c) = {}
                    /\ ~completed[p] /\ parent[c] = p
             \/ \E a \in Actors : Carriers(c) = {a} /\ Holders(c) = {}
        /\ pc[c] # "pending" => Holders(c) = {} /\ Carriers(c) = {}

(***************************************************************************)
(* A continuation that is scheduled or running finds its Result: its       *)
(* parent is complete, has a result, and is no stand-in that only forwards *)
(* (dereferencing that one's empty optional is undefined).  What it was    *)
(* given is the result of the completion that its task accepted, unless    *)
(* another call tried to complete the same source.                         *)
(***************************************************************************)
ResultIsThere(c) ==
    /\ completed[parent[c]]
    /\ redirect[parent[c]] = NoTask
    /\ result[parent[c]] # NoResult

Contested == {s \in Sources : claims[s] > 1 /\ redirect[s] = NoTask}

ObservesWinner ==
    \A c \in Conts :
        /\ Started(c) \/ pc[c] = "queued" => ResultIsThere(c)
        /\ Started(c) /\ parent[c] \notin Contested =>
             observed[c] = winner[parent[c]] /\ observed[c] # NoResult

(***************************************************************************)
(* A continuation runs, and so does what is behind it, once the task at    *)
(* the end of its forwarding chain is complete: nobody waits for ever on a *)
(* stand-in, and no call of then, complete or collapse hangs.              *)
(***************************************************************************)
ContinuationsRun ==
    \A c \in Conts :
        (parent[c] # NoTask /\ completed[parent[c]] /\ redirect[parent[c]] = NoTask)
          ~> pc[c] = "done"

\* The payloads implement their abstract specification.
Promise == INSTANCE TaskPromise WITH
    Tasks     <- Payloads,
    Originals <- Sources,
    Nobody    <- NoTask,
    made      <- Existing,
    follows   <- [p \in Payloads |-> IF p \in Conts THEN parent[p] ELSE NoTask],
    standsFor <- redirect,
    ran       <- {c \in Conts : Started(c)},
    completed <- {p \in Payloads : completed[p] /\ redirect[p] = NoTask}

(***************************************************************************)
(* Mutexes, batches and forwarding calls together behave as tasks that     *)
(* keep their promise: a continuation runs once, behind the task it        *)
(* follows at last, wherever unwrapping has handed it on to, and it does   *)
(* get there, run and complete.                                            *)
(***************************************************************************)
KeepsPromise == Promise!Spec
=============================================================================
