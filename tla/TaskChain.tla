------------------------------ MODULE TaskChain ------------------------------
(***************************************************************************)
(* Chains of tasks: works that continue, unwrap and are awaited, and       *)
(* coroutines that await, return and are continued or unwrapped.  They     *)
(* meet in the results of the tasks alone.                                 *)
(*                                                                         *)
(* The compiler sees to the types: an error_code task has an error_code    *)
(* parent, and what a work unwraps has the error type of its stand-in (a   *)
(* narrower one is refused by the assertion in task::then that make_task's *)
(* own continuation meets).  The program sees to it that no task waits for *)
(* itself.                                                                 *)
(***************************************************************************)
EXTENDS Naturals, Sequences, FiniteSets, Graphs

CONSTANTS Works, Coros, CodeTasks, Tokens, TaskErrors, MaxAwaits, NoTask, NoToken

VARIABLES
    result, cancelled,
    state, parent, takes, token, inner, body,
    point, awaited, got, hand, kept, coroBody, unseen

workVars == <<state, parent, takes, token, inner, body>>
coroVars == <<point, awaited, got, hand, kept, coroBody, unseen>>
chainVars == <<result, cancelled, workVars, coroVars>>

Work == INSTANCE TaskWork WITH OtherTasks <- Coros, Errors <- TaskErrors
Coro == INSTANCE Coroutine WITH
       Errors <- TaskErrors, Tasks <- Work!Tasks, Failures <- Work!Failures,
       state <- point, body <- coroBody

Tasks == Works \cup Coros

ASSUME TaskChainAssumption ==
    /\ Works \cap Coros = {}
    /\ CodeTasks \subseteq Tasks
    /\ NoTask \notin Tasks /\ NoToken \notin Tokens
    /\ {"none", "ok", "canceled"} \cap TaskErrors = {}
    /\ MaxAwaits \in Nat

\* Work and coroutines complete their task when they come to their end.
ChainTypeOK ==
    /\ result \in [Tasks -> Work!Results]
    /\ Work!TypeOK
    /\ Coro!TypeOK
    /\ \A w \in Works : result[w] # "none" <=> state[w] = "done"
    /\ \A c \in Coros : result[c] # "none" <=> point[c] \in {"leaving", "done", "broken"}

ChainInit ==
    /\ result = [t \in Tasks |-> "none"]
    /\ Work!Init
    /\ Coro!Init

-----------------------------------------------------------------------------
Graph == [node |-> Tasks, edge |-> Work!WorkEdges \cup Coro!CoroEdges]

\* The tasks t depends on, itself included.
DependsOn(t) ==
    LET within[n \in 0 .. Cardinality(Tasks)] ==
          IF n = 0 THEN {t}
          ELSE within[n - 1] \cup AllSuccessors(Graph, within[n - 1])
    IN  within[Cardinality(Tasks)]

\* The tasks somebody has, and those of them that t may come to depend on.
Available == Work!Created \cup Coro!Returned
Usable(t) == {d \in Available : t \notin DependsOn(d)}

WorkDoes(A) == ~Coro!Terminated /\ A /\ UNCHANGED coroVars
CoroDoes(A) == ~Coro!Terminated /\ A /\ UNCHANGED <<cancelled, workVars>>

MakeTask(w) == \E k \in Tokens \cup {NoToken} : WorkDoes(Work!MakeTask(w, k))

TaskFrom(w) == WorkDoes(Work!TaskFromResult(w) \/ Work!TaskFromError(w))

Then(w) ==
    \E p \in Usable(w), kind \in {"value", "expected"}, k \in Tokens \cup {NoToken} :
        /\ w \in CodeTasks => p \in CodeTasks
        /\ WorkDoes(Work!Then(w, p, kind, k))

ReturnTask(w) ==
    \E t \in Usable(w) :
        /\ t \in CodeTasks <=> w \in CodeTasks
        /\ WorkDoes(Work!ReturnTask(w, t))

Cancel(k) == WorkDoes(Work!Cancel(k))
WorkStep(w) == WorkDoes(Work!Step(w))

Call(c) == CoroDoes(Coro!Call(c))
Await(c) == \E t \in Usable(c) \cup {NoTask} : CoroDoes(Coro!Await(c, t))
CoroStep(c) == CoroDoes(Coro!Step(c))

ChainNext ==
    \/ \E w \in Works : MakeTask(w) \/ TaskFrom(w) \/ Then(w)
                       \/ ReturnTask(w) \/ WorkStep(w)
    \/ \E k \in Tokens : Cancel(k)
    \/ \E c \in Coros : Call(c) \/ Await(c) \/ CoroStep(c)

ChainSpec == ChainInit /\ [][ChainNext]_chainVars

\* Schedulers run what they are given, and callables and coroutines come to
\* their end; nobody has to make a task, to call a coroutine or to cancel.
ChainFairSpec ==
    /\ ChainSpec
    /\ \A w \in Works : WF_chainVars(WorkStep(w))
    /\ \A c \in Coros : WF_chainVars(CoroStep(c))

-----------------------------------------------------------------------------
\* The tasks whose results t was given, and what these were: that of a
\* coroutine may have been replaced.
Sources(t) == Successors(Graph, t)
Given(d) ==
    {result[d]} \cup (IF d \in Coros /\ point[d] = "broken" THEN {coroBody[d]} ELSE {})

Produced(t) == IF t \in Works THEN body[t] ELSE coroBody[t]

(***************************************************************************)
(* An error a task ends with is not made up on the way: the task's own     *)
(* body produced it, one of the tasks it depends on ended with it, or it   *)
(* is the cancellation of a token of its own that came before the error of *)
(* no antecedent.  So, following the chain, it began in a body or a token. *)
(***************************************************************************)
HasOrigin(t) ==
    \/ Produced(t) = result[t]
    \/ \E d \in Sources(t) : result[t] \in Given(d)
    \/ /\ t \in Works /\ result[t] = "canceled"
       /\ token[t] \in cancelled
       /\ takes[t] = "value" /\ parent[t] # NoTask => "ok" \in Given(parent[t])

(***************************************************************************)
(* And no error is lost in a chain: a task that succeeded depends on no    *)
(* failed task whose error nobody looked at, which is what the comments on *)
(* the result object of co_await and on the wrappers are about.  A         *)
(* coroutine counts once its variables are gone: between co_return and     *)
(* then its task is already complete (see the README on the object kept    *)
(* until then).                                                            *)
(***************************************************************************)
NothingSwallowed(t) ==
    IF t \in Works
      THEN \A d \in Sources(t) :
             "ok" \in Given(d) \/ (d = parent[t] /\ takes[t] = "expected")
      ELSE point[t] = "done" => unseen[t] = {}

ErrorsTravel ==
    \A t \in Tasks :
        /\ result[t] \in Work!Failures => HasOrigin(t)
        /\ result[t] = "ok" => NothingSwallowed(t)

(***************************************************************************)
(* Whatever was made or called completes, through every level of           *)
(* continuations, unwrapping and awaiting, cancelled or not, unless an     *)
(* exception in flight has met a kept error and ended the process.         *)
(***************************************************************************)
EveryTaskCompletes ==
    \A t \in Tasks :
        (IF t \in Works THEN state[t] # "unborn" ELSE point[t] # "unborn")
            ~> (result[t] # "none" \/ Coro!Terminated)
=============================================================================
