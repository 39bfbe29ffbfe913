------------------------------- MODULE TaskWork -------------------------------
(***************************************************************************)
(* The work of tasks: make_task and task::then (threading/task.h) with the *)
(* wrappers that decide whether a callable is invoked and what the task    *)
(* ends with (input_output_wrapper and output_wrapper of                   *)
(* threading/internal/internal_task.h), task_factory, for callables that   *)
(* return a task, and the tasks of task_from_result and task_from_error.   *)
(*                                                                         *)
(* A work starts any time after its parent has completed, once: that is    *)
(* what TaskPayload shows of continuations on any scheduler.  An error has *)
(* no type here: an error_code becomes the exception that carries it.      *)
(***************************************************************************)
CONSTANTS
    Works,          \* the tasks made by these functions
    OtherTasks,     \* tasks completed by the rest of the system
    Tokens,         \* cancellation sources
    Errors,         \* what callables return as unexpected, or throw
    NoTask, NoToken

Tasks == Works \cup OtherTasks

\* std::errc::operation_canceled is an error like others, of its own origin.
Failures == Errors \cup {"canceled"}
Results == {"none", "ok"} \cup Failures

VARIABLES
    result,     \* Result of the payload each task refers to
    cancelled,  \* the tokens whose cancelled() is TRUE
    state,      \* state[w]: where the work is
    parent,     \* its antecedent; NoTask if it was made by make_task
    takes,      \* whether its callable takes a value or an expected
    token,
    inner,      \* the task its callable returned
    body        \* what its callable returned or threw (for the properties)

workVars == <<state, parent, takes, token, inner, body>>
vars == <<result, cancelled, workVars>>

TypeOK ==
    /\ cancelled \subseteq Tokens
    /\ state \in [Works -> {"unborn", "waiting", "running", "unwrapping", "done"}]
    /\ parent \in [Works -> Tasks \cup {NoTask}]
    /\ takes \in [Works -> {"value", "expected"}]
    /\ token \in [Works -> Tokens \cup {NoToken}]
    /\ inner \in [Works -> Tasks \cup {NoTask}]
    /\ body \in [Works -> Results]

Init ==
    /\ cancelled = {}
    /\ state = [w \in Works |-> "unborn"]
    /\ parent = [w \in Works |-> NoTask]
    /\ takes = [w \in Works |-> "value"]
    /\ token = [w \in Works |-> NoToken]
    /\ inner = [w \in Works |-> NoTask]
    /\ body = [w \in Works |-> "none"]

Complete(t, r) == result' = [result EXCEPT ![t] = r]
Goto(w, s) == state' = [state EXCEPT ![w] = s]

-----------------------------------------------------------------------------
Create(w, p, kind, k) ==
    /\ state[w] = "unborn"
    /\ Goto(w, "waiting")
    /\ parent' = [parent EXCEPT ![w] = p]
    /\ takes' = [takes EXCEPT ![w] = kind]
    /\ token' = [token EXCEPT ![w] = k]
    /\ UNCHANGED <<result, cancelled, inner, body>>

\* cancellation::none() is NoToken.
MakeTask(w, k) == Create(w, NoTask, "value", k)

Then(w, p, kind, k) == Create(w, p, kind, k)

\* A source that is completed before anybody has its task.
FromSource(w, r) ==
    /\ state[w] = "unborn"
    /\ Complete(w, r)
    /\ Goto(w, "done")
    /\ body' = [body EXCEPT ![w] = r]
    /\ UNCHANGED <<cancelled, parent, takes, token, inner>>

TaskFromResult(w) == FromSource(w, "ok")
TaskFromError(w) == \E e \in Failures : FromSource(w, e)

Cancel(k) ==
    /\ k \notin cancelled
    /\ cancelled' = cancelled \cup {k}
    /\ UNCHANGED <<result, workVars>>

Input(w) == IF parent[w] = NoTask THEN "ok" ELSE result[parent[w]]

\* input_output_wrapper: what the task ends with if its callable is not even
\* invoked.  The input's error goes before the cancellation.
Refusal(w) ==
    IF takes[w] = "value" /\ Input(w) \in Failures THEN Input(w)
    ELSE IF token[w] \in cancelled THEN "canceled"
    ELSE "none"

Refuse(w) ==
    /\ state[w] = "waiting" /\ Input(w) # "none"
    /\ Refusal(w) # "none"
    /\ Complete(w, Refusal(w))
    /\ Goto(w, "done")
    /\ UNCHANGED <<cancelled, parent, takes, token, inner, body>>

Invoke(w) ==
    /\ state[w] = "waiting" /\ Input(w) # "none"
    /\ Refusal(w) = "none"
    /\ Goto(w, "running")
    /\ UNCHANGED <<result, cancelled, parent, takes, token, inner, body>>

\* What a callable under token k may end with: it may ask the token itself, as
\* throw_if_cancellation_requested does.
Outcomes(k) == {"ok"} \cup Errors \cup (IF k \in cancelled THEN {"canceled"} ELSE {})

\* The callable returns a value or an error, or throws.
Return(w, o) ==
    /\ state[w] = "running"
    /\ Complete(w, o)
    /\ Goto(w, "done")
    /\ body' = [body EXCEPT ![w] = o]
    /\ UNCHANGED <<cancelled, parent, takes, token, inner>>

\* It returns a task, which w has stood for from the beginning.
ReturnTask(w, t) ==
    /\ state[w] = "running"
    /\ Goto(w, "unwrapping")
    /\ inner' = [inner EXCEPT ![w] = t]
    /\ body' = [body EXCEPT ![w] = "ok"]
    /\ UNCHANGED <<result, cancelled, parent, takes, token>>

\* The continuations of the stand-in are those of the task it stands for.
Unwrap(w) ==
    /\ state[w] = "unwrapping"
    /\ result[inner[w]] # "none"
    /\ Complete(w, result[inner[w]])
    /\ Goto(w, "done")
    /\ UNCHANGED <<cancelled, parent, takes, token, inner, body>>

-----------------------------------------------------------------------------
Created == {w \in Works : state[w] # "unborn"}

WorkEdges ==
    {e \in Works \X Tasks : e[2] \in {parent[e[1]], inner[e[1]]}}

Step(w) ==
    \/ Refuse(w) \/ Invoke(w) \/ Unwrap(w)
    \/ \E o \in Outcomes(token[w]) : Return(w, o)
=============================================================================
