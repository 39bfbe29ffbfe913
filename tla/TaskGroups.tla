------------------------------ MODULE TaskGroups ------------------------------
(***************************************************************************)
(* when_all and pending_task_scope together, as in scope += when_all(...). *)
(* The scope's tasks are the task when_all returns and others, which any   *)
(* thread completes at any time; the scope's when_all is called when it    *)
(* pleases its callers.  A task here is what task.h promises (TaskPayload):*)
(* it completes once, and its continuations then run once.                 *)
(***************************************************************************)
EXTENDS Naturals, Sequences, FiniteSets

CONSTANTS
    Inputs,         \* the sequence of tasks given to when_all
    Others,         \* the tasks of the scope besides
    Group,          \* the task that when_all returns
    Completed,      \* the scope's own
    Closers, Errors, NoError

VARIABLES
    outcome,
    at, pendingCount, groupError, results, input,
    pending, disposing, setcompletion, scopeError, member, closer

groupVars == <<at, pendingCount, groupError, results, input>>
scopeVars == <<pending, disposing, setcompletion, scopeError, member, closer>>
vars == <<outcome, groupVars, scopeVars>>

W == INSTANCE WhenAll WITH
       Result <- Group, error <- groupError, cb <- input
S == INSTANCE PendingTaskScope WITH
       Tasks <- Others \cup {Group}, error <- scopeError, cb <- member

Plain == W!Tasks \cup Others
AllTasks == Plain \cup {Group, Completed}

ASSUME TaskGroupsAssumption ==
    /\ Inputs \in Seq(W!Tasks)
    /\ \A i, j \in DOMAIN Inputs : Inputs[i] = Inputs[j] => i = j
    /\ W!Tasks \cap Others = {}
    /\ Group \notin Plain
    /\ Completed \notin Plain \cup {Group}
    /\ NoError \notin Errors
    /\ {"pending", "ok"} \cap Errors = {}

TypeOK ==
    /\ outcome \in [AllTasks -> W!Outcomes]
    /\ W!TypeOK
    /\ S!TypeOK

Init ==
    /\ outcome = [t \in AllTasks |-> "pending"]
    /\ W!Init
    /\ S!Init

-----------------------------------------------------------------------------
\* The work of a task ends, on any thread.
Finish(t) ==
    /\ outcome[t] = "pending"
    /\ \E o \in {"ok"} \cup Errors : outcome' = [outcome EXCEPT ![t] = o]
    /\ UNCHANGED <<groupVars, scopeVars>>

GroupStep == W!Step /\ UNCHANGED scopeVars

\* The task when_all returns is added to the scope after it returned.
CountIn(t) ==
    /\ t = Group => W!Returned
    /\ S!CountIn(t)
    /\ UNCHANGED groupVars

CallbackStep(t) == S!CallbackStep(t) /\ UNCHANGED groupVars

Close(k) == (S!WhenAll(k) \/ S!WhenAllReturns(k)) /\ UNCHANGED groupVars

Next ==
    \/ \E t \in Plain : Finish(t)
    \/ GroupStep
    \/ \E t \in Others \cup {Group} : CountIn(t) \/ CallbackStep(t)
    \/ \E k \in Closers : Close(k)

Spec == Init /\ [][Next]_vars

\* Calls that have begun go on; no task has to finish, nobody has to add a
\* task to the scope or to close it.
FairSpec ==
    /\ Spec
    /\ WF_vars(GroupStep)
    /\ \A t \in Others \cup {Group} : WF_vars(CallbackStep(t))
    /\ \A k \in Closers : WF_vars(S!WhenAllReturns(k) /\ UNCHANGED groupVars)

-----------------------------------------------------------------------------
(***************************************************************************)
(* Each group is completed by exactly one of those that could be the last, *)
(* when everything it waits for is complete, although additions, closing   *)
(* and completions interleave and tasks complete before they are added.    *)
(***************************************************************************)
LastCompletes == W!LastCompletes /\ S!LastCompletes

(***************************************************************************)
(* A group's outcome is that of its tasks: a success when all succeeded,   *)
(* through both levels, or the error of one that failed, although the      *)
(* error is read outside the mutex that guards it.                         *)
(***************************************************************************)
TellsOutcome == W!TellsOutcome /\ S!TellsOutcome

(***************************************************************************)
(* The scope runs nobody's continuation with its mutex held, although      *)
(* when_all completes its source inside the section: nobody has the task   *)
(* then, a second caller of when_all included.                             *)
(***************************************************************************)
NoContinuationInside == [][S!NoContinuationInside]_vars

(***************************************************************************)
(* A scope that was closed completes, once the tasks it accepted have.     *)
(***************************************************************************)
ScopeCompletes ==
    (disposing /\ \A t \in S!Counted : outcome[t] # "pending")
        ~> outcome[Completed] # "pending"

-----------------------------------------------------------------------------
\* The counters count what their mutexes guard.
InputsCounted == pendingCount = IF at = 0 THEN 0 ELSE Cardinality(W!Waiting)

LiveCounted == IsFiniteSet(S!Live) /\ pending = Cardinality(S!Live)

\* The inductive invariant of the proofs.
IInv == TypeOK /\ InputsCounted /\ LiveCounted /\ W!IInv /\ S!IInv
=============================================================================
