--------------------------- MODULE PendingTaskScope ---------------------------
(***************************************************************************)
(* pending_task_scope (threading/pending_task_scope.h): tasks are added    *)
(* with += until when_all is called; the task when_all returns completes   *)
(* when all of them have.  += counts the task in under the mutex and adds  *)
(* its continuation in a step of its own, since the task may be completed  *)
(* in between; the continuation counts it off under the mutex and, when it *)
(* is the last after when_all, completes the scope outside of it.          *)
(*                                                                         *)
(* outcome is what each task ended with; the added tasks are completed by  *)
(* the rest of the system.                                                 *)
(***************************************************************************)
EXTENDS Naturals

CONSTANTS
    Tasks,          \* the tasks that may be added, once each
    Completed,      \* m_completed
    Closers,        \* the calls of when_all
    Errors,
    NoError         \* a default-constructed ErrorT

VARIABLES
    outcome,        \* what a task completed with
    pending,        \* m_pending
    disposing,      \* m_disposing
    setcompletion,  \* m_setcompletion
    error,          \* m_error
    cb,             \* cb[t]: the progress of += and of its continuation
    closer          \* closer[k]: the progress of a call of when_all

vars == <<outcome, pending, disposing, setcompletion, error, cb, closer>>

CallbackStates == {"none", "counted", "rejected", "added", "last", "done"}

TypeOK ==
    /\ pending \in Nat
    /\ disposing \in BOOLEAN
    /\ setcompletion \in BOOLEAN
    /\ error \in Errors \cup {NoError}
    /\ cb \in [Tasks -> CallbackStates]
    /\ closer \in [Closers -> {"idle", "leaving", "returned"}]

Init ==
    /\ pending = 0
    /\ disposing = FALSE
    /\ setcompletion = FALSE
    /\ error = NoError
    /\ cb = [t \in Tasks |-> "none"]
    /\ closer = [k \in Closers |-> "idle"]

CompleteInternal ==
    outcome' = [outcome EXCEPT ![Completed] = IF error # NoError THEN error ELSE "ok"]

-----------------------------------------------------------------------------
\* operator+= throws once the scope is disposing.
CountIn(t) ==
    /\ cb[t] = "none"
    /\ IF disposing
         THEN cb' = [cb EXCEPT ![t] = "rejected"] /\ UNCHANGED pending
         ELSE cb' = [cb EXCEPT ![t] = "counted"] /\ pending' = pending + 1
    /\ UNCHANGED <<outcome, disposing, setcompletion, error, closer>>

AddContinuation(t) ==
    /\ cb[t] = "counted"
    /\ cb' = [cb EXCEPT ![t] = "added"]
    /\ UNCHANGED <<outcome, pending, disposing, setcompletion, error, closer>>

\* A test of the count as it was before the task was counted off.
BugIsLast == disposing /\ pending = 0

IsLast == disposing /\ pending' = 0

\* The section under the mutex.
Continuation(t) ==
    /\ cb[t] = "added"
    /\ outcome[t] # "pending"
    /\ pending' = pending - 1
    /\ setcompletion' = (setcompletion \/ IsLast)
    /\ cb' = [cb EXCEPT ![t] = IF IsLast THEN "last" ELSE "done"]
    /\ error' = IF outcome[t] \in Errors /\ error = NoError THEN outcome[t] ELSE error
    /\ UNCHANGED <<outcome, disposing, closer>>

\* complete_internal, behind the section: m_error is read without the mutex.
CompleteScope(t) ==
    /\ cb[t] = "last"
    /\ CompleteInternal
    /\ cb' = [cb EXCEPT ![t] = "done"]
    /\ UNCHANGED <<pending, disposing, setcompletion, error, closer>>

\* A when_all that does not look at m_setcompletion.
BugWhenAll(k) ==
    /\ closer[k] = "idle"
    /\ disposing' = TRUE
    /\ IF pending = 0
         THEN setcompletion' = TRUE /\ CompleteInternal
         ELSE UNCHANGED <<setcompletion, outcome>>
    /\ closer' = [closer EXCEPT ![k] = "leaving"]
    /\ UNCHANGED <<pending, error, cb>>

\* The section of when_all, which may complete the scope with the mutex held.
WhenAll(k) ==
    /\ closer[k] = "idle"
    /\ disposing' = TRUE
    /\ IF pending = 0 /\ ~setcompletion
         THEN setcompletion' = TRUE /\ CompleteInternal
         ELSE UNCHANGED <<setcompletion, outcome>>
    /\ closer' = [closer EXCEPT ![k] = "leaving"]
    /\ UNCHANGED <<pending, error, cb>>

\* Only now the caller has the task, and may add continuations to it.
WhenAllReturns(k) ==
    /\ closer[k] = "leaving"
    /\ closer' = [closer EXCEPT ![k] = "returned"]
    /\ UNCHANGED <<outcome, pending, disposing, setcompletion, error, cb>>

CallbackStep(t) == AddContinuation(t) \/ Continuation(t) \/ CompleteScope(t)

Step ==
    \/ \E t \in Tasks : CountIn(t) \/ CallbackStep(t)
    \/ \E k \in Closers : WhenAll(k) \/ WhenAllReturns(k)

-----------------------------------------------------------------------------
Counted == {t \in Tasks : cb[t] \notin {"none", "rejected"}}

\* The scope is completed by one continuation or one call of when_all, once,
\* and every task it accepted is complete by then.
LastCompletes ==
    /\ \A t \in Tasks : cb[t] = "last" =>
         /\ outcome[Completed] = "pending"
         /\ \A u \in Counted \ {t} : cb[u] = "done"
    /\ outcome[Completed] # "pending" => disposing /\ \A t \in Counted : cb[t] = "done"

\* It is a success only if every accepted task is one, and otherwise the error
\* of one of them.
TellsOutcome ==
    /\ outcome[Completed] = "ok" => \A t \in Counted : outcome[t] = "ok"
    /\ outcome[Completed] \in Errors => \E t \in Counted : outcome[t] = outcome[Completed]

\* when_all completes the scope with the mutex held only while nobody has its
\* task: no continuation of anybody runs inside the section.
NoContinuationInside ==
    \A k \in Closers :
        closer[k] = "idle" /\ closer'[k] # "idle" /\ outcome'[Completed] # outcome[Completed]
            => \A j \in Closers : closer[j] # "returned"

-----------------------------------------------------------------------------
\* What the proofs need besides.  The tasks counted in and not yet off:
Live == {t \in Tasks : cb[t] \in {"counted", "added"}}

\* The right to complete the scope is taken when the count is zero, at the
\* latest by when_all, and once.
TakenOnce ==
    /\ setcompletion <=> disposing /\ pending = 0
    /\ ~setcompletion =>
         outcome[Completed] = "pending" /\ \A t \in Tasks : cb[t] # "last"
    /\ \A k \in Closers : closer[k] # "idle" => disposing

\* The error kept is that of a task counted off, if one failed.
KeepsError ==
    /\ \A t \in Counted \ Live : outcome[t] # "pending"
    /\ error = NoError => \A t \in Counted \ Live : outcome[t] = "ok"
    /\ error # NoError => \E t \in Counted \ Live : outcome[t] = error

IInv == TakenOnce /\ KeepsError /\ LastCompletes /\ TellsOutcome
=============================================================================
