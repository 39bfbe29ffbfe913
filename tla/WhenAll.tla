------------------------------- MODULE WhenAll -------------------------------
(***************************************************************************)
(* when_all (threading/task.h): a task that completes when all its inputs  *)
(* have.  One call of when_all adds an inline continuation to each input,  *)
(* in order; a continuation counts itself off under the mutex of the data  *)
(* they share, and the last one completes the result outside of it.  A     *)
(* continuation runs on the thread that completes its input, or on the one *)
(* that adds it, once: any time after both.                                *)
(*                                                                         *)
(* outcome is what each task ended with; the inputs are completed by the   *)
(* rest of the system.                                                     *)
(***************************************************************************)
EXTENDS Naturals, Sequences

CONSTANTS
    Inputs,         \* a sequence of tasks
    Result,         \* the task when_all returns
    Errors,
    NoError         \* a default-constructed ErrorT

Tasks == {Inputs[i] : i \in DOMAIN Inputs}
Outcomes == {"pending", "ok"} \cup Errors

VARIABLES
    outcome,        \* what a task completed with
    at,             \* the input whose continuation is added next
    pendingCount,   \* data->pendingCount
    error,          \* data->error
    results,        \* the positions of data->results that are filled
    cb              \* cb[t]: the progress of the continuation of input t

vars == <<outcome, at, pendingCount, error, results, cb>>

CallbackStates == {"none", "added", "last", "done"}

TypeOK ==
    /\ at \in 0 .. Len(Inputs) + 1
    /\ pendingCount \in 0 .. Len(Inputs)
    /\ error \in Errors \cup {NoError}
    /\ results \subseteq DOMAIN Inputs
    /\ cb \in [Tasks -> CallbackStates]

Init ==
    /\ at = 0
    /\ pendingCount = 0
    /\ error = NoError
    /\ results = {}
    /\ cb = [t \in Tasks |-> "none"]

Complete(t, o) == outcome' = [outcome EXCEPT ![t] = o]

-----------------------------------------------------------------------------
\* A count that starts as the continuations are added.
BugBegin ==
    /\ at = 0
    /\ at' = 1
    /\ pendingCount' = IF Inputs = <<>> THEN 0 ELSE 1
    /\ IF Inputs = <<>> THEN Complete(Result, "ok") ELSE UNCHANGED outcome
    /\ UNCHANGED <<error, results, cb>>

\* The call: without inputs the result is complete at once.
Begin ==
    /\ at = 0
    /\ at' = 1
    /\ pendingCount' = Len(Inputs)
    /\ IF Inputs = <<>> THEN Complete(Result, "ok") ELSE UNCHANGED outcome
    /\ UNCHANGED <<error, results, cb>>

AddContinuation ==
    /\ at \in DOMAIN Inputs
    /\ cb' = [cb EXCEPT ![Inputs[at]] = "added"]
    /\ at' = at + 1
    /\ UNCHANGED <<outcome, pendingCount, error, results>>

Returned == at > Len(Inputs)

\* The error of the latest input to fail.
BugFirstError(e, o) == IF o \in Errors THEN o ELSE NoError

FirstError(e, o) == IF o \in Errors /\ e = NoError THEN o ELSE e

\* write_expected_to_tuple: an input with an error leaves its place empty.
Filled(i, o) == IF o = "ok" THEN results \cup {i} ELSE results

\* The continuation of input i: its section under the mutex.
Continuation(i) ==
    LET t == Inputs[i] IN
    /\ cb[t] = "added"
    /\ outcome[t] # "pending"
    /\ pendingCount' = pendingCount - 1
    /\ error' = FirstError(error, outcome[t])
    /\ results' = Filled(i, outcome[t])
    /\ cb' = [cb EXCEPT ![t] = IF pendingCount' = 0 THEN "last" ELSE "done"]
    /\ UNCHANGED <<outcome, at>>

\* The last one completes the result, and reads the error without the mutex.
CompleteResult(t) ==
    /\ cb[t] = "last"
    /\ Complete(Result, IF error # NoError THEN error ELSE "ok")
    /\ cb' = [cb EXCEPT ![t] = "done"]
    /\ UNCHANGED <<at, pendingCount, error, results>>

Step ==
    \/ Begin \/ AddContinuation
    \/ \E i \in DOMAIN Inputs : Continuation(i)
    \/ \E t \in Tasks : CompleteResult(t)

-----------------------------------------------------------------------------
\* The result is completed by one continuation, once, and every input is
\* complete by then.
LastCompletes ==
    /\ \A t \in Tasks : cb[t] = "last" =>
         /\ outcome[Result] = "pending"
         /\ \A u \in Tasks \ {t} : cb[u] = "done"
    /\ outcome[Result] # "pending" => \A t \in Tasks : cb[t] = "done"

\* It is a success with every value in its place, or the error of an input,
\* and a success only if every input is one.
TellsOutcome ==
    /\ outcome[Result] = "ok" =>
         results = DOMAIN Inputs /\ \A t \in Tasks : outcome[t] = "ok"
    /\ outcome[Result] \in Errors => \E t \in Tasks : outcome[t] = outcome[Result]

-----------------------------------------------------------------------------
\* What the proofs need besides.  The inputs not yet counted off:
Waiting == {t \in Tasks : cb[t] \in {"none", "added"}}

\* The continuations are added in order, one to an input.
AddedInOrder == \A i \in DOMAIN Inputs : i >= at => cb[Inputs[i]] = "none"

\* Nothing is counted off, or completed, before its time.
InTime ==
    /\ \A t \in Tasks \ Waiting : outcome[t] # "pending"
    /\ at = 0 => outcome[Result] = "pending"

\* The shared data is that of the inputs counted off so far.
KeepsOutcomes ==
    /\ error = NoError => \A t \in Tasks \ Waiting : outcome[t] = "ok"
    /\ error # NoError => \E t \in Tasks \ Waiting : outcome[t] = error
    /\ results = {i \in DOMAIN Inputs : Inputs[i] \notin Waiting /\ outcome[Inputs[i]] = "ok"}

IInv == AddedInOrder /\ InTime /\ KeepsOutcomes /\ LastCompletes /\ TellsOutcome
=============================================================================
