------------------------------ MODULE Coroutine ------------------------------
(***************************************************************************)
(* Coroutines that return a task and await others (threading/coroutine.h). *)
(* A coroutine runs when it is called, until it awaits; it is resumed by a *)
(* continuation of the task it awaits, which hands it the result.  What it *)
(* does with the result of an error_code task is its own choice: convert   *)
(* it to an expected, convert it to the value or drop it at once, or keep  *)
(* the object in a variable of its outermost block.  The object throws     *)
(* unobserved_error when it is converted to a value or destroyed with an   *)
(* error nobody looked at.  An exception that leaves the body completes    *)
(* the task.                                                               *)
(*                                                                         *)
(* A coroutine of error_code tasks catches whatever else is thrown in it,  *)
(* since that would end the process.  This is the build in which the       *)
(* promise has set_exception (not __clang__).                              *)
(***************************************************************************)
EXTENDS Naturals, Sequences, SequencesExt

CONSTANTS
    Coros,      \* coroutines; a coroutine is also the task it returns
    Tasks,
    CodeTasks,  \* those with std::error_code as their error, the rest has
                \* std::exception_ptr
    Errors, Failures,
    MaxAwaits,  \* bound: how often each coroutine may await
    NoTask

VARIABLES
    result,     \* Result of the payload each task refers to
    state,      \* where the coroutine is
    awaited,    \* the tasks it has awaited; NoTask for a scheduler
    got,        \* m_result of each await
    hand,       \* which await's result it has in hand, or in an exception
    kept,       \* which one's result object it keeps; 0 for none
    body,       \* what it returned or threw itself (for the properties)
    unseen      \* the awaits whose error it has not looked at (ditto)

coroVars == <<state, awaited, got, hand, kept, body, unseen>>
vars == <<result, coroVars>>

States == {"unborn", "running", "awaiting", "resumed", "unobserved", "throwing",
           "leaving", "done", "broken", "terminated"}

TypeOK ==
    /\ state \in [Coros -> States]
    /\ awaited \in [Coros -> Seq(Tasks \cup {NoTask})]
    /\ got \in [Coros -> Seq({"ok"} \cup Failures)]
    /\ \A c \in Coros : Len(got[c]) <= Len(awaited[c]) /\ Len(awaited[c]) <= MaxAwaits
    /\ hand \in [Coros -> 0 .. MaxAwaits]
    /\ kept \in [Coros -> 0 .. MaxAwaits]
    /\ body \in [Coros -> {"none", "ok"} \cup Failures]
    /\ unseen \in [Coros -> SUBSET (1 .. MaxAwaits)]

Init ==
    /\ state = [c \in Coros |-> "unborn"]
    /\ awaited = [c \in Coros |-> <<>>]
    /\ got = [c \in Coros |-> <<>>]
    /\ hand = [c \in Coros |-> 0]
    /\ kept = [c \in Coros |-> 0]
    /\ body = [c \in Coros |-> "none"]
    /\ unseen = [c \in Coros |-> {}]

Goto(c, s) == state' = [state EXCEPT ![c] = s]
Complete(c, r) == result' = [result EXCEPT ![c] = r]
Look(c, i) == unseen' = [unseen EXCEPT ![c] = @ \ {i}]

HasError(c, i) == i # 0 /\ got[c][i] \in Failures

-----------------------------------------------------------------------------
\* initial_suspend is suspend_never.
Call(c) ==
    /\ state[c] = "unborn"
    /\ Goto(c, "running")
    /\ UNCHANGED <<result, awaited, got, hand, kept, body, unseen>>

\* co_await of t through configure_await, whose await_suspend adds the
\* continuation; or of a scheduler through switch_to.
Await(c, t) ==
    /\ state[c] = "running"
    /\ Len(awaited[c]) < MaxAwaits
    /\ Goto(c, "awaiting")
    /\ awaited' = [awaited EXCEPT ![c] = Append(@, t)]
    /\ UNCHANGED <<result, got, hand, kept, body, unseen>>

Switched(c) ==
    /\ state[c] = "awaiting" /\ Last(awaited[c]) = NoTask
    /\ Goto(c, "running")
    /\ got' = [got EXCEPT ![c] = Append(@, "ok")]
    /\ UNCHANGED <<result, awaited, hand, kept, body, unseen>>

\* The continuation stores the result and resumes the coroutine; await_resume
\* of an exception task rethrows.
Resume(c) ==
    LET t == Last(awaited[c]) IN
    /\ state[c] = "awaiting" /\ t # NoTask
    /\ result[t] # "none"
    /\ got' = [got EXCEPT ![c] = Append(@, result[t])]
    /\ hand' = [hand EXCEPT ![c] = Len(got'[c])]
    /\ unseen' = [unseen EXCEPT ![c] = IF HasError(c, hand[c])' THEN @ \cup {hand'[c]} ELSE @]
    /\ Goto(c, IF t \in CodeTasks THEN "resumed"
               ELSE IF HasError(c, hand[c])' THEN "throwing"
               ELSE "running")
    /\ UNCHANGED <<result, awaited, kept, body>>

-----------------------------------------------------------------------------
(* What becomes of the result of an error_code task. *)

\* operator expected.
TakeExpected(c) ==
    /\ state[c] = "resumed"
    /\ Goto(c, "running")
    /\ Look(c, hand[c])
    /\ UNCHANGED <<result, awaited, got, hand, kept, body>>

\* operator ResultT, or the destructor of an object nobody converted.
TakeValue(c) ==
    /\ state[c] = "resumed"
    /\ Goto(c, IF HasError(c, hand[c]) THEN "unobserved" ELSE "running")
    /\ UNCHANGED <<result, awaited, got, hand, kept, body, unseen>>

\* auto r = co_await ...; the body has at most one such variable at a time.
Keep(c) ==
    /\ state[c] = "resumed" /\ kept[c] = 0
    /\ Goto(c, "running")
    /\ kept' = [kept EXCEPT ![c] = hand[c]]
    /\ UNCHANGED <<result, awaited, got, hand, body, unseen>>

\* The variable is converted to an expected.
LookAtKept(c) ==
    /\ state[c] = "running" /\ kept[c] # 0
    /\ kept' = [kept EXCEPT ![c] = 0]
    /\ Look(c, kept[c])
    /\ UNCHANGED <<result, state, awaited, got, hand, body>>

\* It is converted to the value.
UseKept(c) ==
    /\ state[c] = "running" /\ kept[c] # 0
    /\ Goto(c, IF HasError(c, kept[c]) THEN "unobserved" ELSE "running")
    /\ hand' = [hand EXCEPT ![c] = kept[c]]
    /\ kept' = [kept EXCEPT ![c] = 0]
    /\ UNCHANGED <<result, awaited, got, body, unseen>>

\* A handler in the body.
Catch(c) ==
    /\ state[c] \in {"unobserved", "throwing"}
    /\ Goto(c, "running")
    /\ Look(c, hand[c])
    /\ UNCHANGED <<result, awaited, got, hand, kept, body>>

-----------------------------------------------------------------------------
\* co_return: return_value completes the task first; the variables of the body
\* are destroyed behind it.
CoReturn(c, o) ==
    /\ state[c] = "running"
    /\ Complete(c, o)
    /\ body' = [body EXCEPT ![c] = o]
    /\ Goto(c, "leaving")
    /\ UNCHANGED <<awaited, got, hand, kept, unseen>>

\* A destructor that leaves an error alone nobody looked at.
BugThrowsKept(c) == FALSE

\* The destructor of the variable throws.
ThrowsKept(c) == HasError(c, kept[c])

\* Behind co_return, set_exception completes the task a second time: its result
\* is replaced, and the exception this throws leaves the coroutine.
Leave(c) ==
    /\ state[c] = "leaving"
    /\ IF ThrowsKept(c)
         THEN Goto(c, "broken") /\ Complete(c, got[c][kept[c]])
         ELSE Goto(c, "done") /\ UNCHANGED result
    /\ UNCHANGED <<awaited, got, hand, kept, body, unseen>>

\* A promise without set_exception.
BugSetException(c, e) ==
    /\ Goto(c, "done")
    /\ UNCHANGED <<result, awaited, got, hand, kept>>

\* set_exception; a kept error that a destructor throws while this exception is
\* on its way ends the process.
SetException(c, e) ==
    /\ IF ThrowsKept(c)
         THEN Goto(c, "terminated") /\ UNCHANGED result
         ELSE Goto(c, "done") /\ Complete(c, e)
    /\ UNCHANGED <<awaited, got, hand, kept>>

\* throw, in a coroutine of exception tasks.
Throw(c, e) ==
    /\ state[c] = "running" /\ c \notin CodeTasks
    /\ SetException(c, e)
    /\ body' = [body EXCEPT ![c] = e]
    /\ UNCHANGED unseen

\* The exception in flight.
Uncaught(c) ==
    /\ \/ state[c] = "unobserved"
       \/ state[c] = "throwing" /\ c \notin CodeTasks
    /\ SetException(c, got[c][hand[c]])
    /\ UNCHANGED <<body, unseen>>

-----------------------------------------------------------------------------
\* The coroutines whose task was returned to the caller.
Returned == {c \in Coros : awaited[c] # <<>> \/ result[c] # "none"}

Terminated == \E c \in Coros : state[c] = "terminated"

CoroEdges ==
    {e \in Coros \X Tasks : e[2] \in ToSet(awaited[e[1]])}

Completes(c) ==
    \/ \E o \in {"ok"} \cup Errors : CoReturn(c, o)
    \/ \E e \in Errors : Throw(c, e)
    \/ Uncaught(c)
    \/ Leave(c)

Handles(c) ==
    \/ TakeExpected(c) \/ TakeValue(c) \/ Keep(c) \/ LookAtKept(c) \/ UseKept(c) \/ Catch(c)

Step(c) == Switched(c) \/ Resume(c) \/ Handles(c) \/ Completes(c)
=============================================================================
