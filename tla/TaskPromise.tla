----------------------------- MODULE TaskPromise -----------------------------
(***************************************************************************)
(* What a task promises to those who continue it, with no threads, no      *)
(* mutexes and no lists of continuations: it completes once; what follows  *)
(* it runs once, behind its completion, and is complete only after that; a *)
(* task that turned out to stand for another one never completes itself,   *)
(* and hands those who follow it on to that one before they run.           *)
(***************************************************************************)
CONSTANTS
    Tasks,
    Originals,  \* those that follow nobody and are there from the beginning
    Nobody

VARIABLES
    made,       \* the tasks that somebody has
    follows,    \* the task that each of them continues
    standsFor,  \* the task that a stand-in turned out to stand for
    ran,        \* the tasks whose work has begun to run
    completed

vars == <<made, follows, standsFor, ran, completed>>

Init ==
    /\ made = Originals
    /\ follows = [t \in Tasks |-> Nobody]
    /\ standsFor = [t \in Tasks |-> Nobody]
    /\ ran = {}
    /\ completed = {}

Continue(t, p) ==
    /\ t \notin made /\ p \in made
    /\ made' = made \cup {t}
    /\ follows' = [follows EXCEPT ![t] = p]
    /\ UNCHANGED <<standsFor, ran, completed>>

Run(t) ==
    /\ t \in made \ ran /\ follows[t] \in completed
    /\ ran' = ran \cup {t}
    /\ UNCHANGED <<made, follows, standsFor, completed>>

Open(t) == t \in made \ completed /\ standsFor[t] = Nobody

Complete(t) ==
    /\ Open(t)
    /\ t \in Originals \cup ran
    /\ completed' = completed \cup {t}
    /\ UNCHANGED <<made, follows, standsFor, ran>>

\* Some of those who follow t and have not run follow another one from now on.
HandOn(t, other) ==
    \E S \in SUBSET {c \in made \ ran : follows[c] = t} :
        follows' = [c \in Tasks |-> IF c \in S THEN other ELSE follows[c]]

StandIn(t, other) ==
    /\ Open(t) /\ {t, other} \subseteq Originals /\ other # t
    /\ standsFor' = [standsFor EXCEPT ![t] = other]
    /\ HandOn(t, other)
    /\ UNCHANGED <<made, ran, completed>>

Redirect(t) ==
    /\ \E other \in Originals : standsFor[t] = other /\ HandOn(t, other)
    /\ UNCHANGED <<made, standsFor, ran, completed>>

Next ==
    \E t \in Tasks :
        \/ Run(t) \/ Complete(t) \/ Redirect(t)
        \/ \E p \in Tasks : Continue(t, p) \/ StandIn(t, p)

SafeSpec == Init /\ [][Next]_vars

\* Nobody has to complete an original; whoever follows a stand-in is handed
\* on, runs once that task is complete, and then completes.
Spec ==
    /\ SafeSpec
    /\ \A t \in Tasks :
         /\ WF_vars(Redirect(t))
         /\ WF_vars(Run(t))
         /\ WF_vars(t \in ran /\ Complete(t))
=============================================================================
