--------------------------- MODULE OneShotSignal ---------------------------
(***************************************************************************)
(* What a cancellation source promises to those who listen to it, with no  *)
(* threads, no mutex and no snapshot: it fires at most once; everyone who  *)
(* is a member when it fires, and everyone who joins afterwards, is owed   *)
(* exactly one call; a member may leave at any time, and leaving does not  *)
(* take back a call that is already owed.                                  *)
(***************************************************************************)
CONSTANT Listeners

VARIABLES
    fired,      \* the signal has been given
    joined,     \* everyone who ever joined
    members,    \* those who have not left
    owed,       \* those who must still be called
    delivered   \* those who have been called

vars == <<fired, joined, members, owed, delivered>>

Init ==
    /\ fired = FALSE
    /\ joined = {}
    /\ members = {}
    /\ owed = {}
    /\ delivered = {}

Join(l) ==
    /\ l \notin joined
    /\ joined' = joined \cup {l}
    /\ members' = members \cup {l}
    /\ owed' = IF fired THEN owed \cup {l} ELSE owed
    /\ UNCHANGED <<fired, delivered>>

Leave(l) ==
    /\ l \in members
    /\ members' = members \ {l}
    /\ UNCHANGED <<fired, joined, owed, delivered>>

Fire ==
    /\ ~fired
    /\ fired' = TRUE
    /\ owed' = members
    /\ UNCHANGED <<joined, members, delivered>>

Deliver(l) ==
    /\ l \in owed \ delivered
    /\ owed' = owed \ {l}
    /\ delivered' = delivered \cup {l}
    /\ UNCHANGED <<fired, joined, members>>

Next == Fire \/ \E l \in Listeners : Join(l) \/ Leave(l) \/ Deliver(l)

SafeSpec == Init /\ [][Next]_vars

Spec == SafeSpec /\ \A l \in Listeners : WF_vars(Deliver(l))
=============================================================================
