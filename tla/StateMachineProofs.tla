-------------------------- MODULE StateMachineProofs --------------------------
(***************************************************************************)
(* Proofs about StateMachine for any observers, states, cancellations and  *)
(* number of entries.                                                      *)
(***************************************************************************)
EXTENDS StateMachine, Integers, TLAPS

USE StateMachineAssumption

-----------------------------------------------------------------------------
(***************************************************************************)
(* What the proofs need besides.  Entries that were not made yet are as    *)
(* new, and nobody refers to them.                                         *)
(***************************************************************************)
Fresh ==
    /\ \A e \in Entries : e > made => ~exited[e] /\ ~entered[e] /\ verdict[e] = "none"
    /\ \A s \in States : current[s] <= made
    /\ \A a \in Actors : at[a] <= made
    /\ \A p \in Procs : target[p] <= made

OneStateEach ==
    \A s, t \in States : current[s] # NoEntry /\ current[s] = current[t] => s = t

\* Who took an entry out of the map has it to itself, and it never returns.
Holds(p) == pc[p] = "complete" \/ (p # driver /\ pc[p] \in {"assign", "settle"})

Owned ==
    \A p \in Procs : Holds(p) =>
        /\ target[p] # NoEntry
        /\ \A s \in States : current[s] # target[p]
        /\ \A q \in Procs : Holds(q) /\ target[q] = target[p] => q = p

NotExitedYet == \A p \in Procs : pc[p] = "complete" => ~exited[target[p]]

MapIsOpen == \A s \in States : current[s] # NoEntry => IsOpen(current[s])

DriversEntry ==
    /\ pc[driver] \in {"idle", "assign", "settle", "listen", "take", "attach", "waiting",
                      "complete", "threw"}
    /\ pc[driver] = "idle" <=> at[driver] = NoEntry
    /\ pc[driver] \in {"assign", "settle"} => target[driver] = at[driver]

CancelsAsAsked == \A a \in Actors : pc[Canceller(a)] # "idle" => a \in requested

(***************************************************************************)
(* Until something is cancelled, an observer's entry stays in the map and  *)
(* is its own until it exits, and its work is the driver's move.           *)
(***************************************************************************)
Stays(o) == InCall(o) \/ pc[o] = "exit"
Admitted(o) == pc[o] \in {"queued", "refused", "working", "exit"}

NobodyTakes ==
    /\ \A o \in Observers : pc[o] \notin {"take", "assign", "settle", "threw"}
    /\ pc[driver] \notin {"take", "complete", "threw"}
    /\ pc[driver] \in {"assign", "settle"} => ~entered[at[driver]]

OwnEntries ==
    /\ \A o \in Observers : Stays(o) =>
         at[o] # NoEntry /\ current[where[o]] = at[o] /\ pending[at[o]]
    /\ \A o, q \in Observers : Stays(o) /\ Stays(q) /\ at[o] = at[q] => o = q

WorkIsTheMoves ==
    \A o \in Observers : Admitted(o) =>
        at[o] = at[driver] /\ pc[driver] \in {"listen", "attach", "waiting"}

MoveIsFound ==
    /\ pc[driver] # "idle" =>
         \/ current[where[driver]] = at[driver]
         \/ exited[at[driver]]
         \/ \E o \in Observers : pc[o] = "complete" /\ target[o] = at[driver]
    /\ pc[driver] = "waiting" => ~exited[at[driver]]

Undisturbed ==
    requested = {} => NobodyTakes /\ OwnEntries /\ WorkIsTheMoves /\ MoveIsFound

IInv ==
    /\ TypeOK /\ Fresh /\ OneStateEach /\ Owned /\ NotExitedYet /\ MapIsOpen
    /\ DriversEntry /\ CancelsAsAsked /\ Undisturbed

-----------------------------------------------------------------------------

LEMMA Cancellers ==
  /\ Actors \subseteq Procs /\ driver \in Actors /\ Observers \subseteq Actors
  /\ Actors = Observers \cup {driver} /\ driver \notin Observers
  /\ \A a \in Actors : Canceller(a) \in Procs \ Actors /\ Token(Canceller(a)) = a /\ Token(a) = a
  /\ \A a, b \in Actors : Canceller(a) = Canceller(b) => a = b
  /\ \A p \in Procs : p \in Actors \/ \E a \in Actors : p = Canceller(a)
BY DEF Actors, Procs, Canceller, Token

(* Every step of the system, by its action. *)
LEMMA Steps ==
  ASSUME [Next]_vars
  PROVE  \/ \E s \in States : MoveTo(s)
         \/ \E o \in Observers : \E s \in States : Enter(o, s)
         \/ \E a \in Actors : Cancel(a) \/ Signal(a) \/ AddListener(a)
         \/ \E p \in Procs :
              CancelTake(p) \/ AssignEntered(p) \/ SettleEntered(p) \/ CompleteExited(p)
         \/ AttachDriver
         \/ \E o \in Observers :
              AttachObserver(o) \/ RunWork(o) \/ WorkReturns(o) \/ ExitTake(o)
         \/ UNCHANGED vars
BY Cancellers DEF Next, CancellerStep, DriverStep, ObserverStep, ActorStep, Step

LEMMA InitInv == Init => IInv
<1> SUFFICES ASSUME Init PROVE IInv
  OBVIOUS
<1> USE DEF Init
<1>1. TypeOK
  BY DEF TypeOK, PcStates
<1>2. Fresh /\ OneStateEach /\ MapIsOpen
  BY DEF Fresh, OneStateEach, MapIsOpen, Entries, NoEntry
<1>3. Owned /\ NotExitedYet
  BY DEF Owned, NotExitedYet, Holds
<1>4. DriversEntry /\ CancelsAsAsked
  BY Cancellers DEF DriversEntry, CancelsAsAsked
<1>5. Undisturbed
  BY Cancellers DEF Undisturbed, NobodyTakes, OwnEntries, WorkIsTheMoves, MoveIsFound,
                    Stays, InCall, Admitted
<1> QED BY <1>1, <1>2, <1>3, <1>4, <1>5 DEF IInv

(* What nobody has heard of yet. *)
New(e) ==
    /\ \A t \in States : current[t] # e
    /\ \A a \in Actors : at[a] # e
    /\ \A p \in Procs : target[p] # e
    /\ ~exited[e] /\ ~entered[e] /\ verdict[e] = "none"

(* fetch_state: the entry is the state's, or new. *)
LEMMA Fetched ==
  ASSUME TypeOK, NEW a \in Actors, NEW s \in States, FetchState(a, s)
  PROVE  /\ current' \in [States -> Entries \cup {NoEntry}] /\ made' \in 0 .. MaxEntries
         /\ where' \in [Procs -> States] /\ at' \in [Actors -> Entries \cup {NoEntry}]
         /\ at'[a] = current'[s] /\ \A b \in Actors \ {a} : at'[b] = at[b]
         /\ where'[a] = s /\ \A p \in Procs \ {a} : where'[p] = where[p]
         /\ current'[s] \in Entries /\ current'[s] # NoEntry
         /\ \A t \in States \ {s} : current'[t] = current[t]
         /\ \/ current'[s] = current[s] /\ made' = made
            \/ current[s] = NoEntry /\ made' = made + 1 /\ current'[s] = made + 1
<1> USE DEF Entries, NoEntry
<1>1. a \in Procs
  BY Cancellers
<1>2. CASE current[s] = NoEntry
  <2>1. made + 1 \in Entries /\ made' = made + 1 /\ made' \in 0 .. MaxEntries
    BY <1>2 DEF FetchState, TypeOK
  <2>2. current' = [current EXCEPT ![s] = made + 1]
    BY <1>2 DEF FetchState
  <2> QED BY <1>1, <1>2, <2>1, <2>2 DEF FetchState, TypeOK
<1>3. CASE current[s] # NoEntry
  BY <1>1, <1>3 DEF FetchState, TypeOK
<1> QED BY <1>2, <1>3

LEMMA FetchedNew ==
  ASSUME TypeOK, Fresh, NEW a \in Actors, NEW s \in States, FetchState(a, s)
  PROVE  \/ current'[s] = current[s]
         \/ current[s] = NoEntry /\ New(current'[s])
<1> SUFFICES ASSUME made' = made + 1, current'[s] = made + 1
             PROVE  New(current'[s])
  BY Fetched
<1>1. made + 1 \in Entries /\ made \in Int
  BY Fetched DEF TypeOK, Entries
<1>2. \A t \in States : current[t] # made + 1
  BY <1>1 DEF Fresh
<1>3. \A b \in Actors : at[b] # made + 1
  BY <1>1 DEF Fresh
<1>4. \A p \in Procs : target[p] # made + 1
  BY <1>1 DEF Fresh
<1>5. made + 1 > made
  BY <1>1
<1> QED BY <1>1, <1>2, <1>3, <1>4, <1>5 DEF Fresh, New

(* What the actions do, case by case. *)
LEMMA Taken ==
  ASSUME NEW p, CancelTake(p)
  PROVE  \/ /\ Takable(p, current[where[p]])
            /\ current' = [current EXCEPT ![where[p]] = NoEntry]
            /\ target' = [target EXCEPT ![p] = current[where[p]]]
            /\ pc' = [pc EXCEPT ![p] = IF Token(p) = driver THEN "complete" ELSE "assign"]
         \/ /\ UNCHANGED <<current, target>>
            /\ pc' = [pc EXCEPT ![p] = AfterListener(p)]
<1>1. CASE Takable(p, current[where[p]])
  BY <1>1 DEF CancelTake, Erase, Goto
<1>2. CASE ~Takable(p, current[where[p]])
  BY <1>2 DEF CancelTake, Goto
<1> QED BY <1>1, <1>2

LEMMA Left ==
  ASSUME NEW o, ExitTake(o)
  PROVE  \/ /\ current[where[o]] # NoEntry
            /\ current' = [current EXCEPT ![where[o]] = NoEntry]
            /\ target' = [target EXCEPT ![o] = current[where[o]]]
            /\ pc' = [pc EXCEPT ![o] = "complete"]
         \/ /\ UNCHANGED <<current, target>>
            /\ pc' = [pc EXCEPT ![o] = "idle"]
<1>1. CASE current[where[o]] # NoEntry
  BY <1>1 DEF ExitTake, Erase, Goto
<1>2. CASE current[where[o]] = NoEntry
  BY <1>2 DEF ExitTake, Goto
<1> QED BY <1>1, <1>2

(* The entry of p's state leaves the map, for p to complete a source of it; *)
(* or p finds nothing to take.                                             *)
Takes(p) ==
    /\ current[where[p]] # NoEntry /\ target'[p] = current[where[p]]
    /\ \A s \in States : current'[s] = IF s = where[p] THEN NoEntry ELSE current[s]
    /\ \A q \in Procs \ {p} : target'[q] = target[q]

LEMMA Moves ==
  ASSUME TypeOK, NEW p \in Procs, CancelTake(p) \/ ExitTake(p)
  PROVE  /\ \A q \in Procs \ {p} : pc'[q] = pc[q]
         /\ UNCHANGED <<made, pending, entryVars, tokenVars, where>>
         /\ \/ Takes(p) /\ pc'[p] \in {"complete", "assign"}
            \/ UNCHANGED <<current, target>> /\ pc'[p] \in {"attach", "done", "idle"}
<1>1. UNCHANGED <<made, pending, entryVars, tokenVars, where>>
  BY DEF CancelTake, ExitTake
<1>2. /\ where[p] \in States /\ pc \in [Procs -> PcStates]
      /\ current \in [States -> Entries \cup {NoEntry}]
      /\ target \in [Procs -> Entries \cup {NoEntry}]
  BY DEF TypeOK
<1>3. \/ /\ \E l \in {"complete", "assign"} : pc' = [pc EXCEPT ![p] = l]
         /\ current[where[p]] # NoEntry
         /\ current' = [current EXCEPT ![where[p]] = NoEntry]
         /\ target' = [target EXCEPT ![p] = current[where[p]]]
      \/ /\ \E l \in {"attach", "done", "idle"} : pc' = [pc EXCEPT ![p] = l]
         /\ UNCHANGED <<current, target>>
  BY Taken, Left DEF Takable, AfterListener
<1>4. CASE /\ \E l \in {"complete", "assign"} : pc' = [pc EXCEPT ![p] = l]
           /\ current[where[p]] # NoEntry
           /\ current' = [current EXCEPT ![where[p]] = NoEntry]
           /\ target' = [target EXCEPT ![p] = current[where[p]]]
  BY <1>1, <1>2, <1>4 DEF Takes
<1>5. CASE /\ \E l \in {"attach", "done", "idle"} : pc' = [pc EXCEPT ![p] = l]
           /\ UNCHANGED <<current, target>>
  BY <1>1, <1>2, <1>5
<1> QED BY <1>3, <1>4, <1>5

LEMMA Settled ==
  ASSUME TypeOK, NEW p \in Procs, SettleEntered(p)
  PROVE  /\ pc' \in [Procs -> PcStates]
         /\ \/ /\ entered[target[p]] /\ UNCHANGED <<entered, listening>>
               /\ pc' = [pc EXCEPT ![p] = "threw"]
            \/ /\ ~entered[target[p]] /\ entered' = [entered EXCEPT ![target[p]] = TRUE]
               /\ pc'[p] = IF p = driver THEN "listen" ELSE AfterListener(p)
               /\ listening' \subseteq listening
               /\ \A q \in Procs \ {p} :
                    \/ pc'[q] = pc[q]
                    \/ /\ q \in Observers /\ pc[q] = "waiting" /\ at[q] = target[p]
                       /\ pc'[q] \in {"queued", "refused"}
<1>1. CASE entered[target[p]]
  BY <1>1 DEF SettleEntered, Goto, TypeOK, PcStates
<1>2. CASE ~entered[target[p]]
  <2> DEFINE W == WaitingFor(target[p])
  <2>1. /\ entered' = [entered EXCEPT ![target[p]] = TRUE]
        /\ pc' = [q \in Procs |->
                    IF q = p THEN IF p = driver THEN "listen" ELSE AfterListener(p)
                    ELSE IF q \in W THEN Admit(target[p]) ELSE pc[q]]
        /\ listening' = listening \ W
    BY <1>2 DEF SettleEntered
  <2>2. AfterListener(p) \in PcStates /\ Admit(target[p]) \in {"queued", "refused"}
    BY DEF AfterListener, Admit, PcStates
  <2>3. pc' \in [Procs -> PcStates]
    BY <2>1, <2>2 DEF TypeOK, PcStates
  <2>4. \A q \in W : q \in Observers /\ pc[q] = "waiting" /\ at[q] = target[p]
    BY DEF WaitingFor
  <2> HIDE DEF W
  <2> QED BY <1>2, <2>1, <2>2, <2>3, <2>4
<1> QED BY <1>1, <1>2

(* The same, as each of the others sees it. *)
LEMMA SettledFor ==
  ASSUME TypeOK, NEW p \in Procs, SettleEntered(p)
  PROVE  /\ pc[p] = "settle" /\ UNCHANGED <<mapVars, verdict, exited, requested, signaled, where,
                                            at>>
         /\ target'[p] = NoEntry /\ \A q \in Procs \ {p} : target'[q] = target[q]
         /\ \A e \in Entries \ {target[p]} : entered'[e] = entered[e]
         /\ pc'[p] \in IF p = driver THEN {"threw", "listen"} ELSE {"threw", "attach", "done"}
         /\ pc'[p] = "threw" => entered[target[p]] /\ entered' = entered
         /\ \A q \in Procs \ {p} :
              \/ pc'[q] = pc[q]
              \/ /\ q \in Observers /\ pc[q] = "waiting" /\ at[q] = target[p]
                 /\ pc'[q] \in {"queued", "refused"}
<1> DEFINE Others(q) ==
      \/ pc'[q] = pc[q]
      \/ /\ q \in Observers /\ pc[q] = "waiting" /\ at[q] = target[p]
         /\ pc'[q] \in {"queued", "refused"}
<1>1. pc[p] = "settle" /\ UNCHANGED <<mapVars, verdict, exited, requested, signaled, where, at>>
  BY DEF SettleEntered
<1>2. target'[p] = NoEntry /\ \A q \in Procs \ {p} : target'[q] = target[q]
  BY DEF SettleEntered, TypeOK
<1>3. pc \in [Procs -> PcStates] /\ entered \in [Entries -> BOOLEAN]
  BY DEF TypeOK
<1>4. CASE entered[target[p]] /\ entered' = entered /\ pc' = [pc EXCEPT ![p] = "threw"]
  <2>1. pc'[p] = "threw" /\ \A q \in Procs \ {p} : pc'[q] = pc[q]
    BY <1>3, <1>4
  <2> QED BY <1>1, <1>2, <1>4, <2>1
<1>5. CASE /\ entered' = [entered EXCEPT ![target[p]] = TRUE]
           /\ pc'[p] = IF p = driver THEN "listen" ELSE AfterListener(p)
           /\ \A q \in Procs \ {p} : Others(q)
  <2>1. \A e \in Entries \ {target[p]} : entered'[e] = entered[e]
    BY <1>3, <1>5
  <2>2. pc'[p] \in (IF p = driver THEN {"listen"} ELSE {"attach", "done"})
    BY <1>5 DEF AfterListener
  <2> QED BY <1>1, <1>2, <1>5, <2>1, <2>2
<1> QED BY <1>4, <1>5, Settled

LEMMA Over ==
  ASSUME TypeOK, NEW p \in Procs, CompleteExited(p)
  PROVE  /\ pc' \in [Procs -> PcStates]
         /\ pc'[p] = IF p \in Observers THEN "idle" ELSE AfterListener(p)
         /\ \/ /\ pc[driver] = "waiting" /\ at[driver] = target[p] /\ p # driver
               /\ pc'[driver] = "idle" /\ at' = [at EXCEPT ![driver] = NoEntry]
               /\ listening' = listening \ {driver}
               /\ \A q \in Procs \ {p, driver} : pc'[q] = pc[q]
            \/ /\ ~(pc[driver] = "waiting" /\ at[driver] = target[p])
               /\ UNCHANGED <<at, listening>>
               /\ \A q \in Procs \ {p} : pc'[q] = pc[q]
<1> DEFINE next == IF p \in Observers THEN "idle" ELSE AfterListener(p)
<1>1. next \in PcStates /\ "idle" \in PcStates
  BY DEF AfterListener, PcStates
<1>2. driver \in Procs /\ pc \in [Procs -> PcStates] /\ pc[p] = "complete"
  BY Cancellers DEF CompleteExited, TypeOK
<1>3. CASE pc[driver] = "waiting" /\ at[driver] = target[p]
  <2>1. /\ pc' = [pc EXCEPT ![p] = next, ![driver] = "idle"]
        /\ at' = [at EXCEPT ![driver] = NoEntry] /\ listening' = listening \ {driver}
    BY <1>3 DEF CompleteExited
  <2> HIDE DEF next
  <2>2. p # driver
    BY <1>2, <1>3
  <2>3. pc' \in [Procs -> PcStates] /\ pc'[p] = next /\ pc'[driver] = "idle"
    BY <1>1, <1>2, <2>1, <2>2
  <2>4. \A q \in Procs \ {p, driver} : pc'[q] = pc[q]
    BY <1>2, <2>1
  <2> QED BY <1>3, <2>1, <2>2, <2>3, <2>4 DEF next
<1>4. CASE ~(pc[driver] = "waiting" /\ at[driver] = target[p])
  <2>1. pc' = [pc EXCEPT ![p] = next] /\ UNCHANGED <<at, listening>>
    BY <1>4 DEF CompleteExited, Goto
  <2> HIDE DEF next
  <2>2. pc' \in [Procs -> PcStates] /\ pc'[p] = next
    BY <1>1, <1>2, <2>1
  <2>3. \A q \in Procs \ {p} : pc'[q] = pc[q]
    BY <1>2, <2>1
  <2> QED BY <1>4, <2>1, <2>2, <2>3 DEF next
<1> QED BY <1>3, <1>4

LEMMA TypeStep == TypeOK /\ CancelsAsAsked /\ [Next]_vars => TypeOK'
<1> SUFFICES ASSUME TypeOK, CancelsAsAsked, [Next]_vars PROVE TypeOK'
  OBVIOUS
<1> USE Cancellers DEF TypeOK, PcStates, Goto, mapVars, entryVars, tokenVars, Entries, NoEntry
<1>0. \A p \in Procs : where[p] \in States /\ current[where[p]] \in Entries \cup {NoEntry}
  OBVIOUS
<1>1. ASSUME NEW s \in States, MoveTo(s) PROVE TypeOK'
  BY <1>1, Fetched DEF MoveTo
<1>2. ASSUME NEW o \in Observers, NEW s \in States, Enter(o, s) PROVE TypeOK'
  <2>1. pending' \in [Entries -> BOOLEAN]
    BY <1>2 DEF Enter
  <2> QED BY <1>2, <2>1, Fetched DEF Enter
<1>3. ASSUME NEW a \in Actors, Cancel(a) PROVE TypeOK'
  BY <1>3 DEF Cancel
<1>4. ASSUME NEW a \in Actors, Signal(a) PROVE TypeOK'
  BY <1>4 DEF Signal, CancelsAsAsked
<1>5. ASSUME NEW p \in Procs, CancelTake(p) PROVE TypeOK'
  <2>1. \E l \in {"complete", "assign", "attach", "done"} : pc' = [pc EXCEPT ![p] = l]
    BY <1>5, Taken DEF AfterListener
  <2>2. pc' \in [Procs -> PcStates]
    BY <2>1
  <2>3. \/ UNCHANGED <<current, target>>
        \/ /\ current' = [current EXCEPT ![where[p]] = NoEntry]
           /\ target' = [target EXCEPT ![p] = current[where[p]]]
    BY <1>5, Taken
  <2>4. current' \in [States -> Entries \cup {NoEntry}]
          /\ target' \in [Procs -> Entries \cup {NoEntry}]
    BY <1>0, <2>3
  <2> QED BY <1>5, <2>2, <2>4 DEF CancelTake
<1>6. ASSUME NEW p \in Procs, AssignEntered(p) PROVE TypeOK'
  BY <1>6 DEF AssignEntered
<1>7. ASSUME NEW p \in Procs, SettleEntered(p) PROVE TypeOK'
  <2>1. entered' \in [Entries -> BOOLEAN]
    <3>1. [entered EXCEPT ![target[p]] = TRUE] \in [Entries -> BOOLEAN]
      OBVIOUS
    <3> QED BY <1>7, <3>1, Settled
  <2>2. listening' \subseteq Actors /\ pc' \in [Procs -> PcStates]
    BY <1>7, Settled
  <2>3. target' \in [Procs -> Entries \cup {NoEntry}]
    BY <1>7 DEF SettleEntered
  <2> QED BY <1>7, <2>1, <2>2, <2>3 DEF SettleEntered
<1>8. ASSUME NEW p \in Procs, CompleteExited(p) PROVE TypeOK'
  <2>1. at' \in [Actors -> Entries \cup {NoEntry}] /\ listening' \subseteq Actors
          /\ pc' \in [Procs -> PcStates]
    BY <1>8, Over
  <2>2. exited' \in [Entries -> BOOLEAN] /\ target' \in [Procs -> Entries \cup {NoEntry}]
    BY <1>8 DEF CompleteExited
  <2> QED BY <1>8, <2>1, <2>2 DEF CompleteExited
<1>9. ASSUME NEW a \in Actors, AddListener(a) PROVE TypeOK'
  BY <1>9 DEF AddListener
<1>10. CASE AttachDriver
  BY <1>10 DEF AttachDriver
<1>11. ASSUME NEW o \in Observers, AttachObserver(o) PROVE TypeOK'
  <2>1. \E l \in {"queued", "refused", "waiting"} : pc' = [pc EXCEPT ![o] = l]
    BY <1>11 DEF AttachObserver, Admit
  <2>2. pc' \in [Procs -> PcStates]
    BY <2>1
  <2>3. listening' \subseteq Actors
    BY <1>11 DEF AttachObserver
  <2> QED BY <1>11, <2>2, <2>3 DEF AttachObserver
<1>12. ASSUME NEW o \in Observers, RunWork(o) PROVE TypeOK'
  BY <1>12 DEF RunWork
<1>13. ASSUME NEW o \in Observers, WorkReturns(o) PROVE TypeOK'
  BY <1>13 DEF WorkReturns
<1>14. ASSUME NEW o \in Observers, ExitTake(o) PROVE TypeOK'
  <2>1. o \in Procs
    OBVIOUS
  <2>2. pc' \in [Procs -> PcStates]
    <3>1. pc' = [pc EXCEPT ![o] = "idle"] \/ pc' = [pc EXCEPT ![o] = "complete"]
      BY <1>14, Left
    <3> QED BY <2>1, <3>1
  <2>3. current' \in [States -> Entries \cup {NoEntry}]
          /\ target' \in [Procs -> Entries \cup {NoEntry}]
    <3>1. \/ UNCHANGED <<current, target>>
          \/ /\ current' = [current EXCEPT ![where[o]] = NoEntry]
             /\ target' = [target EXCEPT ![o] = current[where[o]]]
      BY <1>14, Left
    <3> QED BY <1>0, <2>1, <3>1
  <2>4. at' \in [Actors -> Entries \cup {NoEntry}]
    BY <1>14 DEF ExitTake
  <2> QED BY <1>14, <2>2, <2>3, <2>4 DEF ExitTake
<1>15. CASE UNCHANGED vars
  BY <1>15 DEF vars, mapVars, entryVars, tokenVars, procVars
<1> QED
  BY <1>1, <1>2, <1>3, <1>4, <1>5, <1>6, <1>7, <1>8, <1>9, <1>10, <1>11, <1>12, <1>13, <1>14,
     <1>15, Steps

LEMMA FreshStep == TypeOK /\ TypeOK' /\ Fresh /\ [Next]_vars => Fresh'
<1> SUFFICES ASSUME TypeOK, TypeOK', Fresh, [Next]_vars PROVE Fresh'
  OBVIOUS
<1> USE Cancellers DEF Goto, mapVars, entryVars, tokenVars
<1>a. /\ made \in Nat /\ made' \in Nat /\ Entries \subseteq Int
      /\ \A e \in Entries : e \in Int
  BY DEF TypeOK, Entries
<1>b. NoEntry <= made /\ NoEntry <= made' /\ NoEntry \in Int
  BY <1>a DEF NoEntry
<1>c. /\ current \in [States -> Entries \cup {NoEntry}]
      /\ at \in [Actors -> Entries \cup {NoEntry}] /\ target \in [Procs -> Entries \cup {NoEntry}]
      /\ exited \in [Entries -> BOOLEAN] /\ entered \in [Entries -> BOOLEAN]
      /\ verdict \in [Entries -> {"none", "ok", "cancelled"}]
  BY DEF TypeOK
<1>d. /\ \A s \in States : current[s] \in Int
      /\ \A a \in Actors : at[a] \in Int
      /\ \A q \in Procs : target[q] \in Int
  <2>1. \A e \in Entries \cup {NoEntry} : e \in Int
    BY <1>a, <1>b
  <2> QED BY <1>c, <2>1
<1>1. ASSUME NEW s \in States, MoveTo(s) PROVE Fresh'
  <2>1. /\ current'[s] <= made' /\ made <= made' /\ current'[s] \in Int
        /\ \A t \in States : current'[t] = current'[s] \/ current'[t] = current[t]
        /\ \A b \in Actors : at'[b] = current'[s] \/ at'[b] = at[b]
    <3>1. FetchState(driver, s)
      BY <1>1 DEF MoveTo
    <3>2. \/ current'[s] = current[s] /\ made' = made
          \/ made' = made + 1 /\ current'[s] = made + 1
      BY <3>1, Fetched
    <3>3. current'[s] <= made' /\ made <= made' /\ current'[s] \in Int
      BY <1>a, <1>d, <3>2 DEF Fresh
    <3> QED BY <3>1, <3>3, Fetched
  <2>2. \A q \in Procs : target'[q] = current'[s] \/ target'[q] = target[q]
    BY <1>c, <1>1, <2>1, Fetched DEF MoveTo
  <2>3. \A i, j, k \in Int : i <= j /\ j <= k => i <= k
    OBVIOUS
  <2>4. \A e \in Entries : e > made' => e > made
    BY <1>a, <2>1
  <2>5. UNCHANGED entryVars
    BY <1>1 DEF MoveTo
  <2> QED BY <1>a, <1>d, <2>1, <2>2, <2>3, <2>4, <2>5 DEF Fresh
<1>2. ASSUME NEW o \in Observers, NEW s \in States, Enter(o, s) PROVE Fresh'
  <2>1. /\ current'[s] <= made' /\ made <= made' /\ current'[s] \in Int
        /\ \A t \in States : current'[t] = current'[s] \/ current'[t] = current[t]
        /\ \A b \in Actors : at'[b] = current'[s] \/ at'[b] = at[b]
    <3>1. FetchState(o, s)
      BY <1>2 DEF Enter
    <3>2. \/ current'[s] = current[s] /\ made' = made
          \/ made' = made + 1 /\ current'[s] = made + 1
      BY <3>1, Fetched
    <3>3. current'[s] <= made' /\ made <= made' /\ current'[s] \in Int
      BY <1>a, <1>d, <3>2 DEF Fresh
    <3> QED BY <3>1, <3>3, Fetched
  <2>2. \A q \in Procs : target'[q] = current'[s] \/ target'[q] = target[q]
    BY <1>c, <1>2, <2>1, Fetched DEF Enter
  <2>3. \A i, j, k \in Int : i <= j /\ j <= k => i <= k
    OBVIOUS
  <2>4. \A e \in Entries : e > made' => e > made
    BY <1>a, <2>1
  <2>5. UNCHANGED entryVars
    BY <1>2 DEF Enter
  <2> QED BY <1>a, <1>d, <2>1, <2>2, <2>3, <2>4, <2>5 DEF Fresh
<1>3. ASSUME NEW a \in Actors, Cancel(a) PROVE Fresh'
  BY <1>3 DEF Cancel, Fresh
<1>4. ASSUME NEW a \in Actors, Signal(a) PROVE Fresh'
  BY <1>4 DEF Signal, Fresh
<1>5. ASSUME NEW p \in Procs, CancelTake(p) PROVE Fresh'
  <2>1. made' = made /\ at' = at /\ UNCHANGED entryVars
    BY <1>5 DEF CancelTake
  <2>2. /\ \A t \in States : current'[t] = NoEntry \/ current'[t] = current[t]
        /\ \A q \in Procs : target'[q] = target[q] \/ \E t \in States : target'[q] = current[t]
    BY <1>5, Moves DEF Takes, TypeOK
  <2> QED BY <1>b, <2>1, <2>2 DEF Fresh
<1>6. ASSUME NEW p \in Procs, AssignEntered(p) PROVE Fresh'
  <2>1. target[p] <= made /\ target[p] \in Int
    BY <1>d DEF Fresh
  <2>2. \A e \in Entries : e > made => e # target[p]
    BY <1>a, <2>1
  <2> QED BY <1>c, <1>6, <2>2 DEF AssignEntered, Fresh
<1>7. ASSUME NEW p \in Procs, SettleEntered(p) PROVE Fresh'
  <2>1. target[p] <= made /\ target[p] \in Int
    BY <1>d DEF Fresh
  <2>2. \A e \in Entries : e > made => e # target[p]
    BY <1>a, <2>1
  <2>3. \A e \in Entries \ {target[p]} : entered'[e] = entered[e]
    BY <1>c, <1>7, Settled
  <2>4. \A q \in Procs : target'[q] = NoEntry \/ target'[q] = target[q]
    BY <1>c, <1>7 DEF SettleEntered
  <2> QED BY <1>b, <1>7, <2>2, <2>3, <2>4 DEF SettleEntered, Fresh
<1>8. ASSUME NEW p \in Procs, CompleteExited(p) PROVE Fresh'
  <2>1. target[p] <= made /\ target[p] \in Int
    BY <1>d DEF Fresh
  <2>2. \A e \in Entries : e > made => e # target[p]
    BY <1>a, <2>1
  <2>3. \A a \in Actors : at'[a] = NoEntry \/ at'[a] = at[a]
    BY <1>c, <1>8, Over
  <2>4. \A q \in Procs : target'[q] = NoEntry \/ target'[q] = target[q]
    BY <1>c, <1>8 DEF CompleteExited
  <2> QED BY <1>b, <1>c, <1>8, <2>2, <2>3, <2>4 DEF CompleteExited, Fresh
<1>9. ASSUME NEW a \in Actors, AddListener(a) PROVE Fresh'
  BY <1>9 DEF AddListener, Fresh
<1>10. CASE AttachDriver
  <2>1. \A a \in Actors : at'[a] = NoEntry \/ at'[a] = at[a]
    BY <1>c, <1>10 DEF AttachDriver
  <2> QED BY <1>b, <1>10, <2>1 DEF AttachDriver, Fresh
<1>11. ASSUME NEW o \in Observers, AttachObserver(o) PROVE Fresh'
  BY <1>11 DEF AttachObserver, Fresh
<1>12. ASSUME NEW o \in Observers, RunWork(o) PROVE Fresh'
  BY <1>12 DEF RunWork, Fresh
<1>13. ASSUME NEW o \in Observers, WorkReturns(o) PROVE Fresh'
  BY <1>13 DEF WorkReturns, Fresh
<1>14. ASSUME NEW o \in Observers, ExitTake(o) PROVE Fresh'
  <2>1. made' = made /\ UNCHANGED entryVars
    BY <1>14 DEF ExitTake
  <2>2. /\ \A t \in States : current'[t] = NoEntry \/ current'[t] = current[t]
        /\ \A q \in Procs : target'[q] = target[q] \/ \E t \in States : target'[q] = current[t]
    BY <1>14, Moves DEF Takes, TypeOK
  <2>3. \A a \in Actors : at'[a] = NoEntry \/ at'[a] = at[a]
    BY <1>c, <1>14 DEF ExitTake
  <2> QED BY <1>b, <2>1, <2>2, <2>3 DEF Fresh
<1>15. CASE UNCHANGED vars
  BY <1>15 DEF vars, procVars, Fresh
<1> QED
  BY <1>1, <1>2, <1>3, <1>4, <1>5, <1>6, <1>7, <1>8, <1>9, <1>10, <1>11, <1>12, <1>13, <1>14,
     <1>15, Steps

LEMMA OneStateStep == TypeOK /\ Fresh /\ OneStateEach /\ [Next]_vars => OneStateEach'
<1> SUFFICES ASSUME TypeOK, Fresh, OneStateEach, [Next]_vars PROVE OneStateEach'
  OBVIOUS
<1> USE Cancellers DEF TypeOK, Goto, mapVars, entryVars, tokenVars, OneStateEach
<1>1. ASSUME NEW s \in States, MoveTo(s) PROVE OneStateEach'
  BY <1>1, Fetched, FetchedNew DEF MoveTo, New
<1>2. ASSUME NEW o \in Observers, NEW s \in States, Enter(o, s) PROVE OneStateEach'
  BY <1>2, Fetched, FetchedNew DEF Enter, New
<1>3. ASSUME NEW a \in Actors, Cancel(a) PROVE OneStateEach'
  BY <1>3 DEF Cancel
<1>4. ASSUME NEW a \in Actors, Signal(a) PROVE OneStateEach'
  BY <1>4 DEF Signal
<1>5. ASSUME NEW p \in Procs, CancelTake(p) PROVE OneStateEach'
  BY <1>5, Moves DEF CancelTake, Takes
<1>6. ASSUME NEW p \in Procs, AssignEntered(p) PROVE OneStateEach'
  BY <1>6 DEF AssignEntered
<1>7. ASSUME NEW p \in Procs, SettleEntered(p) PROVE OneStateEach'
  BY <1>7 DEF SettleEntered
<1>8. ASSUME NEW p \in Procs, CompleteExited(p) PROVE OneStateEach'
  BY <1>8 DEF CompleteExited
<1>9. ASSUME NEW a \in Actors, AddListener(a) PROVE OneStateEach'
  BY <1>9 DEF AddListener
<1>10. CASE AttachDriver
  BY <1>10 DEF AttachDriver
<1>11. ASSUME NEW o \in Observers, AttachObserver(o) PROVE OneStateEach'
  BY <1>11 DEF AttachObserver
<1>12. ASSUME NEW o \in Observers, RunWork(o) PROVE OneStateEach'
  BY <1>12 DEF RunWork
<1>13. ASSUME NEW o \in Observers, WorkReturns(o) PROVE OneStateEach'
  BY <1>13 DEF WorkReturns
<1>14. ASSUME NEW o \in Observers, ExitTake(o) PROVE OneStateEach'
  <2>1. o \in Procs
    OBVIOUS
  <2>2. Takes(o) \/ UNCHANGED current
    BY <1>14, <2>1, Moves
  <2> QED BY <2>2 DEF Takes
<1>15. CASE UNCHANGED vars
  BY <1>15 DEF vars, procVars
<1> QED
  BY <1>1, <1>2, <1>3, <1>4, <1>5, <1>6, <1>7, <1>8, <1>9, <1>10, <1>11, <1>12, <1>13, <1>14,
     <1>15, Steps

LEMMA OwnedStep == TypeOK /\ TypeOK' /\ Fresh /\ OneStateEach /\ Owned /\ [Next]_vars => Owned'
<1> SUFFICES ASSUME TypeOK, TypeOK', Fresh, OneStateEach, Owned, [Next]_vars PROVE Owned'
  OBVIOUS
<1> USE Cancellers DEF TypeOK, Goto, mapVars, entryVars, tokenVars, OneStateEach, Owned, Holds
<1>1. ASSUME NEW s \in States, MoveTo(s) PROVE Owned'
  BY <1>1, Fetched, FetchedNew DEF MoveTo, New
<1>2. ASSUME NEW o \in Observers, NEW s \in States, Enter(o, s) PROVE Owned'
  BY <1>2, Fetched, FetchedNew DEF Enter, New
<1>3. ASSUME NEW a \in Actors, Cancel(a) PROVE Owned'
  BY <1>3 DEF Cancel
<1>4. ASSUME NEW a \in Actors, Signal(a) PROVE Owned'
  BY <1>4 DEF Signal
<1>5. ASSUME NEW p \in Procs, CancelTake(p) PROVE Owned'
  BY <1>5, Moves DEF CancelTake, Takes
<1>6. ASSUME NEW p \in Procs, AssignEntered(p) PROVE Owned'
  BY <1>6 DEF AssignEntered
<1>7. ASSUME NEW p \in Procs, SettleEntered(p) PROVE Owned'
  <2>1. /\ \A q \in Procs \ {p} : target'[q] = target[q] /\ (Holds(q)' => Holds(q))
        /\ ~Holds(p)'
    <3>1. \A q \in Procs \ {p} : target'[q] = target[q]
      BY <1>7 DEF SettleEntered
    <3>2. \A q \in Procs \ {p} : pc'[q] = pc[q] \/ pc'[q] \in {"queued", "refused"}
      BY <1>7, Settled
    <3>3. pc'[p] \in {"threw", "listen", "attach", "done"}
      BY <1>7, Settled DEF AfterListener
    <3> QED BY <3>1, <3>2, <3>3
  <2>2. UNCHANGED current
    BY <1>7 DEF SettleEntered
  <2> QED BY <2>1, <2>2
<1>8. ASSUME NEW p \in Procs, CompleteExited(p) PROVE Owned'
  BY <1>8, Over DEF CompleteExited, AfterListener
<1>9. ASSUME NEW a \in Actors, AddListener(a) PROVE Owned'
  BY <1>9 DEF AddListener
<1>10. CASE AttachDriver
  BY <1>10 DEF AttachDriver
<1>11. ASSUME NEW o \in Observers, AttachObserver(o) PROVE Owned'
  BY <1>11 DEF AttachObserver, Admit
<1>12. ASSUME NEW o \in Observers, RunWork(o) PROVE Owned'
  BY <1>12 DEF RunWork
<1>13. ASSUME NEW o \in Observers, WorkReturns(o) PROVE Owned'
  BY <1>13 DEF WorkReturns
<1>14. ASSUME NEW o \in Observers, ExitTake(o) PROVE Owned'
  <2>1. o \in Procs
    OBVIOUS
  <2>2. /\ \A q \in Procs \ {o} : pc'[q] = pc[q]
        /\ \/ Takes(o) /\ pc'[o] \in {"complete", "assign"}
           \/ UNCHANGED <<current, target>> /\ pc'[o] \in {"attach", "done", "idle"}
    BY <1>14, <2>1, Moves
  <2> QED BY <2>1, <2>2 DEF Takes
<1>15. CASE UNCHANGED vars
  BY <1>15 DEF vars, procVars
<1> QED
  BY <1>1, <1>2, <1>3, <1>4, <1>5, <1>6, <1>7, <1>8, <1>9, <1>10, <1>11, <1>12, <1>13, <1>14,
     <1>15, Steps

LEMMA NotExitedStep == TypeOK /\ TypeOK' /\ Owned /\ MapIsOpen /\ NotExitedYet /\ [Next]_vars =>
                         NotExitedYet'
<1> SUFFICES ASSUME TypeOK, TypeOK', Owned, MapIsOpen, NotExitedYet, [Next]_vars PROVE NotExitedYet'
  OBVIOUS
<1> USE Cancellers DEF TypeOK, Goto, mapVars, entryVars, tokenVars, NotExitedYet
<1>1. ASSUME NEW s \in States, MoveTo(s) PROVE NotExitedYet'
  BY <1>1, Fetched DEF MoveTo
<1>2. ASSUME NEW o \in Observers, NEW s \in States, Enter(o, s) PROVE NotExitedYet'
  BY <1>2, Fetched DEF Enter
<1>3. ASSUME NEW a \in Actors, Cancel(a) PROVE NotExitedYet'
  BY <1>3 DEF Cancel
<1>4. ASSUME NEW a \in Actors, Signal(a) PROVE NotExitedYet'
  BY <1>4 DEF Signal
<1>5. ASSUME NEW p \in Procs, CancelTake(p) PROVE NotExitedYet'
  <2>1. /\ \A q \in Procs \ {p} : pc'[q] = pc[q]
        /\ \/ Takes(p) /\ pc'[p] \in {"complete", "assign"}
           \/ UNCHANGED <<current, target>> /\ pc'[p] \in {"attach", "done", "idle"}
    BY <1>5, Moves
  <2> QED BY <1>5, <2>1 DEF CancelTake, Takes, MapIsOpen, IsOpen
<1>6. ASSUME NEW p \in Procs, AssignEntered(p) PROVE NotExitedYet'
  BY <1>6 DEF AssignEntered
<1>7. ASSUME NEW p \in Procs, SettleEntered(p) PROVE NotExitedYet'
  BY <1>7, SettledFor
<1>8. ASSUME NEW p \in Procs, CompleteExited(p) PROVE NotExitedYet'
  <2>1. exited' = [exited EXCEPT ![target[p]] = TRUE] /\ UNCHANGED <<mapVars, verdict, entered>>
    BY <1>8 DEF CompleteExited
  <2>2. \A q \in Procs \ {p} : target'[q] = target[q]
    BY <1>8 DEF CompleteExited
  <2>3. pc'[p] # "complete" /\ \A q \in Procs \ {p} : pc'[q] = pc[q] \/ pc'[q] = "idle"
    BY <1>8, Over DEF AfterListener
  <2> QED BY <1>8, <2>1, <2>2, <2>3 DEF Owned, Holds, CompleteExited
<1>9. ASSUME NEW a \in Actors, AddListener(a) PROVE NotExitedYet'
  BY <1>9 DEF AddListener
<1>10. CASE AttachDriver
  BY <1>10 DEF AttachDriver
<1>11. ASSUME NEW o \in Observers, AttachObserver(o) PROVE NotExitedYet'
  BY <1>11 DEF AttachObserver, Admit
<1>12. ASSUME NEW o \in Observers, RunWork(o) PROVE NotExitedYet'
  BY <1>12 DEF RunWork
<1>13. ASSUME NEW o \in Observers, WorkReturns(o) PROVE NotExitedYet'
  BY <1>13 DEF WorkReturns
<1>14. ASSUME NEW o \in Observers, ExitTake(o) PROVE NotExitedYet'
  <2>1. /\ \A q \in Procs \ {o} : pc'[q] = pc[q]
        /\ \/ Takes(o) /\ pc'[o] \in {"complete", "assign"}
           \/ UNCHANGED <<current, target>> /\ pc'[o] \in {"attach", "done", "idle"}
    BY <1>14, Moves
  <2> QED BY <1>14, <2>1 DEF ExitTake, Takes, MapIsOpen, IsOpen
<1>15. CASE UNCHANGED vars
  BY <1>15 DEF vars, procVars
<1> QED
  BY <1>1, <1>2, <1>3, <1>4, <1>5, <1>6, <1>7, <1>8, <1>9, <1>10, <1>11, <1>12, <1>13, <1>14,
     <1>15, Steps

LEMMA MapStep == TypeOK /\ TypeOK' /\ Fresh /\ Owned /\ DriversEntry /\ MapIsOpen
                   /\ [Next]_vars => MapIsOpen'
<1> SUFFICES ASSUME TypeOK, TypeOK', Fresh, Owned, DriversEntry, MapIsOpen,
                      [Next]_vars PROVE MapIsOpen'
  OBVIOUS
<1> USE Cancellers DEF TypeOK, Goto, mapVars, entryVars, tokenVars, MapIsOpen, IsOpen, DriversEntry
<1>1. ASSUME NEW s \in States, MoveTo(s) PROVE MapIsOpen'
  BY <1>1, Fetched, FetchedNew DEF MoveTo, New
<1>2. ASSUME NEW o \in Observers, NEW s \in States, Enter(o, s) PROVE MapIsOpen'
  BY <1>2, Fetched, FetchedNew DEF Enter, New
<1>3. ASSUME NEW a \in Actors, Cancel(a) PROVE MapIsOpen'
  BY <1>3 DEF Cancel
<1>4. ASSUME NEW a \in Actors, Signal(a) PROVE MapIsOpen'
  BY <1>4 DEF Signal
<1>5. ASSUME NEW p \in Procs, CancelTake(p) PROVE MapIsOpen'
  <2>1. /\ \A q \in Procs \ {p} : pc'[q] = pc[q]
        /\ \/ Takes(p) /\ pc'[p] \in {"complete", "assign"}
           \/ UNCHANGED <<current, target>> /\ pc'[p] \in {"attach", "done", "idle"}
    BY <1>5, Moves
  <2> QED BY <1>5, <2>1 DEF CancelTake, Takes
<1>6. ASSUME NEW p \in Procs, AssignEntered(p) PROVE MapIsOpen'
  BY <1>6 DEF AssignEntered, Owned, Holds
<1>7. ASSUME NEW p \in Procs, SettleEntered(p) PROVE MapIsOpen'
  <2>1. \A t \in States : current[t] = target[p] /\ current[t] # NoEntry => p = driver
    BY <1>7 DEF SettleEntered, Owned, Holds
  <2>2. pc[p] = "settle" /\ (p = driver => target[p] = at[driver])
    BY <1>7 DEF SettleEntered
  <2>3. /\ UNCHANGED <<mapVars, verdict, exited, at>>
        /\ \A e \in Entries \ {target[p]} : entered'[e] = entered[e]
    BY <1>7, SettledFor
  <2>4. pc[driver] = "threw" => pc'[driver] = "threw"
    BY <1>7, <2>2, SettledFor
  <2> QED BY <2>1, <2>2, <2>3, <2>4
<1>8. ASSUME NEW p \in Procs, CompleteExited(p) PROVE MapIsOpen'
  BY <1>8, Over DEF CompleteExited, Owned, Holds
<1>9. ASSUME NEW a \in Actors, AddListener(a) PROVE MapIsOpen'
  BY <1>9 DEF AddListener
<1>10. CASE AttachDriver
  BY <1>10 DEF AttachDriver
<1>11. ASSUME NEW o \in Observers, AttachObserver(o) PROVE MapIsOpen'
  BY <1>11 DEF AttachObserver, Admit
<1>12. ASSUME NEW o \in Observers, RunWork(o) PROVE MapIsOpen'
  BY <1>12 DEF RunWork
<1>13. ASSUME NEW o \in Observers, WorkReturns(o) PROVE MapIsOpen'
  BY <1>13 DEF WorkReturns
<1>14. ASSUME NEW o \in Observers, ExitTake(o) PROVE MapIsOpen'
  <2>1. /\ \A q \in Procs \ {o} : pc'[q] = pc[q]
        /\ \/ Takes(o) /\ pc'[o] \in {"complete", "assign"}
           \/ UNCHANGED <<current, target>> /\ pc'[o] \in {"attach", "done", "idle"}
    BY <1>14, Moves
  <2> QED BY <1>14, <2>1 DEF ExitTake, Takes
<1>15. CASE UNCHANGED vars
  BY <1>15 DEF vars, procVars
<1> QED
  BY <1>1, <1>2, <1>3, <1>4, <1>5, <1>6, <1>7, <1>8, <1>9, <1>10, <1>11, <1>12, <1>13, <1>14,
     <1>15, Steps

LEMMA DriversEntryStep == TypeOK /\ TypeOK' /\ DriversEntry /\ [Next]_vars => DriversEntry'
<1> SUFFICES ASSUME TypeOK, TypeOK', DriversEntry, [Next]_vars PROVE DriversEntry'
  OBVIOUS
<1> USE Cancellers DEF TypeOK, Goto, mapVars, entryVars, tokenVars, DriversEntry
<1>1. ASSUME NEW s \in States, MoveTo(s) PROVE DriversEntry'
  BY <1>1, Fetched DEF MoveTo
<1>2. ASSUME NEW o \in Observers, NEW s \in States, Enter(o, s) PROVE DriversEntry'
  BY <1>2, Fetched DEF Enter
<1>3. ASSUME NEW a \in Actors, Cancel(a) PROVE DriversEntry'
  BY <1>3 DEF Cancel
<1>4. ASSUME NEW a \in Actors, Signal(a) PROVE DriversEntry'
  BY <1>4 DEF Signal
<1>5. ASSUME NEW p \in Procs, CancelTake(p) PROVE DriversEntry'
  BY <1>5, Taken DEF CancelTake, AfterListener
<1>6. ASSUME NEW p \in Procs, AssignEntered(p) PROVE DriversEntry'
  BY <1>6 DEF AssignEntered
<1>7. ASSUME NEW p \in Procs, SettleEntered(p) PROVE DriversEntry'
  BY <1>7, SettledFor
<1>8. ASSUME NEW p \in Procs, CompleteExited(p) PROVE DriversEntry'
  BY <1>8, Over DEF CompleteExited, AfterListener
<1>9. ASSUME NEW a \in Actors, AddListener(a) PROVE DriversEntry'
  BY <1>9 DEF AddListener
<1>10. CASE AttachDriver
  BY <1>10 DEF AttachDriver
<1>11. ASSUME NEW o \in Observers, AttachObserver(o) PROVE DriversEntry'
  BY <1>11 DEF AttachObserver, Admit
<1>12. ASSUME NEW o \in Observers, RunWork(o) PROVE DriversEntry'
  BY <1>12 DEF RunWork
<1>13. ASSUME NEW o \in Observers, WorkReturns(o) PROVE DriversEntry'
  BY <1>13 DEF WorkReturns
<1>14. ASSUME NEW o \in Observers, ExitTake(o) PROVE DriversEntry'
  <2>1. /\ \A q \in Procs \ {o} : pc'[q] = pc[q]
        /\ \/ Takes(o) /\ pc'[o] \in {"complete", "assign"}
           \/ UNCHANGED <<current, target>> /\ pc'[o] \in {"attach", "done", "idle"}
    BY <1>14, Moves
  <2> QED BY <1>14, <2>1 DEF ExitTake, Takes
<1>15. CASE UNCHANGED vars
  BY <1>15 DEF vars, procVars
<1> QED
  BY <1>1, <1>2, <1>3, <1>4, <1>5, <1>6, <1>7, <1>8, <1>9, <1>10, <1>11, <1>12, <1>13, <1>14,
     <1>15, Steps

LEMMA CancelsStep == TypeOK /\ TypeOK' /\ CancelsAsAsked /\ [Next]_vars => CancelsAsAsked'
<1> SUFFICES ASSUME TypeOK, TypeOK', CancelsAsAsked, [Next]_vars PROVE CancelsAsAsked'
  OBVIOUS
<1> USE Cancellers DEF TypeOK, Goto, mapVars, entryVars, tokenVars, CancelsAsAsked
<1>1. ASSUME NEW s \in States, MoveTo(s) PROVE CancelsAsAsked'
  BY <1>1 DEF MoveTo
<1>2. ASSUME NEW o \in Observers, NEW s \in States, Enter(o, s) PROVE CancelsAsAsked'
  BY <1>2 DEF Enter
<1>3. ASSUME NEW a \in Actors, Cancel(a) PROVE CancelsAsAsked'
  BY <1>3 DEF Cancel
<1>4. ASSUME NEW a \in Actors, Signal(a) PROVE CancelsAsAsked'
  BY <1>4 DEF Signal
<1>5. ASSUME NEW p \in Procs, CancelTake(p) PROVE CancelsAsAsked'
  <2>1. /\ \A q \in Procs \ {p} : pc'[q] = pc[q]
        /\ \/ Takes(p) /\ pc'[p] \in {"complete", "assign"}
           \/ UNCHANGED <<current, target>> /\ pc'[p] \in {"attach", "done", "idle"}
    BY <1>5, Moves
  <2> QED BY <1>5, <2>1 DEF CancelTake, Takes
<1>6. ASSUME NEW p \in Procs, AssignEntered(p) PROVE CancelsAsAsked'
  BY <1>6 DEF AssignEntered
<1>7. ASSUME NEW p \in Procs, SettleEntered(p) PROVE CancelsAsAsked'
  BY <1>7, SettledFor
<1>8. ASSUME NEW p \in Procs, CompleteExited(p) PROVE CancelsAsAsked'
  BY <1>8, Over DEF CompleteExited
<1>9. ASSUME NEW a \in Actors, AddListener(a) PROVE CancelsAsAsked'
  BY <1>9 DEF AddListener
<1>10. CASE AttachDriver
  BY <1>10 DEF AttachDriver
<1>11. ASSUME NEW o \in Observers, AttachObserver(o) PROVE CancelsAsAsked'
  BY <1>11 DEF AttachObserver, Admit
<1>12. ASSUME NEW o \in Observers, RunWork(o) PROVE CancelsAsAsked'
  BY <1>12 DEF RunWork
<1>13. ASSUME NEW o \in Observers, WorkReturns(o) PROVE CancelsAsAsked'
  BY <1>13 DEF WorkReturns
<1>14. ASSUME NEW o \in Observers, ExitTake(o) PROVE CancelsAsAsked'
  <2>1. /\ \A q \in Procs \ {o} : pc'[q] = pc[q]
        /\ \/ Takes(o) /\ pc'[o] \in {"complete", "assign"}
           \/ UNCHANGED <<current, target>> /\ pc'[o] \in {"attach", "done", "idle"}
    BY <1>14, Moves
  <2> QED BY <1>14, <2>1 DEF ExitTake, Takes
<1>15. CASE UNCHANGED vars
  BY <1>15 DEF vars, procVars
<1> QED
  BY <1>1, <1>2, <1>3, <1>4, <1>5, <1>6, <1>7, <1>8, <1>9, <1>10, <1>11, <1>12, <1>13, <1>14,
     <1>15, Steps

-----------------------------------------------------------------------------
(* Until something is cancelled, only these steps are left. *)
Quiet == requested = {} /\ IInv

LEMMA QuietSteps ==
  ASSUME Quiet, [Next]_vars, requested' = {}
  PROVE  \/ \E s \in States : MoveTo(s)
         \/ \E o \in Observers : \E s \in States : Enter(o, s)
         \/ AssignEntered(driver) \/ SettleEntered(driver) \/ AttachDriver
         \/ \E a \in Actors : AddListener(a)
         \/ \E o \in Observers :
              CompleteExited(o) \/ AttachObserver(o) \/ RunWork(o) \/ WorkReturns(o) \/ ExitTake(o)
         \/ UNCHANGED vars
<1>1. \A p \in Procs : p \in Observers \/ p = driver \/ pc[p] = "idle"
  BY Cancellers DEF Quiet, IInv, CancelsAsAsked
<1>2. ASSUME NEW a \in Actors PROVE ~Cancel(a) /\ ~Signal(a)
  BY Cancellers DEF Quiet, IInv, CancelsAsAsked, Cancel, Signal
<1>3. ASSUME NEW p \in Procs PROVE ~CancelTake(p)
  BY <1>1 DEF Quiet, IInv, Undisturbed, NobodyTakes, CancelTake
<1>4. ASSUME NEW p \in Procs, AssignEntered(p) \/ SettleEntered(p) PROVE p = driver
  BY <1>1, <1>4 DEF Quiet, IInv, Undisturbed, NobodyTakes, AssignEntered, SettleEntered
<1>5. ASSUME NEW p \in Procs, CompleteExited(p) PROVE p \in Observers
  BY <1>1, <1>5 DEF Quiet, IInv, Undisturbed, NobodyTakes, CompleteExited
<1> QED BY <1>2, <1>3, <1>4, <1>5, Steps

LEMMA NobodyTakesStep ==
  ASSUME Quiet, TypeOK', [Next]_vars, requested' = {}
  PROVE  NobodyTakes'
<1> USE Cancellers DEF Quiet, IInv, Undisturbed, TypeOK, Goto, mapVars, entryVars, tokenVars,
          NobodyTakes
<1>1. ASSUME NEW s \in States, MoveTo(s) PROVE NobodyTakes'
  <2>1. at'[driver] = current'[s] /\ UNCHANGED <<entered, requested>> /\ at[driver] = NoEntry
    BY <1>1, Fetched DEF MoveTo, DriversEntry
  <2>2. FetchState(driver, s) /\ current'[s] # NoEntry
    BY <1>1, Fetched DEF MoveTo
  <2>3. current'[s] = current[s] \/ New(current'[s])
    BY <2>2, FetchedNew
  <2>4. current'[s] = current[s] => ~entered[current'[s]]
    BY <1>1, <2>1, <2>2 DEF MoveTo, MapIsOpen, IsOpen
  <2> QED BY <1>1, <2>1, <2>3, <2>4 DEF MoveTo, New
<1>2. ASSUME NEW o \in Observers, NEW s \in States, Enter(o, s) PROVE NobodyTakes'
  BY <1>2, Fetched DEF Enter
<1>3. CASE AssignEntered(driver)
  BY <1>3 DEF AssignEntered
<1>4. CASE SettleEntered(driver)
  BY <1>4, SettledFor DEF DriversEntry
<1>5. ASSUME NEW o \in Observers, CompleteExited(o) PROVE NobodyTakes'
  BY <1>5, Over DEF CompleteExited
<1>6. ASSUME NEW a \in Actors, AddListener(a) PROVE NobodyTakes'
  BY <1>6 DEF AddListener
<1>7. CASE AttachDriver
  BY <1>7 DEF AttachDriver
<1>8. ASSUME NEW o \in Observers, AttachObserver(o) PROVE NobodyTakes'
  BY <1>8 DEF AttachObserver, Admit
<1>9. ASSUME NEW o \in Observers, RunWork(o) PROVE NobodyTakes'
  BY <1>9 DEF RunWork
<1>10. ASSUME NEW o \in Observers, WorkReturns(o) PROVE NobodyTakes'
  BY <1>10 DEF WorkReturns
<1>11. ASSUME NEW o \in Observers, ExitTake(o) PROVE NobodyTakes'
  BY <1>11, Left DEF ExitTake
<1>12. CASE UNCHANGED vars
  BY <1>12 DEF vars, procVars
<1> QED
  BY <1>1, <1>2, <1>3, <1>4, <1>5, <1>6, <1>7, <1>8, <1>9, <1>10, <1>11, <1>12, QuietSteps

LEMMA OwnEntriesStep ==
  ASSUME Quiet, TypeOK', [Next]_vars, requested' = {}
  PROVE  OwnEntries'
<1> USE Cancellers DEF Quiet, IInv, Undisturbed, TypeOK, Goto, mapVars, entryVars, tokenVars,
          OwnEntries, Stays, InCall
<1>1. ASSUME NEW s \in States, MoveTo(s) PROVE OwnEntries'
  BY <1>1, Fetched DEF MoveTo
<1>2. ASSUME NEW o \in Observers, NEW s \in States, Enter(o, s) PROVE OwnEntries'
  <2>1. /\ at'[o] = current'[s] /\ current'[s] \in Entries \ {NoEntry}
        /\ where'[o] = s
        /\ \A t \in States \ {s} : current'[t] = current[t]
        /\ \A q \in Observers \ {o} : at'[q] = at[q] /\ where'[q] = where[q]
    BY <1>2, Fetched DEF Enter
  <2>2. /\ pending' = [pending EXCEPT ![current'[s]] = TRUE] /\ ~Stays(o)
        /\ \A q \in Observers \ {o} : Stays(q)' <=> Stays(q)
        /\ current[s] # NoEntry => ~pending[current[s]]
    BY <1>2, <2>1 DEF Enter
  <2>3. \/ current'[s] = current[s]
        \/ current[s] = NoEntry /\ New(current'[s])
    BY <1>2, FetchedNew DEF Enter
  <2>4. \A q \in Observers \ {o} : Stays(q) =>
          at[q] # current'[s] /\ current'[where[q]] = at[q] /\ at[q] \in Entries
    BY <2>1, <2>2, <2>3 DEF New
  <2> HIDE DEF Stays
  <2> QED BY <2>1, <2>2, <2>4
<1>3. CASE AssignEntered(driver)
  BY <1>3 DEF AssignEntered
<1>4. CASE SettleEntered(driver)
  BY <1>4, SettledFor
<1>5. ASSUME NEW o \in Observers, CompleteExited(o) PROVE OwnEntries'
  BY <1>5, Over DEF CompleteExited
<1>6. ASSUME NEW a \in Actors, AddListener(a) PROVE OwnEntries'
  BY <1>6 DEF AddListener
<1>7. CASE AttachDriver
  BY <1>7 DEF AttachDriver
<1>8. ASSUME NEW o \in Observers, AttachObserver(o) PROVE OwnEntries'
  BY <1>8 DEF AttachObserver, Admit
<1>9. ASSUME NEW o \in Observers, RunWork(o) PROVE OwnEntries'
  BY <1>9 DEF RunWork
<1>10. ASSUME NEW o \in Observers, WorkReturns(o) PROVE OwnEntries'
  BY <1>10 DEF WorkReturns
<1>11. ASSUME NEW o \in Observers, ExitTake(o) PROVE OwnEntries'
  <2>1. /\ \A q \in Procs \ {o} : pc'[q] = pc[q]
        /\ UNCHANGED <<made, pending, entryVars, tokenVars, where>>
        /\ \/ Takes(o) /\ pc'[o] \in {"complete", "assign"}
           \/ UNCHANGED <<current, target>> /\ pc'[o] \in {"attach", "done", "idle"}
    BY <1>11, Moves
  <2> QED BY <1>11, <2>1 DEF ExitTake, Takes
<1>12. CASE UNCHANGED vars
  BY <1>12 DEF vars, procVars
<1> QED
  BY <1>1, <1>2, <1>3, <1>4, <1>5, <1>6, <1>7, <1>8, <1>9, <1>10, <1>11, <1>12, QuietSteps

LEMMA WorkStep ==
  ASSUME Quiet, TypeOK', [Next]_vars, requested' = {}
  PROVE  WorkIsTheMoves'
<1> USE Cancellers DEF Quiet, IInv, Undisturbed, TypeOK, Goto, mapVars, entryVars, tokenVars,
          WorkIsTheMoves, Admitted
<1>1. ASSUME NEW s \in States, MoveTo(s) PROVE WorkIsTheMoves'
  BY <1>1, Fetched DEF MoveTo
<1>2. ASSUME NEW o \in Observers, NEW s \in States, Enter(o, s) PROVE WorkIsTheMoves'
  BY <1>2, Fetched DEF Enter
<1>3. CASE AssignEntered(driver)
  BY <1>3 DEF AssignEntered
<1>4. CASE SettleEntered(driver)
  BY <1>4, SettledFor DEF DriversEntry, NobodyTakes
<1>5. ASSUME NEW o \in Observers, CompleteExited(o) PROVE WorkIsTheMoves'
  <2>1. \A q \in Observers : Admitted(q) => at[driver] # target[o]
    <3>1. \A q \in Observers : Admitted(q) =>
            at[driver] = current[where[q]] /\ where[q] \in States
      BY DEF OwnEntries, Stays, InCall
    <3>2. \A t \in States : current[t] # target[o]
      BY <1>5 DEF CompleteExited, Owned, Holds
    <3> QED BY <3>1, <3>2
  <2>2. pc'[o] = "idle" /\ \A q \in Observers \ {o} : pc'[q] = pc[q]
    BY <1>5, Over
  <2>3. at[driver] # target[o] => at' = at /\ \A q \in Procs \ {o} : pc'[q] = pc[q]
    BY <1>5, Over
  <2>4. CASE at[driver] # target[o]
    BY <2>2, <2>3, <2>4
  <2>5. CASE at[driver] = target[o]
    BY <2>1, <2>2, <2>5
  <2> QED BY <2>4, <2>5
<1>6. ASSUME NEW a \in Actors, AddListener(a) PROVE WorkIsTheMoves'
  BY <1>6 DEF AddListener
<1>7. CASE AttachDriver
  BY <1>7 DEF AttachDriver, MapIsOpen, IsOpen, OwnEntries, Stays, InCall
<1>8. ASSUME NEW o \in Observers, AttachObserver(o) PROVE WorkIsTheMoves'
  <2>1. CASE entered[at[o]]
    <3>1. current[where[o]] = at[o] /\ at[o] # NoEntry /\ where[o] \in States
      BY <1>8 DEF AttachObserver, OwnEntries, Stays, InCall
    <3>2. at[driver] = at[o]
      BY <2>1, <3>1 DEF MapIsOpen, IsOpen, NobodyTakes
    <3>3. pc[driver] \in {"listen", "attach", "waiting"}
      BY <2>1, <3>1, <3>2 DEF DriversEntry, NobodyTakes
    <3> QED BY <1>8, <2>1, <3>2, <3>3 DEF AttachObserver, Admit
  <2>2. CASE ~entered[at[o]]
    BY <1>8, <2>2 DEF AttachObserver
  <2> QED BY <2>1, <2>2
<1>9. ASSUME NEW o \in Observers, RunWork(o) PROVE WorkIsTheMoves'
  BY <1>9 DEF RunWork
<1>10. ASSUME NEW o \in Observers, WorkReturns(o) PROVE WorkIsTheMoves'
  BY <1>10 DEF WorkReturns
<1>11. ASSUME NEW o \in Observers, ExitTake(o) PROVE WorkIsTheMoves'
  <2>1. /\ \A q \in Procs \ {o} : pc'[q] = pc[q]
        /\ UNCHANGED <<made, pending, entryVars, tokenVars, where>>
        /\ \/ Takes(o) /\ pc'[o] \in {"complete", "assign"}
           \/ UNCHANGED <<current, target>> /\ pc'[o] \in {"attach", "done", "idle"}
    BY <1>11, Moves
  <2> QED BY <1>11, <2>1 DEF ExitTake, Takes
<1>12. CASE UNCHANGED vars
  BY <1>12 DEF vars, procVars
<1> QED
  BY <1>1, <1>2, <1>3, <1>4, <1>5, <1>6, <1>7, <1>8, <1>9, <1>10, <1>11, <1>12, QuietSteps

LEMMA MoveStep ==
  ASSUME Quiet, TypeOK', [Next]_vars, requested' = {}
  PROVE  MoveIsFound'
<1> USE Cancellers DEF Quiet, IInv, Undisturbed, TypeOK, Goto, mapVars, entryVars, tokenVars,
          MoveIsFound
<1>1. ASSUME NEW s \in States, MoveTo(s) PROVE MoveIsFound'
  <2>1. /\ FetchState(driver, s) /\ UNCHANGED exited
        /\ pc' = [pc EXCEPT ![driver] = "assign"]
    BY <1>1 DEF MoveTo
  <2> QED BY <2>1, Fetched
<1>2. ASSUME NEW o \in Observers, NEW s \in States, Enter(o, s) PROVE MoveIsFound'
  <2>1. /\ at'[driver] = at[driver] /\ where'[driver] = where[driver] /\ pc'[driver] = pc[driver]
        /\ UNCHANGED <<exited, target>>
        /\ \A q \in Observers : pc[q] = "complete" => pc'[q] = "complete"
    BY <1>2, Fetched DEF Enter
  <2>2. \A t \in States : current[t] # NoEntry => current'[t] = current[t]
    BY <1>2, Fetched DEF Enter
  <2>3. pc[driver] # "idle" => at[driver] # NoEntry
    BY DEF DriversEntry
  <2> QED BY <2>1, <2>2, <2>3
<1>3. CASE AssignEntered(driver)
  BY <1>3 DEF AssignEntered
<1>4. CASE SettleEntered(driver)
  BY <1>4, SettledFor DEF DriversEntry, NobodyTakes
<1>5. ASSUME NEW o \in Observers, CompleteExited(o) PROVE MoveIsFound'
  BY <1>5, Over DEF CompleteExited
<1>6. ASSUME NEW a \in Actors, AddListener(a) PROVE MoveIsFound'
  BY <1>6 DEF AddListener
<1>7. CASE AttachDriver
  BY <1>7 DEF AttachDriver
<1>8. ASSUME NEW o \in Observers, AttachObserver(o) PROVE MoveIsFound'
  BY <1>8 DEF AttachObserver, Admit
<1>9. ASSUME NEW o \in Observers, RunWork(o) PROVE MoveIsFound'
  BY <1>9 DEF RunWork
<1>10. ASSUME NEW o \in Observers, WorkReturns(o) PROVE MoveIsFound'
  BY <1>10 DEF WorkReturns
<1>11. ASSUME NEW o \in Observers, ExitTake(o) PROVE MoveIsFound'
  <2>1. /\ \A q \in Procs \ {o} : pc'[q] = pc[q]
        /\ UNCHANGED <<made, pending, entryVars, tokenVars, where>>
        /\ \/ Takes(o) /\ pc'[o] \in {"complete", "assign"}
           \/ UNCHANGED <<current, target>> /\ pc'[o] \in {"attach", "done", "idle"}
    BY <1>11, Moves
  <2> QED BY <1>11, <2>1 DEF ExitTake, Takes
<1>12. CASE UNCHANGED vars
  BY <1>12 DEF vars, procVars
<1> QED
  BY <1>1, <1>2, <1>3, <1>4, <1>5, <1>6, <1>7, <1>8, <1>9, <1>10, <1>11, <1>12, QuietSteps

LEMMA UndisturbedStep == IInv /\ TypeOK' /\ [Next]_vars => Undisturbed'
<1> SUFFICES ASSUME IInv, TypeOK', [Next]_vars, requested' = {} PROVE Undisturbed'
  BY DEF Undisturbed
<1>1. requested \subseteq requested'
  <2>1. \A p \in Procs : CompleteExited(p) => UNCHANGED requested
    BY DEF CompleteExited
  <2>2. \A p \in Procs : SettleEntered(p) => UNCHANGED requested
    BY DEF SettleEntered
  <2> QED BY <2>1, <2>2, Steps
          DEF MoveTo, Enter, Cancel, Signal, AddListener, CancelTake, AssignEntered, AttachDriver,
              AttachObserver, RunWork, WorkReturns, ExitTake, vars, tokenVars
<1>2. Quiet
  BY <1>1 DEF Quiet
<1> QED BY <1>2, NobodyTakesStep, OwnEntriesStep, WorkStep, MoveStep DEF Undisturbed

-----------------------------------------------------------------------------
LEMMA Invariant == Spec => []IInv
<1>1. IInv /\ [Next]_vars => IInv'
  <2> SUFFICES ASSUME IInv, [Next]_vars PROVE IInv'
    OBVIOUS
  <2>1. TypeOK'
    BY TypeStep DEF IInv
  <2> QED BY <2>1, FreshStep, OneStateStep, OwnedStep, NotExitedStep, MapStep, DriversEntryStep,
             CancelsStep, UndisturbedStep DEF IInv
<1> QED BY <1>1, InitInv, PTL DEF Spec

(* The variables have their types in every reachable state. *)
THEOREM TypeCorrect == Spec => []TypeOK
<1>1. IInv => TypeOK
  BY DEF IInv
<1> QED BY <1>1, Invariant, PTL

(* StateExited is completed by one of exit and cancel_exit, once: whoever  *)
(* took the entry out of the map.                                          *)
THEOREM OneCompletes == Spec => []OneCompleter
<1>1. IInv => OneCompleter
  BY DEF IInv, OneCompleter, NotExitedYet, Owned, Holds
<1> QED BY <1>1, Invariant, PTL

(* fetch_state never returns an entry that is over, and until something is *)
(* cancelled the entry of everybody who waits is in the map or about to be *)
(* completed.                                                              *)
THEOREM OpenInTheMap == Spec => []MapHoldsOpen
<1>1. IInv => MapHoldsOpen
  <2> SUFFICES ASSUME IInv PROVE MapHoldsOpen
    OBVIOUS
  <2>1. requested = {} => \A o \in Observers : InCall(o) => Findable(o)
    BY DEF IInv, Undisturbed, OwnEntries, Stays, Findable
  <2>2. requested = {} /\ pc[driver] = "waiting" => Findable(driver)
    BY Cancellers DEF IInv, Undisturbed, MoveIsFound, Findable
  <2> QED BY <2>1, <2>2 DEF IInv, MapIsOpen, MapHoldsOpen
<1> QED BY <1>1, Invariant, PTL

(* Until something is cancelled, work is done only in the state the driver *)
(* is in and stays in.                                                     *)
THEOREM OneStateAtATime == Spec => []ExclusiveUntilCancelled
<1>1. IInv => ExclusiveUntilCancelled
  BY DEF IInv, Undisturbed, WorkIsTheMoves, Admitted, Working, ExclusiveUntilCancelled
<1> QED BY <1>1, Invariant, PTL
=============================================================================
