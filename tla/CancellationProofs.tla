------------------------- MODULE CancellationProofs -------------------------
(***************************************************************************)
(* Proofs about Cancellation for every set of threads and of listeners.    *)
(* The argument rests on IInv: only the thread whose exchange found FALSE  *)
(* ever has a copy of the listeners, the copy holds listeners nobody has   *)
(* called, and a listener on the late path is in no copy.                  *)
(***************************************************************************)
EXTENDS Cancellation, TLAPS

USE CancellationAssumption

-----------------------------------------------------------------------------
(* The inductive invariant, in named parts. *)
Signalling(t) == pc[t] \in {"signal", "notify", "callback"}

\* One canceller only, on the right side of the flags, and alone to have a copy.
OneSignaller ==
    /\ signaled => requested
    /\ \A t \in Threads : Signalling(t) => requested
    /\ \A t \in Threads : pc[t] = "signal" => ~signaled
    /\ \A t \in Threads : pc[t] \in {"notify", "callback"} => signaled
    /\ \A t \in Threads : todo[t] # {} => pc[t] \in {"notify", "callback"}
    /\ \A t, u \in Threads : Signalling(t) /\ Signalling(u) => t = u

\* A thread on the late path owns its listener and is the one to call it.
LateOwnsListener ==
    /\ \A t \in Threads : pc[t] \in {"late", "lateCallback"} =>
         signaled /\ current[t] \in Listeners /\ ticket[current[t]] = "adding"
    /\ \A t \in Threads : pc[t] = "late" => calls[current[t]] = 0
    /\ \A t, u \in {v \in Threads : pc[v] \in {"late", "lateCallback"}} :
         current[t] = current[u] => t = u

\* The copy holds listeners with a ticket that nobody has called yet.
TodoIsFresh ==
    \A t \in Threads : \A l \in todo[t] :
        calls[l] = 0 /\ ticket[l] \in {"held", "destroyed"}

QuietBeforeSignal ==
    /\ ~signaled => \A l \in Listeners : calls[l] = 0 /\ ticket[l] # "adding"
    /\ \A l \in Listeners : ticket[l] = "none" => calls[l] = 0

\* Numbers are drawn once each, and the late ones come last.
IdsInOrder ==
    /\ \A l \in Listeners : ticket[l] # "none" => id[l] < seed
    /\ \A l, m \in Listeners :
         ticket[l] # "none" /\ ticket[m] # "none" /\ id[l] = id[m] => l = m
    /\ \A t, u \in Threads : \A l \in todo[t] :
         pc[u] = "late" => id[l] < id[current[u]]

IInv ==
    /\ TypeOK
    /\ OneSignaller
    /\ LateOwnsListener
    /\ TodoIsFresh
    /\ QuietBeforeSignal
    /\ IdsInOrder
    /\ ItemsMatchTickets
    /\ AtMostOnce
    /\ NoMissedListener
    /\ ReverseOrder

-----------------------------------------------------------------------------

LEMMA InitType == Init => TypeOK
  <1> SUFFICES ASSUME Init PROVE TypeOK
    OBVIOUS
  <1>1. seed \in Nat /\ id \in [Listeners -> Nat] /\ calls \in [Listeners -> Nat]
    BY DEF Init
  <1> QED BY <1>1 DEF Init, TypeOK

LEMMA TypeStep == TypeOK /\ [Next]_vars => TypeOK'
  <1> SUFFICES ASSUME TypeOK, [Next]_vars PROVE TypeOK'
    OBVIOUS
  <1>1. ASSUME NEW t \in Threads, Cancel(t) PROVE TypeOK'
    BY <1>1 DEF Cancel, TypeOK
  <1>2. ASSUME NEW t \in Threads, RunCopied(t) PROVE TypeOK'
    <2>1. \A l \in Listeners : calls[l] + 1 \in Nat
      BY DEF TypeOK
    <2>2. calls' \in [Listeners -> Nat]
      BY <1>2, <2>1 DEF RunCopied, TypeOK
    <2> QED BY <1>2, <2>2 DEF RunCopied, TypeOK
  <1>3. ASSUME NEW t \in Threads, ReturnFromCopied(t) PROVE TypeOK'
    BY <1>3 DEF ReturnFromCopied, TypeOK
  <1>4. ASSUME NEW t \in Threads, SignalCancelled(t) PROVE TypeOK'
    BY <1>4 DEF SignalCancelled, TypeOK
  <1>5. ASSUME NEW t \in Threads, NEW l \in Listeners, CallListener(t, l) PROVE TypeOK'
    BY <1>5 DEF CallListener, TypeOK
  <1>6. ASSUME NEW t \in Threads, ListenerReturns(t) PROVE TypeOK'
    BY <1>6 DEF ListenerReturns, TypeOK
  <1>7. ASSUME NEW t \in Threads, CancelReturns(t) PROVE TypeOK'
    BY <1>7 DEF CancelReturns, TypeOK
  <1>8. ASSUME NEW t \in Threads, NEW l \in Listeners, AddListener(t, l) PROVE TypeOK'
    BY <1>8 DEF AddListener, AddListenerEarly, AddListenerLate, InsertItem, RunsNow, TypeOK
  <1>9. ASSUME NEW l \in Listeners, DestroyTicket(l) PROVE TypeOK'
    BY <1>9 DEF DestroyTicket, EraseItem, TypeOK
  <1>10. CASE UNCHANGED vars
    BY <1>10 DEF vars, TypeOK
  <1> QED
    BY <1>1, <1>2, <1>3, <1>4, <1>5, <1>6, <1>7, <1>8, <1>9, <1>10 DEF Next, Continue

(* The variables have their types in every reachable state. *)
THEOREM TypeCorrect == Spec => []TypeOK
<1>1. Init => TypeOK
  BY InitType
<1>2. TypeOK /\ [Next]_vars => TypeOK'
  BY TypeStep
<1> QED BY <1>1, <1>2, PTL DEF Spec

-----------------------------------------------------------------------------
LEMMA InitInv == Init => IInv
  <1> SUFFICES ASSUME Init PROVE IInv
    OBVIOUS
  <1> USE DEF Init
  <1>1. TypeOK BY InitType
  <1>2. OneSignaller BY DEF OneSignaller, Signalling
  <1>3. LateOwnsListener BY DEF LateOwnsListener
  <1>4. TodoIsFresh /\ QuietBeforeSignal BY DEF TodoIsFresh, QuietBeforeSignal
  <1>5. IdsInOrder BY DEF IdsInOrder
  <1>6. ItemsMatchTickets /\ AtMostOnce BY DEF ItemsMatchTickets, AtMostOnce
  <1>7. NoMissedListener /\ ReverseOrder BY DEF NoMissedListener, ReverseOrder
  <1> QED BY <1>1, <1>2, <1>3, <1>4, <1>5, <1>6, <1>7 DEF IInv

(* Each action keeps the invariant; the type part comes from TypeStep. *)
LEMMA AddEarlyInv ==
  ASSUME IInv, NEW t \in Threads, NEW l \in Listeners, AddListenerEarly(t, l), TypeOK'
  PROVE IInv'
  <1> USE DEF IInv, TypeOK, AddListenerEarly, InsertItem, RunsNow
  <1>1. OneSignaller' BY DEF OneSignaller, Signalling
  <1>2. LateOwnsListener' BY DEF LateOwnsListener
  <1>3. TodoIsFresh' BY DEF TodoIsFresh
  <1>4. QuietBeforeSignal' BY DEF QuietBeforeSignal
  <1>5. IdsInOrder' BY DEF IdsInOrder, LateOwnsListener
  <1>6. ItemsMatchTickets' BY DEF ItemsMatchTickets
  <1>7. AtMostOnce' BY DEF AtMostOnce
  <1>8. NoMissedListener' BY DEF NoMissedListener
  <1>9. ReverseOrder' BY DEF ReverseOrder, OneSignaller, QuietBeforeSignal
  <1> QED BY <1>1, <1>2, <1>3, <1>4, <1>5, <1>6, <1>7, <1>8, <1>9

LEMMA AddLateInv ==
  ASSUME IInv, NEW t \in Threads, NEW l \in Listeners, AddListenerLate(t, l), TypeOK'
  PROVE IInv'
  <1> USE DEF IInv, TypeOK, AddListenerLate, InsertItem, RunsNow
  <1>1. OneSignaller' BY DEF OneSignaller, Signalling
  <1>2. LateOwnsListener' BY DEF LateOwnsListener, QuietBeforeSignal
  <1>3. TodoIsFresh' BY DEF TodoIsFresh, QuietBeforeSignal
  <1>4. QuietBeforeSignal' BY DEF QuietBeforeSignal
  <1>5. IdsInOrder' BY DEF IdsInOrder, LateOwnsListener, TodoIsFresh
  <1>6. ItemsMatchTickets' BY DEF ItemsMatchTickets
  <1>7. AtMostOnce' BY DEF AtMostOnce
  <1>8. NoMissedListener' BY DEF NoMissedListener, Owed, TodoIsFresh
  <1>9. ReverseOrder' BY DEF ReverseOrder, TodoIsFresh, QuietBeforeSignal
  <1> QED BY <1>1, <1>2, <1>3, <1>4, <1>5, <1>6, <1>7, <1>8, <1>9

LEMMA RunCopiedInv ==
  ASSUME IInv, NEW t \in Threads, RunCopied(t), TypeOK'
  PROVE IInv'
  <1> USE DEF IInv, TypeOK, RunCopied
  <1>1. OneSignaller' BY DEF OneSignaller, Signalling
  <1>2. LateOwnsListener' BY DEF LateOwnsListener
  <1>3. TodoIsFresh' BY DEF TodoIsFresh, LateOwnsListener
  <1>4. QuietBeforeSignal' BY DEF QuietBeforeSignal, LateOwnsListener
  <1>5. IdsInOrder' BY DEF IdsInOrder
  <1>6. ItemsMatchTickets' BY DEF ItemsMatchTickets
  <1>7. AtMostOnce' BY DEF AtMostOnce, LateOwnsListener
  <1>8. NoMissedListener' BY DEF NoMissedListener, Owed, LateOwnsListener
  <1>9. ReverseOrder' BY DEF ReverseOrder, LateOwnsListener, IdsInOrder
  <1> QED BY <1>1, <1>2, <1>3, <1>4, <1>5, <1>6, <1>7, <1>8, <1>9

LEMMA ReturnFromCopiedInv ==
  ASSUME IInv, NEW t \in Threads, ReturnFromCopied(t), TypeOK'
  PROVE IInv'
  <1> USE DEF IInv, TypeOK, ReturnFromCopied
  <1>1. OneSignaller' BY DEF OneSignaller, Signalling, LateOwnsListener
  <1>2. LateOwnsListener' BY DEF LateOwnsListener
  <1>3. TodoIsFresh' BY DEF TodoIsFresh, LateOwnsListener
  <1>4. QuietBeforeSignal' BY DEF QuietBeforeSignal, LateOwnsListener
  <1>5. IdsInOrder' BY DEF IdsInOrder, LateOwnsListener
  <1>6. ItemsMatchTickets' BY DEF ItemsMatchTickets, LateOwnsListener
  <1>7. AtMostOnce' BY DEF AtMostOnce
  <1>8. NoMissedListener' BY DEF NoMissedListener, Owed
  <1>9. ReverseOrder' BY DEF ReverseOrder
  <1> QED BY <1>1, <1>2, <1>3, <1>4, <1>5, <1>6, <1>7, <1>8, <1>9

LEMMA DestroyTicketInv ==
  ASSUME IInv, NEW l \in Listeners, DestroyTicket(l), TypeOK'
  PROVE IInv'
  <1> USE DEF IInv, TypeOK, DestroyTicket, EraseItem
  <1>1. OneSignaller' BY DEF OneSignaller, Signalling
  <1>2. LateOwnsListener' BY DEF LateOwnsListener
  <1>3. TodoIsFresh' BY DEF TodoIsFresh
  <1>4. QuietBeforeSignal' BY DEF QuietBeforeSignal
  <1>5. IdsInOrder' BY DEF IdsInOrder
  <1>6. ItemsMatchTickets' BY DEF ItemsMatchTickets
  <1>7. AtMostOnce' BY DEF AtMostOnce
  <1>8. NoMissedListener' BY DEF NoMissedListener, Owed
  <1>9. ReverseOrder' BY DEF ReverseOrder
  <1> QED BY <1>1, <1>2, <1>3, <1>4, <1>5, <1>6, <1>7, <1>8, <1>9

LEMMA CancelInv ==
  ASSUME IInv, NEW t \in Threads, Cancel(t), TypeOK'
  PROVE IInv'
  <1> USE DEF IInv, TypeOK, Cancel
  <1>1. OneSignaller' BY DEF OneSignaller, Signalling
  <1>2. LateOwnsListener' BY DEF LateOwnsListener
  <1>3. TodoIsFresh' BY DEF TodoIsFresh
  <1>4. QuietBeforeSignal' BY DEF QuietBeforeSignal
  <1>5. IdsInOrder' BY DEF IdsInOrder
  <1>6. ItemsMatchTickets' BY DEF ItemsMatchTickets
  <1>7. AtMostOnce' BY DEF AtMostOnce
  <1>8. NoMissedListener' BY DEF NoMissedListener, Owed
  <1>9. ReverseOrder' BY DEF ReverseOrder
  <1> QED BY <1>1, <1>2, <1>3, <1>4, <1>5, <1>6, <1>7, <1>8, <1>9

LEMMA SignalCancelledInv ==
  ASSUME IInv, NEW t \in Threads, SignalCancelled(t), TypeOK'
  PROVE IInv'
  <1> USE DEF IInv, TypeOK, SignalCancelled
  <1>1. OneSignaller' BY DEF OneSignaller, Signalling
  <1>2. LateOwnsListener' BY DEF LateOwnsListener, OneSignaller
  <1>3. TodoIsFresh' BY DEF TodoIsFresh, OneSignaller, QuietBeforeSignal, ItemsMatchTickets
  <1>4. QuietBeforeSignal' BY DEF QuietBeforeSignal, OneSignaller
  <1>5. IdsInOrder' BY DEF IdsInOrder, LateOwnsListener, OneSignaller
  <1>6. ItemsMatchTickets' BY DEF ItemsMatchTickets
  <1>7. AtMostOnce' BY DEF AtMostOnce
  <1>8. NoMissedListener' BY DEF NoMissedListener, Owed
  <1>9. ReverseOrder' BY DEF ReverseOrder, OneSignaller, QuietBeforeSignal
  <1> QED BY <1>1, <1>2, <1>3, <1>4, <1>5, <1>6, <1>7, <1>8, <1>9

LEMMA CallListenerInv ==
  ASSUME IInv, NEW t \in Threads, NEW l \in Listeners, CallListener(t, l), TypeOK'
  PROVE IInv'
  <1> USE DEF IInv, TypeOK, CallListener
  <1>a. l \in todo[t] /\ calls[l] = 0 /\ ticket[l] \in {"held", "destroyed"}
    BY DEF Youngest, TodoIsFresh
  <1>b. signaled /\ \A u \in Threads : u # t => todo[u] = {}
    BY DEF OneSignaller, Signalling
  <1>c. \A u \in Threads : todo'[u] = todo[u] \ {l}
    BY <1>b
  <1>d. calls'[l] = 1 /\ \A m \in Listeners : m # l => calls'[m] = calls[m]
    BY <1>a
  <1>e. \A m \in todo'[t] : id[m] < id[l]
    <2> SUFFICES ASSUME NEW m \in todo'[t] PROVE id[m] < id[l]
      OBVIOUS
    <2>1. m \in todo[t] /\ m \in Listeners /\ m # l
      BY <1>c
    <2>2. id[m] <= id[l]
      BY <2>1 DEF Youngest
    <2>3. id[m] # id[l]
      BY <1>a, <2>1 DEF IdsInOrder, TodoIsFresh
    <2> QED BY <2>1, <2>2, <2>3
  <1>1. OneSignaller' BY DEF OneSignaller, Signalling
  <1>2. LateOwnsListener' BY <1>a DEF LateOwnsListener
  <1>3. TodoIsFresh' BY <1>c, <1>d DEF TodoIsFresh
  <1>4. QuietBeforeSignal' BY <1>a, <1>b DEF QuietBeforeSignal
  <1>5. IdsInOrder' BY <1>c DEF IdsInOrder
  <1>6. ItemsMatchTickets' BY DEF ItemsMatchTickets
  <1>7. AtMostOnce' BY <1>d DEF AtMostOnce
  <1>8. NoMissedListener'
    <2> SUFFICES ASSUME NEW m \in items PROVE calls'[m] = 1 \/ m \in Owed'
      BY DEF NoMissedListener
    <2>1. CASE m = l
      BY <1>d, <2>1
    <2>2. CASE m # l
      <3>1. calls[m] = 1 \/ m \in Owed
        BY <1>b DEF NoMissedListener
      <3>2. m \in Owed => m \in Owed'
        BY <1>c, <2>2 DEF Owed
      <3> QED BY <1>d, <2>2, <3>1, <3>2
    <2> QED BY <2>1, <2>2
  <1>9. ReverseOrder'
    <2> SUFFICES ASSUME NEW u \in Threads, NEW m \in todo'[u], NEW n \in Listeners, calls'[n] > 0
                 PROVE id[m] < id[n]
      BY DEF ReverseOrder
    <2>1. m \in todo[u] /\ u = t
      BY <1>b, <1>c
    <2>2. CASE n = l
      BY <1>e, <2>1, <2>2
    <2>3. CASE n # l
      BY <1>d, <2>1, <2>3 DEF ReverseOrder
    <2> QED BY <2>2, <2>3
  <1> QED BY <1>1, <1>2, <1>3, <1>4, <1>5, <1>6, <1>7, <1>8, <1>9

LEMMA ListenerReturnsInv ==
  ASSUME IInv, NEW t \in Threads, ListenerReturns(t), TypeOK'
  PROVE IInv'
  <1> USE DEF IInv, TypeOK, ListenerReturns
  <1>1. OneSignaller' BY DEF OneSignaller, Signalling
  <1>2. LateOwnsListener' BY DEF LateOwnsListener
  <1>3. TodoIsFresh' BY DEF TodoIsFresh
  <1>4. QuietBeforeSignal' BY DEF QuietBeforeSignal
  <1>5. IdsInOrder' BY DEF IdsInOrder
  <1>6. ItemsMatchTickets' BY DEF ItemsMatchTickets
  <1>7. AtMostOnce' BY DEF AtMostOnce
  <1>8. NoMissedListener' BY DEF NoMissedListener, Owed
  <1>9. ReverseOrder' BY DEF ReverseOrder
  <1> QED BY <1>1, <1>2, <1>3, <1>4, <1>5, <1>6, <1>7, <1>8, <1>9

LEMMA CancelReturnsInv ==
  ASSUME IInv, NEW t \in Threads, CancelReturns(t), TypeOK'
  PROVE IInv'
  <1> USE DEF IInv, TypeOK, CancelReturns
  <1>1. OneSignaller' BY DEF OneSignaller, Signalling
  <1>2. LateOwnsListener' BY DEF LateOwnsListener
  <1>3. TodoIsFresh' BY DEF TodoIsFresh
  <1>4. QuietBeforeSignal' BY DEF QuietBeforeSignal
  <1>5. IdsInOrder' BY DEF IdsInOrder
  <1>6. ItemsMatchTickets' BY DEF ItemsMatchTickets
  <1>7. AtMostOnce' BY DEF AtMostOnce
  <1>8. NoMissedListener' BY DEF NoMissedListener, Owed
  <1>9. ReverseOrder' BY DEF ReverseOrder
  <1> QED BY <1>1, <1>2, <1>3, <1>4, <1>5, <1>6, <1>7, <1>8, <1>9

LEMMA StutterInv == ASSUME IInv, UNCHANGED vars PROVE IInv'
  BY DEF vars, IInv, TypeOK, OneSignaller, Signalling, LateOwnsListener, TodoIsFresh,
         QuietBeforeSignal, IdsInOrder, ItemsMatchTickets, AtMostOnce,
         NoMissedListener, Owed, ReverseOrder

LEMMA StepInv == IInv /\ [Next]_vars => IInv'
  <1> SUFFICES ASSUME IInv, [Next]_vars PROVE IInv'
    OBVIOUS
  <1>1. TypeOK'
    BY TypeStep DEF IInv
  <1>2. ASSUME NEW t \in Threads, Cancel(t) PROVE IInv'
    BY <1>1, <1>2, CancelInv
  <1>3. ASSUME NEW t \in Threads, Continue(t) PROVE IInv'
    BY <1>1, <1>3, RunCopiedInv, ReturnFromCopiedInv, SignalCancelledInv,
       CallListenerInv, ListenerReturnsInv, CancelReturnsInv DEF Continue
  <1>4. ASSUME NEW t \in Threads, NEW l \in Listeners, AddListener(t, l) PROVE IInv'
    BY <1>1, <1>4, AddEarlyInv, AddLateInv DEF AddListener
  <1>5. ASSUME NEW l \in Listeners, DestroyTicket(l) PROVE IInv'
    BY <1>1, <1>5, DestroyTicketInv
  <1>6. CASE UNCHANGED vars
    BY <1>6, StutterInv
  <1> QED BY <1>2, <1>3, <1>4, <1>5, <1>6 DEF Next

(* The strengthened invariant holds in every reachable state. *)
THEOREM InductiveInvariant == Spec => []IInv
  BY InitInv, StepInv, PTL DEF Spec

(* No listener is invoked twice, whatever cancels and additions race. *)
THEOREM CalledAtMostOnce == Spec => []AtMostOnce
<1>1. IInv => AtMostOnce
  BY DEF IInv
<1> QED BY <1>1, InductiveInvariant, PTL

(* After the signal every listener that holds a ticket has been called or *)
(* is owed its call by a thread inside cancel() or add_listener.          *)
THEOREM NoneMissed == Spec => []NoMissedListener
<1>1. IInv => NoMissedListener
  BY DEF IInv
<1> QED BY <1>1, InductiveInvariant, PTL

(* The collection holds the entries of the live tickets and no others: the *)
(* asserts of ticket_functor and of ~cancellation cannot fail.             *)
THEOREM TicketsMatch == Spec => []ItemsMatchTickets
<1>1. IInv => ItemsMatchTickets
  BY DEF IInv
<1> QED BY <1>1, InductiveInvariant, PTL

(* A listener is called before all those that were added before it. *)
THEOREM CalledInReverse == Spec => []ReverseOrder
<1>1. IInv => ReverseOrder
  BY DEF IInv
<1> QED BY <1>1, InductiveInvariant, PTL

(* cancelled() answers TRUE before the first listener runs. *)
THEOREM FlagBeforeCalls == Spec => []RequestedFirst
<1>1. IInv => RequestedFirst
  BY DEF IInv, TypeOK, OneSignaller, QuietBeforeSignal, RequestedFirst
<1> QED BY <1>1, InductiveInvariant, PTL

-----------------------------------------------------------------------------
(* What the steps do to the calls that are owed. *)
Silent == \A l \in Listeners :
  ticket[l] = "destroyed" /\ l \notin Owed => calls'[l] = calls[l] /\ l \notin Owed'

LEMMA SilentStep == ASSUME IInv, [Next]_vars PROVE Silent
  <1> USE DEF IInv, TypeOK, Silent, Owed
  <1>1. ASSUME NEW t \in Threads, Cancel(t) PROVE Silent
    BY <1>1 DEF Cancel
  <1>2. ASSUME NEW t \in Threads, RunCopied(t) PROVE Silent
    BY <1>2 DEF RunCopied, LateOwnsListener
  <1>3. ASSUME NEW t \in Threads, ReturnFromCopied(t) PROVE Silent
    BY <1>3 DEF ReturnFromCopied
  <1>4. ASSUME NEW t \in Threads, SignalCancelled(t) PROVE Silent
    BY <1>4 DEF SignalCancelled, ItemsMatchTickets
  <1>5. ASSUME NEW t \in Threads, NEW m \in Listeners, CallListener(t, m) PROVE Silent
    BY <1>5 DEF CallListener, Youngest
  <1>6. ASSUME NEW t \in Threads, ListenerReturns(t) PROVE Silent
    BY <1>6 DEF ListenerReturns
  <1>7. ASSUME NEW t \in Threads, CancelReturns(t) PROVE Silent
    BY <1>7 DEF CancelReturns
  <1>8. ASSUME NEW t \in Threads, NEW m \in Listeners, AddListener(t, m) PROVE Silent
    BY <1>8 DEF AddListener, AddListenerEarly, AddListenerLate, InsertItem, RunsNow
  <1>9. ASSUME NEW m \in Listeners, DestroyTicket(m) PROVE Silent
    BY <1>9 DEF DestroyTicket, EraseItem
  <1>10. CASE UNCHANGED vars
    BY <1>10 DEF vars
  <1> QED
    BY <1>1, <1>2, <1>3, <1>4, <1>5, <1>6, <1>7, <1>8, <1>9, <1>10 DEF Next, Continue

(* A listener removed before the copy was taken never runs afterwards. *)
THEOREM RemovedStaysSilent == Spec => RemovedIsSilent
<1>1. IInv /\ [Next]_vars => [Silent]_vars
  BY SilentStep
<1> QED BY <1>1, InductiveInvariant, PTL DEF Spec, RemovedIsSilent, Silent

-----------------------------------------------------------------------------
(* The refinement, one lemma per kind of step of the abstract signal. *)
Called == {l \in Listeners : calls[l] > 0}
Joined == {l \in Listeners : ticket[l] # "none"}

(* The locked part of an addition, early or late, is a Join. *)
LEMMA AddIsJoin ==
  ASSUME IInv, NEW t \in Threads, NEW l \in Listeners, AddListener(t, l)
  PROVE Signal!Join(l)
  <1> USE DEF IInv, TypeOK
  <1>1. Joined' = Joined \cup {l} /\ l \notin Joined /\ Called' = Called
    BY DEF AddListener, AddListenerEarly, AddListenerLate, InsertItem, RunsNow, Joined, Called
  <1>2. CASE AddListenerEarly(t, l)
    <2>1. ~signaled /\ Owed' = Owed
      BY <1>2 DEF AddListenerEarly, InsertItem, RunsNow, Owed
    <2> QED BY <1>1, <1>2, <2>1 DEF Signal!Join, AddListenerEarly, InsertItem, RunsNow, Joined,
               Called
  <1>3. CASE AddListenerLate(t, l)
    <2>1. signaled /\ Owed' = Owed \cup {l}
      BY <1>3 DEF AddListenerLate, InsertItem, RunsNow, Owed
    <2> QED BY <1>1, <1>3, <2>1 DEF Signal!Join, AddListenerLate, InsertItem, RunsNow, Joined,
               Called
  <1> QED BY <1>2, <1>3 DEF AddListener

(* Each call, from the copy or on the late path, is a Deliver. *)
LEMMA LateCallIsDeliver ==
  ASSUME IInv, NEW t \in Threads, RunCopied(t)
  PROVE \E l \in Listeners : Signal!Deliver(l)
  <1> USE DEF IInv, TypeOK
  <1> DEFINE l == current[t]
  <1>1. l \in Listeners /\ calls[l] = 0 /\ l \in Owed
    BY DEF RunCopied, LateOwnsListener, Owed
  <1>2. Called' = Called \cup {l} /\ l \notin Called /\ Joined' = Joined
    BY <1>1 DEF RunCopied, Called, Joined
  <1>3. \A u \in Threads : l \notin todo[u]
    BY <1>1 DEF TodoIsFresh, LateOwnsListener, RunCopied
  <1>4. Owed' = Owed \ {l}
    BY <1>1, <1>3 DEF RunCopied, Owed, LateOwnsListener
  <1> QED BY <1>1, <1>2, <1>4 DEF Signal!Deliver, RunCopied, Called, Joined

LEMMA CallIsDeliver ==
  ASSUME IInv, NEW t \in Threads, NEW l \in Listeners, CallListener(t, l)
  PROVE Signal!Deliver(l)
  <1> USE DEF IInv, TypeOK
  <1>1. l \in todo[t] /\ calls[l] = 0 /\ ticket[l] # "adding"
    BY DEF CallListener, Youngest, TodoIsFresh
  <1>2. Called' = Called \cup {l} /\ l \notin Called /\ Joined' = Joined
    BY <1>1 DEF CallListener, Called, Joined
  <1>3. \A u \in Threads : u # t => todo[u] = {}
    BY DEF CallListener, OneSignaller, Signalling
  <1>4. \A u \in Threads : pc[u] = "late" => current[u] # l
    BY <1>1 DEF LateOwnsListener
  <1>5. l \in Owed /\ Owed' = Owed \ {l}
    BY <1>1, <1>3, <1>4 DEF CallListener, Owed
  <1> QED BY <1>2, <1>5 DEF Signal!Deliver, CallListener, Called, Joined

(* The locked part of signal_cancelled is the one Fire. *)
LEMMA SignalIsFire ==
  ASSUME IInv, NEW t \in Threads, SignalCancelled(t)
  PROVE Signal!Fire
  <1> USE DEF IInv, TypeOK
  <1>1. ~signaled /\ \A u \in Threads : todo[u] = {} /\ pc[u] # "late"
    BY DEF SignalCancelled, OneSignaller, Signalling, LateOwnsListener
  <1>2. Owed' = items
    BY <1>1 DEF SignalCancelled, Owed
  <1> QED BY <1>1, <1>2 DEF Signal!Fire, SignalCancelled

LEMMA DestroyIsLeave ==
  ASSUME IInv, NEW l \in Listeners, DestroyTicket(l)
  PROVE Signal!Leave(l)
  <1> USE DEF IInv, TypeOK
  <1>1. l \in items /\ Joined' = Joined /\ Called' = Called /\ Owed' = Owed
    BY DEF DestroyTicket, EraseItem, ItemsMatchTickets, Joined, Called, Owed
  <1> QED BY <1>1 DEF Signal!Leave, DestroyTicket, EraseItem, Joined, Called

(* The exchange, the return of a listener and the return of cancel() are  *)
(* steps the abstract signal does not see.                                *)
LEMMA OthersStutter ==
  ASSUME IInv, NEW t \in Threads,
         Cancel(t) \/ ReturnFromCopied(t) \/ ListenerReturns(t) \/ CancelReturns(t)
  PROVE UNCHANGED Signal!vars
  <1> USE DEF IInv, TypeOK
  <1>1. Joined' = Joined
    BY DEF Cancel, ReturnFromCopied, ListenerReturns, CancelReturns, Joined, LateOwnsListener
  <1>2. Called' = Called
    BY DEF Cancel, ReturnFromCopied, ListenerReturns, CancelReturns, Called
  <1>3. Owed' = Owed
    BY DEF Cancel, ReturnFromCopied, ListenerReturns, CancelReturns, Owed
  <1>4. UNCHANGED <<signaled, items>>
    BY DEF Cancel, ReturnFromCopied, ListenerReturns, CancelReturns
  <1> QED BY <1>1, <1>2, <1>3, <1>4 DEF Signal!vars, Joined, Called

(* Threads, mutex, copy and late path implement the signal that fires     *)
(* once and owes each member one call.                                    *)
THEOREM Refinement == Spec => Signal!SafeSpec
<1>1. Init => Signal!Init
  BY DEF Init, Signal!Init, Owed
<1>2. IInv /\ [Next]_vars => [Signal!Next]_(Signal!vars)
  <2> SUFFICES ASSUME IInv, [Next]_vars PROVE Signal!Next \/ UNCHANGED Signal!vars
    OBVIOUS
  <2>1. ASSUME NEW t \in Threads, Cancel(t) PROVE UNCHANGED Signal!vars
    BY <2>1, OthersStutter
  <2>2. ASSUME NEW t \in Threads, Continue(t) PROVE Signal!Next \/ UNCHANGED Signal!vars
    BY <2>2, LateCallIsDeliver, OthersStutter, SignalIsFire, CallIsDeliver
       DEF Continue, Signal!Next
  <2>3. ASSUME NEW t \in Threads, NEW l \in Listeners, AddListener(t, l) PROVE Signal!Next
    BY <2>3, AddIsJoin DEF Signal!Next
  <2>4. ASSUME NEW l \in Listeners, DestroyTicket(l) PROVE Signal!Next
    BY <2>4, DestroyIsLeave DEF Signal!Next
  <2>5. CASE UNCHANGED vars
    BY <2>5 DEF vars, Signal!vars, Owed
  <2> QED BY <2>1, <2>2, <2>3, <2>4, <2>5 DEF Next
<1> QED BY <1>1, <1>2, InductiveInvariant, PTL DEF Spec, Signal!SafeSpec
=============================================================================
