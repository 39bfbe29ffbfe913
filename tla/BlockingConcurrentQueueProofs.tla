-------------------- MODULE BlockingConcurrentQueueProofs --------------------
(***************************************************************************)
(* Proofs about BlockingConcurrentQueue for any threads, items and limit.  *)
(* The wake-up that is sent only by the push that finds the queue empty is *)
(* enough because whoever it wakes takes everything: the proof assumes of  *)
(* the consumers that those who block do so in blocking_drain.             *)
(***************************************************************************)
EXTENDS BlockingConcurrentQueue, SequenceTheorems, TLAPS

USE QueueAssumption

-----------------------------------------------------------------------------
(* The inductive invariant behind NoStrandedItem, in named parts. *)

\* A consumer between two steps of its section has the mutex to itself.
MutexHeld == \A c \in Consumers : pc[c] \in {"wait", "check", "take"} => lock = c

\* What a consumer found under the mutex still holds: m_data.front() is there
\* when it is taken, and nothing is queued when it goes to wait.
FrontExists == \A c \in Consumers : pc[c] = "take" => data # <<>>
EmptyOnWait == \A c \in Consumers : pc[c] = "wait" /\ ~token => data = <<>>

CallsMatch ==
    \A c \in Consumers :
        /\ call[c] \in Calls
        /\ pc[c] \in {"wait", "sleep"} => call[c] \in BlockingCalls

\* Somebody will wake a sleeper, or take everything, beside whom none is left.
HelpComes ==
    \/ \E t \in Threads : pc[t] \in {"notify", "notifyAll"}
    \/ \E c \in Consumers : pc[c] \in {"ready", "check", "take"} /\ call[c] = "blocking_drain"

IInv ==
    /\ TypeOK
    /\ MutexHeld /\ FrontExists /\ EmptyOnWait /\ CallsMatch
    /\ data # <<>> /\ Sleepers # {} /\ ~token => HelpComes

-----------------------------------------------------------------------------
(* The inductive invariant behind Fifo: what consumers hold was pushed     *)
(* before what is queued, and what is queued is the end of what was pushed.*)

Gone == Len(pushed) - Len(data)

PushedOnce == \A i, j \in 1 .. Len(pushed) : pushed[i] = pushed[j] => i = j

QueuedIsSuffix ==
    /\ Gone \in Nat
    /\ \A i \in 1 .. Len(data) : data[i] = pushed[Gone + i]

ReceivedIsGone ==
    \A c \in Consumers : \A i \in 1 .. Len(dest[c]) : \E j \in 1 .. Gone : dest[c][i] = pushed[j]

ReceivedInOrder ==
    \A c \in Consumers : \A i, j \in 1 .. Len(dest[c]) : \A k, m \in 1 .. Len(pushed) :
        i < j /\ dest[c][i] = pushed[k] /\ dest[c][j] = pushed[m] => k < m

ReceivedByOne ==
    \A c, d \in Consumers : \A i \in 1 .. Len(dest[c]), j \in 1 .. Len(dest[d]) :
        dest[c][i] = dest[d][j] => c = d

OrderInv ==
    PushedOnce /\ QueuedIsSuffix /\ ReceivedIsGone /\ ReceivedInOrder /\ ReceivedByOne

-----------------------------------------------------------------------------
(* Dropping the oldest items leaves a sequence of items. *)
LEMMA TrimType ==
  ASSUME NEW s \in Seq(Items)
  PROVE  Trim(s) \in Seq(Items)
<1>1. CASE Len(s) > MaxSize
  <2>1. \A i \in Len(s) - MaxSize + 1 .. Len(s) : s[i] \in Items
    BY <1>1
  <2>2. SubSeq(s, Len(s) - MaxSize + 1, Len(s)) \in Seq(Items)
    BY <2>1, SubSeqProperties
  <2> QED BY <1>1, <2>2 DEF Trim
<1> QED BY <1>1 DEF Trim

LEMMA InitInv == Init => IInv
<1> SUFFICES ASSUME Init PROVE IInv
  OBVIOUS
<1>1. data \in Seq(Items) /\ pushed \in Seq(Items) /\ dest \in [Consumers -> Seq(Items)]
  BY DEF Init
<1>2. TypeOK
  BY <1>1 DEF Init, TypeOK, PcStates
<1>3. \A c \in Consumers : pc[c] = "idle"
  BY DEF Init, Threads
<1> QED
  BY <1>2, <1>3 DEF Init, IInv, MutexHeld, FrontExists, EmptyOnWait, CallsMatch, Sleepers

-----------------------------------------------------------------------------
(* TypeOK needs FrontExists: what TakeOne receives is the front. *)
LEMMA TypeStep == TypeOK /\ FrontExists /\ [Next]_vars => TypeOK'
<1> SUFFICES ASSUME TypeOK, FrontExists, [Next]_vars PROVE TypeOK'
  OBVIOUS
<1> USE DEF TypeOK, PcStates, Threads, Goto
<1>1. ASSUME NEW p \in Producers, NotifyOne(p) PROVE TypeOK'
  BY <1>1 DEF NotifyOne, Sleepers
<1>2. ASSUME NEW p \in Producers, NEW x \in Items, Push(p, x) PROVE TypeOK'
  <2>1. Append(data, x) \in Seq(Items)
    OBVIOUS
  <2>2. data' \in Seq(Items)
    BY <1>2, <2>1, TrimType DEF Push
  <2>3. pushed' \in Seq(Items)
    BY <1>2 DEF Push
  <2> QED BY <1>2, <2>2, <2>3 DEF Push
<1>3. CASE SetToken
  BY <1>3 DEF SetToken
<1>4. ASSUME NEW k \in Controllers, Clear(k) PROVE TypeOK'
  BY <1>4 DEF Clear
<1>5. ASSUME NEW k \in Controllers, Cancelled(k) PROVE TypeOK'
  BY <1>5 DEF Cancelled
<1>6. ASSUME NEW k \in Controllers, NotifyAll(k) PROVE TypeOK'
  BY <1>6 DEF NotifyAll, Sleepers
<1>7. ASSUME NEW c \in Consumers, Test(c) PROVE TypeOK'
  BY <1>7 DEF Test
<1>8. ASSUME NEW c \in Consumers, Wait(c) PROVE TypeOK'
  BY <1>8 DEF Wait
<1>9. ASSUME NEW c \in Consumers, Check(c) PROVE TypeOK'
  BY <1>9 DEF Check
<1>10. ASSUME NEW c \in Consumers, TakeOne(c) PROVE TypeOK'
  <2>1. data # <<>>
    BY <1>10 DEF TakeOne, FrontExists
  <2>2. Head(data) \in Items /\ Tail(data) \in Seq(Items)
    BY <2>1, HeadTailProperties
  <2>3. dest' \in [Consumers -> Seq(Items)]
    BY <1>10, <2>2 DEF TakeOne
  <2> QED BY <1>10, <2>2, <2>3 DEF TakeOne
<1>11. ASSUME NEW c \in Consumers, TakeAll(c) PROVE TypeOK'
  <2>1. dest[c] \o data \in Seq(Items)
    BY ConcatProperties
  <2>2. dest' \in [Consumers -> Seq(Items)]
    BY <1>11, <2>1 DEF TakeAll
  <2> QED BY <1>11, <2>2 DEF TakeAll
<1>12. ASSUME NEW c \in Consumers, WakeSpuriously(c) PROVE TypeOK'
  BY <1>12 DEF WakeSpuriously
<1>13. ASSUME NEW c \in Consumers, NEW f \in Calls, Call(c, f) PROVE TypeOK'
  BY <1>13 DEF Call
<1>14. CASE UNCHANGED vars
  BY <1>14 DEF vars
<1> QED
  BY <1>1, <1>2, <1>3, <1>4, <1>5, <1>6, <1>7, <1>8, <1>9, <1>10, <1>11, <1>12,
     <1>13, <1>14 DEF Next, Consume

(* The conjuncts about the mutex: each step keeps what was found under it. *)
LEMMA SectionStep ==
  TypeOK /\ MutexHeld /\ FrontExists /\ EmptyOnWait /\ CallsMatch /\ [Next]_vars
    => MutexHeld' /\ FrontExists' /\ EmptyOnWait' /\ CallsMatch'
<1> DEFINE Goal == MutexHeld' /\ FrontExists' /\ EmptyOnWait' /\ CallsMatch'
<1> SUFFICES ASSUME TypeOK, MutexHeld, FrontExists, EmptyOnWait, CallsMatch, [Next]_vars
             PROVE  Goal
  OBVIOUS
<1> USE DEF TypeOK, Threads, Goto, MutexHeld, FrontExists, EmptyOnWait, CallsMatch
<1>1. ASSUME NEW p \in Producers, NotifyOne(p) PROVE Goal
  BY <1>1 DEF NotifyOne, Sleepers
<1>2. ASSUME NEW p \in Producers, NEW x \in Items, Push(p, x) PROVE Goal
  <2>1. \A c \in Consumers : pc[c] \notin {"wait", "check", "take"} /\ pc'[c] = pc[c]
    BY <1>2 DEF Push
  <2> QED BY <1>2, <2>1 DEF Push
<1>3. CASE SetToken
  BY <1>3 DEF SetToken
<1>4. ASSUME NEW k \in Controllers, Clear(k) PROVE Goal
  <2>1. \A c \in Consumers : pc[c] \notin {"wait", "check", "take"} /\ pc'[c] = pc[c]
    BY <1>4 DEF Clear
  <2> QED BY <1>4, <2>1 DEF Clear
<1>5. ASSUME NEW k \in Controllers, Cancelled(k) PROVE Goal
  BY <1>5 DEF Cancelled
<1>6. ASSUME NEW k \in Controllers, NotifyAll(k) PROVE Goal
  BY <1>6 DEF NotifyAll, Sleepers
<1>7. ASSUME NEW c \in Consumers, Test(c) PROVE Goal
  BY <1>7 DEF Test
<1>8. ASSUME NEW c \in Consumers, Wait(c) PROVE Goal
  BY <1>8 DEF Wait
<1>9. ASSUME NEW c \in Consumers, Check(c) PROVE Goal
  BY <1>9 DEF Check
<1>10. ASSUME NEW c \in Consumers, TakeOne(c) PROVE Goal
  BY <1>10 DEF TakeOne
<1>11. ASSUME NEW c \in Consumers, TakeAll(c) PROVE Goal
  BY <1>11 DEF TakeAll
<1>12. ASSUME NEW c \in Consumers, WakeSpuriously(c) PROVE Goal
  BY <1>12 DEF WakeSpuriously
<1>13. ASSUME NEW c \in Consumers, NEW f \in Calls, Call(c, f) PROVE Goal
  BY <1>13 DEF Call
<1>14. CASE UNCHANGED vars
  BY <1>14 DEF vars
<1> QED
  BY <1>1, <1>2, <1>3, <1>4, <1>5, <1>6, <1>7, <1>8, <1>9, <1>10, <1>11, <1>12,
     <1>13, <1>14 DEF Next, Consume

Stranded == data # <<>> /\ Sleepers # {} /\ ~token

(* Who sleeps beside a queued item can count on help, after any step. *)
LEMMA HelpStep ==
  ASSUME "blocking_pop" \notin Calls
  PROVE  IInv /\ [Next]_vars => (Stranded => HelpComes)'
<1> SUFFICES ASSUME IInv, [Next]_vars, Stranded' PROVE HelpComes'
  OBVIOUS
<1> USE DEF IInv, TypeOK, Threads, Goto, Stranded, HelpComes, Sleepers
<1>1. ASSUME NEW p \in Producers, NotifyOne(p) PROVE HelpComes'
  <2>1. PICK c \in Sleepers : pc' = [pc EXCEPT ![p] = "idle", ![c] = "ready"]
    BY <1>1 DEF NotifyOne
  <2>2. pc'[c] = "ready" /\ call'[c] = "blocking_drain"
    BY <1>1, <2>1 DEF NotifyOne, CallsMatch, BlockingCalls
  <2> QED BY <2>2
<1>2. ASSUME NEW p \in Producers, NEW x \in Items, Push(p, x) PROVE HelpComes'
  <2>1. CASE data = <<>>
    BY <1>2, <2>1 DEF Push, Notifies
  <2>2. CASE data # <<>>
    BY <1>2, <2>2 DEF Push, Notifies
  <2> QED BY <2>1, <2>2
<1>3. CASE SetToken
  BY <1>3 DEF SetToken
<1>4. ASSUME NEW k \in Controllers, Clear(k) PROVE HelpComes'
  BY <1>4 DEF Clear
<1>5. ASSUME NEW k \in Controllers, Cancelled(k) PROVE HelpComes'
  BY <1>5 DEF Cancelled
<1>6. ASSUME NEW k \in Controllers, NotifyAll(k) PROVE HelpComes'
  <2>1. Sleepers' = {}
    BY <1>6 DEF NotifyAll
  <2> QED BY <2>1
<1>7. ASSUME NEW c \in Consumers, Test(c) PROVE HelpComes'
  BY <1>7 DEF Test
<1>8. ASSUME NEW c \in Consumers, Wait(c) PROVE HelpComes'
  BY <1>8 DEF Wait, EmptyOnWait
<1>9. ASSUME NEW c \in Consumers, Check(c) PROVE HelpComes'
  BY <1>9 DEF Check
<1>10. ASSUME NEW c \in Consumers, TakeOne(c) PROVE HelpComes'
  <2>1. data # <<>> /\ call[c] # "blocking_drain"
    BY <1>10 DEF TakeOne, FrontExists
  <2> QED BY <1>10, <2>1 DEF TakeOne
<1>11. ASSUME NEW c \in Consumers, TakeAll(c) PROVE HelpComes'
  BY <1>11 DEF TakeAll
<1>12. ASSUME NEW c \in Consumers, WakeSpuriously(c) PROVE HelpComes'
  BY <1>12 DEF WakeSpuriously
<1>13. ASSUME NEW c \in Consumers, NEW f \in Calls, Call(c, f) PROVE HelpComes'
  BY <1>13 DEF Call
<1>14. CASE UNCHANGED vars
  BY <1>14 DEF vars
<1> QED
  BY <1>1, <1>2, <1>3, <1>4, <1>5, <1>6, <1>7, <1>8, <1>9, <1>10, <1>11, <1>12,
     <1>13, <1>14 DEF Next, Consume

-----------------------------------------------------------------------------
Section == TypeOK /\ MutexHeld /\ FrontExists /\ EmptyOnWait /\ CallsMatch

LEMMA SectionInvariant == Spec => []Section
<1>1. Init => Section
  BY InitInv DEF IInv, Section
<1>2. Section /\ [Next]_vars => Section'
  BY TypeStep, SectionStep DEF Section
<1> QED BY <1>1, <1>2, PTL DEF Spec

(* The variables have their types in every reachable state. *)
THEOREM TypeCorrect == Spec => []TypeOK
<1>1. Section => TypeOK
  BY DEF Section
<1> QED BY <1>1, SectionInvariant, PTL

(* m_data.front() and pop() are never applied to an empty queue, whatever  *)
(* the calls of the consumers, and nobody else is in a section meanwhile.  *)
THEOREM FrontIsThere == Spec => [](FrontExists /\ MutexHeld)
<1>1. Section => FrontExists /\ MutexHeld
  BY DEF Section
<1> QED BY <1>1, SectionInvariant, PTL

(* No consumer sleeps beside a queued item without a notification or a     *)
(* woken consumer on its way, if those who block do so in blocking_drain.  *)
THEOREM NobodyStranded ==
  ASSUME "blocking_pop" \notin Calls
  PROVE  Spec => []NoStrandedItem
<1>1. Init => IInv
  BY InitInv
<1>2. IInv /\ [Next]_vars => IInv'
  BY TypeStep, SectionStep, HelpStep DEF IInv, Stranded
<1>3. IInv => NoStrandedItem
  BY DEF IInv, HelpComes, NoStrandedItem
<1> QED BY <1>1, <1>2, <1>3, PTL DEF Spec

-----------------------------------------------------------------------------
(* Fifo. *)

LEMMA InitOrder == Init => OrderInv
BY DEF Init, OrderInv, PushedOnce, QueuedIsSuffix, ReceivedIsGone, ReceivedInOrder,
       ReceivedByOne, Gone

(* The same about plain sequences: P is pushed and L its length, G of them *)
(* have left the queue, D[c] is what consumer c received and N[c] its      *)
(* length.                                                                 *)
Ordered(P, L, G, D, N) ==
    /\ \A i, j \in 1 .. L : P[i] = P[j] => i = j
    /\ \A c \in Consumers : \A i \in 1 .. N[c] : \E j \in 1 .. G : D[c][i] = P[j]
    /\ \A c \in Consumers : \A i, j \in 1 .. N[c] : \A k, m \in 1 .. L :
         i < j /\ D[c][i] = P[k] /\ D[c][j] = P[m] => k < m
    /\ \A c, d \in Consumers : \A i \in 1 .. N[c], j \in 1 .. N[d] :
         D[c][i] = D[d][j] => c = d

Lengths == [c \in Consumers |-> Len(dest[c])]

LEMMA OrderedMeaning ==
  OrderInv <=> QueuedIsSuffix /\ Ordered(pushed, Len(pushed), Gone, dest, Lengths)
BY DEF OrderInv, Ordered, PushedOnce, ReceivedIsGone, ReceivedInOrder, ReceivedByOne, Lengths

(* A push adds x, which is new; what is gone stays so. *)
LEMMA PushKeepsOrder ==
  ASSUME NEW P, NEW Q, NEW L \in Nat, NEW G \in Nat, NEW H \in Nat, G <= H, G <= L,
         NEW D, NEW N \in [Consumers -> Nat], NEW x,
         \A i \in 1 .. L : Q[i] = P[i] /\ P[i] # x,
         Q[L + 1] = x,
         Ordered(P, L, G, D, N)
  PROVE  Ordered(Q, L + 1, H, D, N)
<1>1. \A i, j \in 1 .. L + 1 : Q[i] = Q[j] => i = j
  <2> TAKE i, j \in 1 .. L + 1
  <2>1. (i \in 1 .. L \/ i = L + 1) /\ (j \in 1 .. L \/ j = L + 1)
    OBVIOUS
  <2> QED BY <2>1 DEF Ordered
<1>2. \A c \in Consumers : \A i \in 1 .. N[c] : D[c][i] # x /\ \E j \in 1 .. G : D[c][i] = Q[j]
  <2> TAKE c \in Consumers
  <2> TAKE i \in 1 .. N[c]
  <2>1. PICK j \in 1 .. G : D[c][i] = P[j]
    BY DEF Ordered
  <2>2. j \in 1 .. L
    OBVIOUS
  <2> QED BY <2>1, <2>2
<1>3. \A c \in Consumers : \A i \in 1 .. N[c] : \E j \in 1 .. H : D[c][i] = Q[j]
  BY <1>2
<1>4. \A c \in Consumers : \A i, j \in 1 .. N[c] : \A k, m \in 1 .. L + 1 :
        i < j /\ D[c][i] = Q[k] /\ D[c][j] = Q[m] => k < m
  <2> TAKE c \in Consumers
  <2> TAKE i, j \in 1 .. N[c]
  <2> TAKE k, m \in 1 .. L + 1
  <2> HAVE i < j /\ D[c][i] = Q[k] /\ D[c][j] = Q[m]
  <2>1. k # L + 1 /\ m # L + 1
    BY <1>2
  <2>2. k \in 1 .. L /\ m \in 1 .. L
    BY <2>1
  <2> QED BY <2>2 DEF Ordered
<1> QED BY <1>1, <1>3, <1>4 DEF Ordered

(* A consumer c that takes the next n receives what was pushed after       *)
(* everything anybody has received.                                        *)
LEMMA TakeKeepsOrder ==
  ASSUME NEW P, NEW L \in Nat, NEW G \in Nat, NEW n \in Nat, G + n <= L,
         NEW D, NEW N \in [Consumers -> Nat], NEW E, NEW M \in [Consumers -> Nat],
         NEW c \in Consumers,
         \A d \in Consumers \ {c} : E[d] = D[d] /\ M[d] = N[d],
         M[c] = N[c] + n,
         \A i \in 1 .. N[c] : E[c][i] = D[c][i],
         \A i \in 1 .. n : E[c][N[c] + i] = P[G + i],
         Ordered(P, L, G, D, N)
  PROVE  Ordered(P, L, G + n, E, M)
<1> DEFINE New(d, i) == d = c /\ i > N[c]
<1>1. \A d \in Consumers : \A i \in 1 .. M[d] :
        ~New(d, i) => i \in 1 .. N[d] /\ E[d][i] = D[d][i] /\ \E j \in 1 .. G : E[d][i] = P[j]
  <2> TAKE d \in Consumers
  <2> TAKE i \in 1 .. M[d]
  <2> HAVE ~New(d, i)
  <2>1. i \in 1 .. N[d] /\ E[d][i] = D[d][i]
    OBVIOUS
  <2> QED BY <2>1 DEF Ordered
<1>2. \A d \in Consumers : \A i \in 1 .. M[d] :
        New(d, i) => /\ G + (i - N[c]) \in G + 1 .. G + n
                     /\ E[d][i] = P[G + (i - N[c])]
  <2> TAKE d \in Consumers
  <2> TAKE i \in 1 .. M[d]
  <2> HAVE New(d, i)
  <2>1. PICK k \in 1 .. n : i = N[c] + k
    <3>1. i - N[c] \in 1 .. n /\ i = N[c] + (i - N[c])
      OBVIOUS
    <3> QED BY <3>1
  <2>2. i - N[c] = k
    BY <2>1
  <2>3. E[c][N[c] + k] = P[G + k]
    OBVIOUS
  <2> QED BY <2>1, <2>2, <2>3
<1>3. \A i, j \in 1 .. L : P[i] = P[j] => i = j
  BY DEF Ordered
<1>4. \A d \in Consumers : \A i \in 1 .. M[d] : \E j \in 1 .. G + n : E[d][i] = P[j]
  <2> TAKE d \in Consumers
  <2> TAKE i \in 1 .. M[d]
  <2>1. CASE New(d, i)
    BY <2>1, <1>2
  <2>2. CASE ~New(d, i)
    BY <2>2, <1>1
  <2> QED BY <2>1, <2>2
<1>5. \A d \in Consumers : \A i, j \in 1 .. M[d] : \A k, m \in 1 .. L :
        i < j /\ E[d][i] = P[k] /\ E[d][j] = P[m] => k < m
  <2> TAKE d \in Consumers
  <2> TAKE i, j \in 1 .. M[d]
  <2> TAKE k, m \in 1 .. L
  <2> HAVE i < j /\ E[d][i] = P[k] /\ E[d][j] = P[m]
  <2>1. CASE ~New(d, j)
    <3>1. ~New(d, i)
      BY <2>1
    <3>2. i \in 1 .. N[d] /\ j \in 1 .. N[d] /\ D[d][i] = P[k] /\ D[d][j] = P[m]
      BY <2>1, <3>1, <1>1
    <3> QED BY <3>2 DEF Ordered
  <2>2. CASE New(d, j)
    <3>1. G + (j - N[c]) \in 1 .. L /\ P[m] = P[G + (j - N[c])] /\ j - N[c] \in 1 .. n
      BY <2>2, <1>2
    <3>2. m = G + (j - N[c])
      BY <3>1, <1>3
    <3>3. CASE New(d, i)
      <4>1. G + (i - N[c]) \in 1 .. L /\ P[k] = P[G + (i - N[c])]
        BY <3>3, <1>2
      <4>2. k = G + (i - N[c])
        BY <4>1, <1>3
      <4> QED BY <4>2, <3>2, <2>2
    <3>4. CASE ~New(d, i)
      <4>1. PICK h \in 1 .. G : E[d][i] = P[h]
        BY <3>4, <1>1
      <4>2. h \in 1 .. L
        OBVIOUS
      <4>3. k = h
        BY <4>1, <4>2, <1>3
      <4> QED BY <4>3, <3>1, <3>2
    <3> QED BY <3>3, <3>4
  <2> QED BY <2>1, <2>2
<1>6. \A d, e \in Consumers : \A i \in 1 .. M[d], j \in 1 .. M[e] :
        New(d, i) /\ ~New(e, j) => E[d][i] # E[e][j]
  <2> TAKE d, e \in Consumers
  <2> TAKE i \in 1 .. M[d], j \in 1 .. M[e]
  <2> HAVE New(d, i) /\ ~New(e, j)
  <2>1. PICK h \in 1 .. G : E[e][j] = P[h]
    BY <1>1
  <2>2. G + (i - N[c]) \in 1 .. L /\ h \in 1 .. L /\ G + (i - N[c]) # h
    BY <1>2
  <2>3. P[G + (i - N[c])] # P[h]
    BY <2>2, <1>3
  <2> QED BY <2>1, <2>3, <1>2
<1>7. \A d, e \in Consumers : \A i \in 1 .. M[d], j \in 1 .. M[e] :
        E[d][i] = E[e][j] => d = e
  <2> TAKE d, e \in Consumers
  <2> TAKE i \in 1 .. M[d], j \in 1 .. M[e]
  <2> HAVE E[d][i] = E[e][j]
  <2>1. CASE New(d, i) /\ New(e, j)
    BY <2>1
  <2>2. CASE ~New(d, i) /\ ~New(e, j)
    <3>1. i \in 1 .. N[d] /\ j \in 1 .. N[e] /\ D[d][i] = D[e][j]
      BY <2>2, <1>1
    <3> QED BY <3>1 DEF Ordered
  <2>3. CASE New(d, i) /\ ~New(e, j)
    BY <2>3, <1>6
  <2>4. CASE ~New(d, i) /\ New(e, j)
    BY <2>4, <1>6
  <2> QED BY <2>1, <2>2, <2>3, <2>4
<1> QED BY <1>3, <1>4, <1>5, <1>7 DEF Ordered

LEMMA Counts ==
  ASSUME TypeOK, OrderInv
  PROVE  /\ Len(data) \in Nat /\ Len(pushed) \in Nat /\ Gone \in Nat
         /\ Gone + Len(data) = Len(pushed)
         /\ Lengths \in [Consumers -> Nat]
         /\ \A i \in 1 .. Len(data) : data[i] = pushed[Gone + i]
         /\ Ordered(pushed, Len(pushed), Gone, dest, Lengths)
<1>1. Len(data) \in Nat /\ Len(pushed) \in Nat
  BY DEF TypeOK
<1>2. \A c \in Consumers : Len(dest[c]) \in Nat
  BY DEF TypeOK
<1>3. Lengths \in [Consumers -> Nat]
  BY <1>2 DEF Lengths
<1>4. QueuedIsSuffix /\ Ordered(pushed, Len(pushed), Gone, dest, Lengths)
  BY OrderedMeaning
<1>5. Gone \in Nat /\ \A i \in 1 .. Len(data) : data[i] = pushed[Gone + i]
  BY <1>4 DEF QueuedIsSuffix
<1>6. Gone + Len(data) = Len(pushed)
  BY <1>1 DEF Gone
<1> QED BY <1>1, <1>3, <1>4, <1>5, <1>6

(* What a trimmed sequence holds. *)
LEMMA TrimKeepsEnd ==
  ASSUME NEW s \in Seq(Items)
  PROVE  \E n \in Nat : /\ n <= Len(s)
                        /\ Len(Trim(s)) = Len(s) - n
                        /\ \A i \in 1 .. Len(s) - n : Trim(s)[i] = s[n + i]
<1>1. CASE Len(s) > MaxSize
  <2> DEFINE m == Len(s) - MaxSize
  <2>1. m \in Nat /\ m <= Len(s) /\ m + 1 \in Int /\ Len(s) \in Int
    BY <1>1
  <2>2. \A i \in m + 1 .. Len(s) : s[i] \in Items
    BY <2>1
  <2> HIDE DEF m
  <2>3. /\ Len(SubSeq(s, m + 1, Len(s))) = IF m + 1 <= Len(s) THEN Len(s) - (m + 1) + 1 ELSE 0
        /\ \A i \in 1 .. Len(s) - (m + 1) + 1 : SubSeq(s, m + 1, Len(s))[i] = s[(m + 1) + i - 1]
    BY <2>1, <2>2, SubSeqProperties
  <2>4. Trim(s) = SubSeq(s, m + 1, Len(s))
    BY <1>1 DEF Trim, m
  <2>5. Len(Trim(s)) = Len(s) - m
    BY <2>1, <2>3, <2>4
  <2>6. \A i \in 1 .. Len(s) - m : Trim(s)[i] = s[m + i]
    <3> TAKE i \in 1 .. Len(s) - m
    <3>1. (m + 1) + i - 1 = m + i /\ i \in 1 .. Len(s) - (m + 1) + 1
      BY <2>1
    <3> QED BY <2>3, <2>4, <3>1
  <2> QED BY <2>1, <2>5, <2>6
<1>2. CASE ~(Len(s) > MaxSize)
  <2>1. Trim(s) = s
    BY <1>2 DEF Trim
  <2> WITNESS 0 \in Nat
  <2> QED BY <2>1
<1> QED BY <1>1, <1>2

LEMMA PushOrder ==
  ASSUME TypeOK, TypeOK', OrderInv, NEW p \in Producers, NEW x \in Items, Push(p, x)
  PROVE  OrderInv'
<1> DEFINE added == Append(data, x)
<1>1. added \in Seq(Items) /\ Len(added) = Len(data) + 1 /\ added[Len(data) + 1] = x
      /\ \A i \in 1 .. Len(data) : added[i] = data[i]
  BY DEF TypeOK
<1>2. Len(pushed') = Len(pushed) + 1 /\ pushed'[Len(pushed) + 1] = x
      /\ \A i \in 1 .. Len(pushed) : pushed'[i] = pushed[i]
  BY DEF TypeOK, Push
<1>3. \A i \in 1 .. Len(pushed) : pushed[i] # x
  BY DEF TypeOK, Push, Elements
<1>4. \A i \in 1 .. Len(data) + 1 : added[i] = pushed'[Gone + i]
  <2> TAKE i \in 1 .. Len(data) + 1
  <2>1. CASE i = Len(data) + 1
    <3>1. Gone + i = Len(pushed) + 1
      BY <2>1, Counts
    <3> QED BY <2>1, <3>1, <1>1, <1>2
  <2>2. CASE i \in 1 .. Len(data)
    <3>1. Gone + i \in 1 .. Len(pushed) /\ data[i] = pushed[Gone + i]
      BY <2>2, Counts
    <3> QED BY <2>2, <3>1, <1>1, <1>2
  <2> QED BY <2>1, <2>2, Counts
<1>5. data' = Trim(added) /\ dest' = dest
  BY DEF Push
<1> HIDE DEF added
<1>6. PICK n \in Nat : /\ n <= Len(data) + 1
                       /\ Len(data') = Len(data) + 1 - n
                       /\ \A i \in 1 .. Len(data) + 1 - n : data'[i] = added[n + i]
  BY <1>1, <1>5, TrimKeepsEnd
<1>7. Gone' = Gone + n
  BY <1>2, <1>6, Counts DEF Gone
<1>8. QueuedIsSuffix'
  <2>1. \A i \in 1 .. Len(data') : data'[i] = pushed'[Gone' + i]
    <3> TAKE i \in 1 .. Len(data')
    <3>1. n + i \in 1 .. Len(data) + 1 /\ i \in 1 .. Len(data) + 1 - n
      BY <1>6, Counts
    <3>2. data'[i] = pushed'[Gone + (n + i)]
      BY <3>1, <1>4, <1>6
    <3>3. Gone + (n + i) = Gone' + i
      BY <1>7, Counts
    <3> QED BY <3>2, <3>3
  <2>2. Gone' \in Nat
    BY <1>7, Counts
  <2> QED BY <2>1, <2>2 DEF QueuedIsSuffix
<1>9. Ordered(pushed', Len(pushed) + 1, Gone + n, dest, Lengths)
  <2>1. Gone + n \in Nat /\ Gone <= Gone + n /\ Gone <= Len(pushed)
    BY Counts
  <2> QED BY <2>1, <1>2, <1>3, Counts, PushKeepsOrder
<1>10. Lengths' = Lengths
  BY <1>5 DEF Lengths
<1>11. Ordered(pushed, Len(pushed), Gone, dest, Lengths)'
  BY <1>2, <1>5, <1>7, <1>9, <1>10 DEF Ordered
<1>12. (OrderInv <=> QueuedIsSuffix /\ Ordered(pushed, Len(pushed), Gone, dest, Lengths))'
  BY OrderedMeaning, PTL
<1> QED BY <1>8, <1>11, <1>12

(* A consumer that removes the first n of the queue and receives them. *)
LEMMA TakeOrder ==
  ASSUME TypeOK, TypeOK', OrderInv, NEW c \in Consumers, NEW n \in Nat, n <= Len(data),
         pushed' = pushed,
         Len(data') = Len(data) - n,
         \A i \in 1 .. Len(data) - n : data'[i] = data[n + i],
         \A d \in Consumers \ {c} : dest'[d] = dest[d],
         Len(dest'[c]) = Len(dest[c]) + n,
         \A i \in 1 .. Len(dest[c]) : dest'[c][i] = dest[c][i],
         \A i \in 1 .. n : dest'[c][Len(dest[c]) + i] = data[i]
  PROVE  OrderInv'
<1>1. Gone' = Gone + n /\ Gone + n <= Len(pushed)
  BY Counts DEF Gone
<1>2. QueuedIsSuffix'
  <2>1. \A i \in 1 .. Len(data') : data'[i] = pushed'[Gone' + i]
    <3> TAKE i \in 1 .. Len(data')
    <3>1. i \in 1 .. Len(data) - n /\ n + i \in 1 .. Len(data)
      BY Counts
    <3>2. data'[i] = pushed[Gone + (n + i)]
      BY <3>1, Counts
    <3>3. Gone + (n + i) = Gone' + i
      BY <1>1, Counts
    <3> QED BY <3>2, <3>3
  <2>2. Gone' \in Nat
    BY <1>1, Counts
  <2> QED BY <2>1, <2>2 DEF QueuedIsSuffix
<1>3. Lengths' \in [Consumers -> Nat]
  <2>1. \A d \in Consumers : Len(dest'[d]) \in Nat
    BY DEF TypeOK
  <2> QED BY <2>1 DEF Lengths
<1>4. /\ \A d \in Consumers \ {c} : dest'[d] = dest[d] /\ Lengths'[d] = Lengths[d]
      /\ Lengths'[c] = Lengths[c] + n
      /\ \A i \in 1 .. Lengths[c] : dest'[c][i] = dest[c][i]
  BY DEF Lengths
<1>5. \A i \in 1 .. n : dest'[c][Lengths[c] + i] = pushed[Gone + i]
  <2> TAKE i \in 1 .. n
  <2>1. i \in 1 .. Len(data) /\ data[i] = pushed[Gone + i]
    BY Counts
  <2> QED BY <2>1 DEF Lengths
<1>6. Ordered(pushed, Len(pushed), Gone + n, dest', Lengths')
  <2> DEFINE L == Len(pushed)  E == dest'  M == Lengths'
  <2>1. /\ L \in Nat /\ Gone \in Nat /\ Gone + n <= L /\ Lengths \in [Consumers -> Nat]
        /\ Ordered(pushed, L, Gone, dest, Lengths)
    BY <1>1, Counts
  <2>2. /\ M \in [Consumers -> Nat] /\ M[c] = Lengths[c] + n
        /\ \A d \in Consumers \ {c} : E[d] = dest[d] /\ M[d] = Lengths[d]
        /\ \A i \in 1 .. Lengths[c] : E[c][i] = dest[c][i]
        /\ \A i \in 1 .. n : E[c][Lengths[c] + i] = pushed[Gone + i]
    BY <1>3, <1>4, <1>5
  <2> HIDE DEF L, E, M
  <2>3. Ordered(pushed, L, Gone + n, E, M)
    BY <2>1, <2>2, TakeKeepsOrder
  <2> QED BY <2>3 DEF L, E, M
<1>7. Ordered(pushed, Len(pushed), Gone, dest, Lengths)'
  BY <1>1, <1>6 DEF Ordered
<1>8. (OrderInv <=> QueuedIsSuffix /\ Ordered(pushed, Len(pushed), Gone, dest, Lengths))'
  BY OrderedMeaning, PTL
<1> QED BY <1>2, <1>7, <1>8

LEMMA TakeOneOrder ==
  ASSUME TypeOK, TypeOK', FrontExists, OrderInv, NEW c \in Consumers, TakeOne(c)
  PROVE  OrderInv'
<1>1. data # <<>> /\ data \in Seq(Items)
  BY DEF TakeOne, FrontExists, TypeOK
<1>2. data' = Tail(data) /\ dest'[c] = Append(dest[c], Head(data)) /\ pushed' = pushed
      /\ \A d \in Consumers \ {c} : dest'[d] = dest[d]
  BY DEF TakeOne, TypeOK
<1>3. /\ 1 <= Len(data) /\ Len(data') = Len(data) - 1
      /\ \A i \in 1 .. Len(data) - 1 : data'[i] = data[i + 1]
      /\ Head(data) = data[1]
  BY <1>1, <1>2, HeadTailProperties
<1>4. \A i \in 1 .. Len(data) - 1 : data'[i] = data[1 + i]
  BY <1>3
<1>5. /\ dest[c] \in Seq(Items) /\ Len(dest'[c]) = Len(dest[c]) + 1
      /\ \A i \in 1 .. Len(dest[c]) : dest'[c][i] = dest[c][i]
      /\ dest'[c][Len(dest[c]) + 1] = data[1]
  BY <1>2, <1>3 DEF TypeOK
<1>6. \A i \in 1 .. 1 : dest'[c][Len(dest[c]) + i] = data[i]
  BY <1>5
<1> QED BY <1>2, <1>3, <1>4, <1>5, <1>6, TakeOrder

LEMMA TakeAllOrder ==
  ASSUME TypeOK, TypeOK', OrderInv, NEW c \in Consumers, TakeAll(c)
  PROVE  OrderInv'
<1>1. data \in Seq(Items) /\ dest[c] \in Seq(Items)
  BY DEF TypeOK
<1>2. data' = <<>> /\ dest'[c] = dest[c] \o data /\ pushed' = pushed
      /\ \A d \in Consumers \ {c} : dest'[d] = dest[d]
  BY DEF TakeAll, TypeOK
<1>3. /\ Len(dest[c] \o data) = Len(dest[c]) + Len(data)
      /\ \A i \in 1 .. Len(dest[c]) + Len(data) :
           (dest[c] \o data)[i] = IF i <= Len(dest[c]) THEN dest[c][i] ELSE data[i - Len(dest[c])]
  BY <1>1, ConcatProperties
<1>4. Len(dest'[c]) = Len(dest[c]) + Len(data)
      /\ \A i \in 1 .. Len(dest[c]) : dest'[c][i] = dest[c][i]
  BY <1>1, <1>2, <1>3
<1>5. \A i \in 1 .. Len(data) : dest'[c][Len(dest[c]) + i] = data[i]
  <2> TAKE i \in 1 .. Len(data)
  <2>1. /\ Len(dest[c]) + i \in 1 .. Len(dest[c]) + Len(data)
        /\ ~(Len(dest[c]) + i <= Len(dest[c]))
        /\ (Len(dest[c]) + i) - Len(dest[c]) = i
    BY <1>1
  <2> QED BY <1>2, <1>3, <2>1
<1>6. /\ Len(data) \in Nat /\ Len(data) <= Len(data) /\ Len(data') = Len(data) - Len(data)
      /\ \A i \in 1 .. Len(data) - Len(data) : data'[i] = data[Len(data) + i]
  BY <1>1, <1>2
<1> QED BY <1>2, <1>4, <1>5, <1>6, TakeOrder

(* clear: everything queued is gone, nobody has received it. *)
LEMMA ClearOrder ==
  ASSUME TypeOK, TypeOK', OrderInv, data' = <<>>, UNCHANGED <<pushed, dest>>
  PROVE  OrderInv'
<1>1. Gone' = Len(pushed) /\ Len(data') = 0 /\ Gone <= Len(pushed)
  BY Counts DEF Gone
<1>2. QueuedIsSuffix'
  BY <1>1, Counts DEF QueuedIsSuffix
<1>3. ReceivedIsGone'
  BY <1>1, Counts DEF OrderInv, ReceivedIsGone
<1> QED BY <1>2, <1>3 DEF OrderInv, PushedOnce, ReceivedInOrder, ReceivedByOne

LEMMA SameOrder ==
  ASSUME OrderInv, UNCHANGED <<data, pushed, dest>>
  PROVE  OrderInv'
BY DEF OrderInv, PushedOnce, QueuedIsSuffix, ReceivedIsGone, ReceivedInOrder, ReceivedByOne, Gone

LEMMA OrderStep == TypeOK /\ TypeOK' /\ FrontExists /\ OrderInv /\ [Next]_vars => OrderInv'
<1> SUFFICES ASSUME TypeOK, TypeOK', FrontExists, OrderInv, [Next]_vars PROVE OrderInv'
  OBVIOUS
<1>1. ASSUME NEW p \in Producers, NotifyOne(p) PROVE OrderInv'
  BY <1>1, SameOrder DEF NotifyOne
<1>2. ASSUME NEW p \in Producers, NEW x \in Items, Push(p, x) PROVE OrderInv'
  BY <1>2, PushOrder
<1>3. CASE SetToken
  BY <1>3, SameOrder DEF SetToken
<1>4. ASSUME NEW k \in Controllers, Clear(k) PROVE OrderInv'
  BY <1>4, ClearOrder DEF Clear
<1>5. ASSUME NEW k \in Controllers, Cancelled(k) PROVE OrderInv'
  BY <1>5, SameOrder DEF Cancelled
<1>6. ASSUME NEW k \in Controllers, NotifyAll(k) PROVE OrderInv'
  BY <1>6, SameOrder DEF NotifyAll
<1>7. ASSUME NEW c \in Consumers, Test(c) PROVE OrderInv'
  BY <1>7, SameOrder DEF Test
<1>8. ASSUME NEW c \in Consumers, Wait(c) PROVE OrderInv'
  BY <1>8, SameOrder DEF Wait
<1>9. ASSUME NEW c \in Consumers, Check(c) PROVE OrderInv'
  BY <1>9, SameOrder DEF Check
<1>10. ASSUME NEW c \in Consumers, TakeOne(c) PROVE OrderInv'
  BY <1>10, TakeOneOrder
<1>11. ASSUME NEW c \in Consumers, TakeAll(c) PROVE OrderInv'
  BY <1>11, TakeAllOrder
<1>12. ASSUME NEW c \in Consumers, WakeSpuriously(c) PROVE OrderInv'
  BY <1>12, SameOrder DEF WakeSpuriously
<1>13. ASSUME NEW c \in Consumers, NEW f \in Calls, Call(c, f) PROVE OrderInv'
  BY <1>13, SameOrder DEF Call
<1>14. CASE UNCHANGED vars
  BY <1>14, SameOrder DEF vars
<1> QED
  BY <1>1, <1>2, <1>3, <1>4, <1>5, <1>6, <1>7, <1>8, <1>9, <1>10, <1>11, <1>12,
     <1>13, <1>14 DEF Next, Consume

(* OrderInv says what Fifo says: positions in pushed stand for the items. *)
LEMMA OrderMeansFifo == TypeOK /\ OrderInv => Fifo
<1> SUFFICES ASSUME TypeOK, OrderInv PROVE Fifo
  OBVIOUS
<1>1. \A i \in 1 .. Len(pushed) : Position(pushed[i]) = i
  <2> TAKE i \in 1 .. Len(pushed)
  <2>1. DOMAIN pushed = 1 .. Len(pushed)
    BY DEF TypeOK
  <2>2. \E j \in DOMAIN pushed : pushed[j] = pushed[i]
    BY <2>1
  <2>3. Position(pushed[i]) \in DOMAIN pushed /\ pushed[Position(pushed[i])] = pushed[i]
    BY <2>2 DEF Position
  <2> QED BY <2>1, <2>3 DEF OrderInv, PushedOnce
<1>2. \A c \in Consumers : DOMAIN dest[c] = 1 .. Len(dest[c])
  BY DEF TypeOK
<1>3. DOMAIN data = 1 .. Len(data)
  BY DEF TypeOK
<1>4. \A c \in Consumers : \A i \in 1 .. Len(dest[c]) : \E j \in 1 .. Len(pushed) :
        j <= Gone /\ dest[c][i] = pushed[j]
  BY Counts DEF OrderInv, ReceivedIsGone
<1>5. data = SubSeq(pushed, Len(pushed) - Len(data) + 1, Len(pushed))
  <2>1. Gone + 1 \in Int /\ Len(pushed) \in Int /\ Len(pushed) - Len(data) + 1 = Gone + 1
    BY Counts
  <2>2. \A i \in Gone + 1 .. Len(pushed) : pushed[i] \in Items
    BY Counts DEF TypeOK
  <2> DEFINE tail == SubSeq(pushed, Gone + 1, Len(pushed))
  <2>3. /\ tail \in Seq(Items)
        /\ Len(tail) = IF Gone + 1 <= Len(pushed) THEN Len(pushed) - (Gone + 1) + 1 ELSE 0
        /\ \A i \in 1 .. Len(pushed) - (Gone + 1) + 1 : tail[i] = pushed[(Gone + 1) + i - 1]
    BY <2>1, <2>2, SubSeqProperties
  <2> HIDE DEF tail
  <2>4. Len(tail) = Len(data)
    BY <2>3, Counts
  <2>5. \A i \in 1 .. Len(data) : data[i] = tail[i]
    <3> TAKE i \in 1 .. Len(data)
    <3>1. i \in 1 .. Len(pushed) - (Gone + 1) + 1 /\ (Gone + 1) + i - 1 = Gone + i
      BY Counts
    <3> QED BY <2>3, <3>1, Counts
  <2>6. data = tail
    BY <2>3, <2>4, <2>5, SeqEqual DEF TypeOK
  <2> QED BY <2>1, <2>6 DEF tail
<1>6. ASSUME NEW c \in Consumers PROVE Ascending(dest[c])
  <2> SUFFICES ASSUME NEW i \in 1 .. Len(dest[c]), NEW j \in 1 .. Len(dest[c]), i < j
               PROVE  Position(dest[c][i]) < Position(dest[c][j])
    BY <1>2 DEF Ascending
  <2>1. PICK k \in 1 .. Len(pushed) : dest[c][i] = pushed[k]
    BY <1>4
  <2>2. PICK m \in 1 .. Len(pushed) : dest[c][j] = pushed[m]
    BY <1>4
  <2>3. k < m
    BY <2>1, <2>2 DEF OrderInv, ReceivedInOrder
  <2> QED BY <2>1, <2>2, <2>3, <1>1
<1>7. ASSUME NEW c \in Consumers PROVE Elements(dest[c]) \cap Elements(data) = {}
  <2> SUFFICES ASSUME NEW i \in 1 .. Len(dest[c]), NEW j \in 1 .. Len(data), dest[c][i] = data[j]
               PROVE  FALSE
    BY <1>2, <1>3 DEF Elements
  <2>1. PICK k \in 1 .. Len(pushed) : k <= Gone /\ dest[c][i] = pushed[k]
    BY <1>4
  <2>2. data[j] = pushed[Gone + j]
    BY Counts
  <2>3. Gone + j \in 1 .. Len(pushed)
    BY Counts
  <2>4. Gone + j # k
    BY <2>1, Counts
  <2> QED BY <2>1, <2>2, <2>3, <2>4 DEF OrderInv, PushedOnce
<1>8. ASSUME NEW c \in Consumers, NEW d \in Consumers \ {c}
      PROVE  Elements(dest[c]) \cap Elements(dest[d]) = {}
  BY <1>2 DEF Elements, OrderInv, ReceivedByOne
<1> QED BY <1>5, <1>6, <1>7, <1>8 DEF Fifo

(* The inductive invariant behind Fifo holds in every reachable state. *)
LEMMA OrderInvariant == Spec => [](Section /\ OrderInv)
<1>1. Init => Section /\ OrderInv
  BY InitInv, InitOrder DEF IInv, Section
<1>2. Section /\ OrderInv /\ [Next]_vars => (Section /\ OrderInv)'
  BY TypeStep, SectionStep, OrderStep DEF Section
<1> QED BY <1>1, <1>2, PTL DEF Spec

(* First in, first out, once each, for any number of producers, consumers  *)
(* and items, any limit and any mix of calls.                              *)
THEOREM FirstInFirstOut == Spec => []Fifo
<1>1. Section /\ OrderInv => Fifo
  BY OrderMeansFifo DEF Section
<1> QED BY <1>1, OrderInvariant, PTL
=============================================================================
