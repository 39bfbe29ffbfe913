--------------------------- MODULE MediatorProofs ---------------------------
(***************************************************************************)
(* Proofs about Router and Mediator for any events, listeners, nesting of  *)
(* fires and sends.  The router is shown to keep the lists it iterates and *)
(* the tickets in step; the mediator to use its router as it is specified  *)
(* and to fire in the order of the sends.                                  *)
(***************************************************************************)
EXTENDS Mediator, FiniteSetTheorems, SequenceTheorems, TLAPS

-----------------------------------------------------------------------------
(* The inductive invariants of Router, in named parts. *)

\* A sentry is taken exactly while its event is fired, and each guard knows
\* whether it was before; only the innermost fire may be between listeners.
FiredIn(s, e, n) == \E i \in 1 .. n : s[i].event = e

Guarded ==
    /\ \A e \in Events : sentry[e] = FiredIn(stack, e, Len(stack))
    /\ \A i \in 1 .. Len(stack) : stack[i].previous = FiredIn(stack, stack[i].event, i - 1)
    /\ \A i \in 1 .. Len(stack) - 1 : stack[i].calling
    /\ \A i \in 1 .. Len(stack) : stack[i].calling =>
         stack[i].at <= Len(listeners[stack[i].event])

\* Numbers are drawn in a circle that the tickets do not close.
Added == {l \in Listeners : ticket[l].state # "none"}
Behind(l) == nextId - ticket[l].id + (IF ticket[l].id < nextId THEN 0 ELSE Ids)

IdsApart ==
    /\ \A l \in Added : Behind(l) <= Cardinality(Added)
    /\ \A l, m \in Added : ticket[l].id = ticket[m].id => l = m

\* An entry is its listener's only one, in the list of its event, and its
\* flag says whether the ticket is still there.
Matches(t, e, x) ==
    /\ EventOf[x.who] = e
    /\ x.id = t[x.who].id
    /\ t[x.who].state = IF x.valid THEN "alive" ELSE "destroyed"

EntriesMatch ==
    \A e \in Events :
        /\ \A i \in DOMAIN listeners[e] : Matches(ticket, e, listeners[e][i])
        /\ \A i \in DOMAIN pending[e] : Matches(ticket, e, pending[e][i]) /\ pending[e][i].valid

EntriesApart ==
    \A e \in Events :
        /\ \A i, j \in DOMAIN listeners[e] : listeners[e][i].who = listeners[e][j].who => i = j
        /\ \A i, j \in DOMAIN pending[e] : pending[e][i].who = pending[e][j].who => i = j
        /\ \A i \in DOMAIN listeners[e], j \in DOMAIN pending[e] :
             listeners[e][i].who # pending[e][j].who

Listed(l, s) == \E i \in DOMAIN s : s[i].who = l

AliveIsListed ==
    \A l \in Listeners : ticket[l].state = "alive" =>
        Listed(l, listeners[EventOf[l]]) \/ Listed(l, pending[EventOf[l]])

\* What a call of fire knows of the list it iterates.
Passed(f, p) == p < f.at \/ (p = f.at /\ f.calling)

AudienceInOrder(f, s) ==
    /\ \A k \in DOMAIN f.audience : Listed(f.audience[k], s)
    /\ \A j, k \in DOMAIN f.audience : \A p, q \in DOMAIN s :
         j < k /\ s[p].who = f.audience[j] /\ s[q].who = f.audience[k] => p < q
    /\ \A p \in DOMAIN s : s[p].valid => s[p].who \in ToSet(f.audience)

HeardInOrder(f, s) ==
    /\ ToSet(f.heard) \subseteq ToSet(f.audience)
    /\ \A k \in DOMAIN f.heard : \E p \in DOMAIN s : s[p].who = f.heard[k] /\ Passed(f, p)
    /\ \A j, k \in DOMAIN f.heard : \A p, q \in DOMAIN s :
         j < k /\ s[p].who = f.heard[j] /\ s[q].who = f.heard[k] => p < q

PassedIsHeard(f, s) ==
    \A p \in DOMAIN s :
        Passed(f, p) /\ s[p].who \in ToSet(f.audience) =>
            s[p].who \in ToSet(f.heard) \/ ~s[p].valid

FrameInv(f, s) == AudienceInOrder(f, s) /\ HeardInOrder(f, s) /\ PassedIsHeard(f, s)

FiresKnow == \A i \in DOMAIN stack : FrameInv(stack[i], listeners[stack[i].event])

IInv ==
    /\ TypeOK /\ Guarded
    /\ IdsApart /\ EntriesMatch /\ EntriesApart /\ AliveIsListed /\ PendingWaitsForFire
    /\ FiresKnow

-----------------------------------------------------------------------------
(* The inductive invariant behind SendsInOrder, in named parts. *)

\* The tick fires one piece of work at a time, and its calls do not nest.
TickInTurn ==
    /\ at # 0 => wiring = "mediated"
    /\ wiring = "mediated" => Len(stack) <= 1 /\ (stack # <<>> => at \in DOMAIN workload)

\* Numbers rise from what was fired to what is in the workload and queued.
NumbersRise ==
    /\ \A k \in DOMAIN work : work[k] <= Len(sent)
    /\ \A k \in DOMAIN workload : workload[k] <= Len(sent)
    /\ \A k \in DOMAIN fired : fired[k] <= Len(sent)
    /\ \A j, k \in DOMAIN work : j < k => work[j] < work[k]
    /\ \A j, k \in DOMAIN workload : j < k => workload[j] < workload[k]
    /\ \A j \in DOMAIN workload, k \in DOMAIN work : workload[j] < work[k]
    /\ \A j \in DOMAIN fired, k \in DOMAIN work : fired[j] < work[k]

\* Since the last exception only what precedes the rest of the workload was
\* fired, and all of it.
Rest(k) == k > at \/ (k = at /\ stack = <<>>)
SinceThrow(s, j) == \A k \in j .. Len(s) : s[k] # 0

RestComesLater ==
    /\ \A j \in DOMAIN fired, k \in DOMAIN workload :
         SinceThrow(fired, j) /\ Rest(k) => fired[j] < workload[k]
    /\ \A k \in DOMAIN workload : ~Rest(k) => workload[k] \in ToSet(fired)

MediatorInv ==
    /\ MediatorTypeOK
    /\ TickInTurn /\ NumbersRise /\ RestComesLater /\ SendsInOrder

-----------------------------------------------------------------------------
(* What remove_if keeps. *)

\* Counting the elements up to each numbers a finite set of naturals.
LEMMA Ranks ==
  ASSUME NEW n \in Nat, NEW S, S \subseteq 1 .. n
  PROVE  /\ Cardinality(S) \in Nat
         /\ \A i \in S : Rank(S, i) \in 1 .. Cardinality(S)
         /\ \A i, j \in S : i < j => Rank(S, i) < Rank(S, j)
         /\ \A k \in 1 .. Cardinality(S) : \E i \in S : Rank(S, i) = k
<1> DEFINE Below(i) == {j \in S : j <= i}
           f == [i \in S |-> Rank(S, i)]
<1>0. \A i \in S : i \in Nat
  OBVIOUS
<1>1. IsFiniteSet(S) /\ Cardinality(S) \in Nat
  <2>1. 1 \in Int /\ n \in Int
    OBVIOUS
  <2>2. IsFiniteSet(1 .. n)
    BY <2>1, FS_Interval
  <2>3. IsFiniteSet(S)
    BY <2>2, FS_Subset
  <2> QED BY <2>3, FS_CardinalityType
<1>2. ASSUME NEW i \in S
      PROVE  /\ IsFiniteSet(Below(i))
             /\ Rank(S, i) \in Nat
             /\ Rank(S, i) \in 1 .. Cardinality(S)
  <2>1. IsFiniteSet(Below(i)) /\ Cardinality(Below(i)) <= Cardinality(S)
    BY <1>1, FS_Subset
  <2>2. i \in Below(i)
    OBVIOUS
  <2>3. Cardinality(Below(i)) \in Nat /\ Cardinality(Below(i)) # 0
    BY <2>1, <2>2, FS_CardinalityType, FS_EmptySet
  <2> QED BY <1>1, <2>1, <2>3 DEF Rank
<1>3. ASSUME NEW i \in S, NEW j \in S, i < j PROVE Rank(S, i) < Rank(S, j)
  <2>1. Below(i) \subseteq Below(j) /\ j \in Below(j) /\ j \notin Below(i)
    <3>1. \A k \in S : k <= i => k <= j
      BY <1>0, <1>3
    <3>2. j <= j /\ ~(j <= i)
      BY <1>0, <1>3
    <3> QED BY <3>1, <3>2
  <2>2. Cardinality(Below(i)) <= Cardinality(Below(j))
        /\ Cardinality(Below(i)) # Cardinality(Below(j))
    BY <1>2, <2>1, FS_Subset
  <2>3. Rank(S, i) \in Nat /\ Rank(S, j) \in Nat
    BY <1>2
  <2> QED BY <2>2, <2>3 DEF Rank
<1>4. f \in Injection(S, 1 .. Cardinality(S))
  <2>1. f \in [S -> 1 .. Cardinality(S)]
    BY <1>2
  <2>2. ASSUME NEW i \in S, NEW j \in S, f[i] = f[j] PROVE i = j
    <3>1. Rank(S, i) = Rank(S, j) /\ Rank(S, i) \in Nat
      BY <1>2, <2>2
    <3>2. ~(i < j) /\ ~(j < i)
      BY <1>3, <3>1
    <3> QED BY <1>0, <3>2
  <2> QED BY <2>1, <2>2 DEF Injection, IsInjective
<1>5. f \in Surjection(S, 1 .. Cardinality(S))
  <2>1. IsFiniteSet(1 .. Cardinality(S)) /\ Cardinality(1 .. Cardinality(S)) = Cardinality(S)
    BY <1>1, FS_Interval
  <2> QED BY <1>4, <2>1, FS_Injection
<1>6. \A k \in 1 .. Cardinality(S) : \E i \in S : Rank(S, i) = k
  BY <1>5 DEF Surjection
<1> QED BY <1>1, <1>2, <1>3, <1>6

\* Valid(s) is a copy of s at rising positions, and these are all the valid ones.
Positions(s, t, pos) ==
    /\ pos \in [DOMAIN t -> DOMAIN s]
    /\ \A k \in DOMAIN t : t[k] = s[pos[k]] /\ s[pos[k]].valid
    /\ \A j, k \in DOMAIN t : j < k => pos[j] < pos[k]
    /\ \A i \in DOMAIN s : s[i].valid => \E k \in DOMAIN t : pos[k] = i

LEMMA ValidPositions ==
  ASSUME NEW I, NEW s \in Seq(I)
  PROVE  Valid(s) \in Seq(I) /\ \E pos : Positions(s, Valid(s), pos)
<1> DEFINE S == ValidAt(s)
           n == Cardinality(S)
           pos == [k \in 1 .. n |-> CHOOSE i \in S : Rank(S, i) = k]
<1>1. S \subseteq 1 .. Len(s) /\ Len(s) \in Nat /\ DOMAIN s = 1 .. Len(s)
      /\ (\A i \in S : i \in Nat) /\ \A i \in 1 .. Len(s) : s[i] \in I
  BY DEF ValidAt
<1>2. /\ n \in Nat
      /\ \A i \in S : Rank(S, i) \in 1 .. n
      /\ \A i, j \in S : i < j => Rank(S, i) < Rank(S, j)
      /\ \A k \in 1 .. n : \E i \in S : Rank(S, i) = k
  BY <1>1, Ranks
<1>3. \A k \in 1 .. n : pos[k] \in S /\ Rank(S, pos[k]) = k
  BY <1>2
<1>4. Valid(s) = [k \in 1 .. n |-> s[pos[k]]]
  BY DEF Valid
<1> HIDE DEF S, n, pos
<1>5. DOMAIN Valid(s) = 1 .. n /\ \A k \in 1 .. n : Valid(s)[k] = s[pos[k]]
  BY <1>4
<1>6. Valid(s) \in Seq(I)
  <2>1. \A k \in 1 .. n : s[pos[k]] \in I
    BY <1>1, <1>3
  <2> QED BY <1>2, <1>4, <2>1
<1>7. \A j, k \in 1 .. n : j < k => pos[j] < pos[k]
  <2> SUFFICES ASSUME NEW j \in 1 .. n, NEW k \in 1 .. n, j < k PROVE pos[j] < pos[k]
    OBVIOUS
  <2>1. pos[j] \in Nat /\ pos[k] \in Nat
    BY <1>1, <1>3
  <2>2. ~(pos[k] < pos[j]) /\ pos[k] # pos[j]
    BY <1>2, <1>3
  <2> QED BY <2>1, <2>2
<1>8. \A i \in S : \E k \in 1 .. n : pos[k] = i
  <2> SUFFICES ASSUME NEW i \in S PROVE \E k \in 1 .. n : pos[k] = i
    OBVIOUS
  <2> DEFINE k == Rank(S, i)
  <2>1. k \in 1 .. n
    BY <1>2
  <2>2. pos[k] \in S /\ Rank(S, pos[k]) = k
    BY <1>3, <2>1
  <2>3. ~(pos[k] < i) /\ ~(i < pos[k])
    BY <1>2, <2>1, <2>2
  <2>4. pos[k] \in Nat /\ i \in Nat
    BY <1>1, <2>2
  <2>5. pos[k] = i
    BY <2>3, <2>4
  <2> QED BY <2>1, <2>5
<1>9. Positions(s, Valid(s), pos)
  <2>1. pos \in [1 .. n -> DOMAIN s]
    <3>1. pos = [k \in 1 .. n |-> pos[k]]
      BY DEF pos
    <3> QED BY <1>1, <1>3, <3>1
  <2>2. \A k \in 1 .. n : s[pos[k]].valid
    BY <1>3 DEF S, ValidAt
  <2>3. \A i \in DOMAIN s : s[i].valid => i \in S
    BY DEF S, ValidAt
  <2> QED BY <1>5, <1>7, <1>8, <2>1, <2>2, <2>3 DEF Positions
<1> QED BY <1>6, <1>9

-----------------------------------------------------------------------------
(* The types, and what the steps do to the stack and the lists. *)

USE RouterAssumption

LEMMA FollowingType ==
  ASSUME NEW n \in 0 .. Ids - 1
  PROVE  /\ Following(n) \in 0 .. Ids - 1
         /\ Following(n) = IF n + 1 = Ids THEN 0 ELSE n + 1
BY DEF Following

(* find_if: the position of the first entry with the number. *)
Found(l) == SelectInSeq(listeners[EventOf[l]], LAMBDA x : x.id = ticket[l].id)

LEMMA FoundIsThere ==
  ASSUME TypeOK, NEW l \in Listeners, IsFound(l)
  PROVE  /\ Found(l) \in DOMAIN listeners[EventOf[l]]
         /\ listeners[EventOf[l]][Found(l)].id = ticket[l].id
<1> DEFINE s == listeners[EventOf[l]]
           I == {i \in 1 .. Len(s) : s[i].id = ticket[l].id}
<1>1. s \in Seq(ListenerEntries) /\ Len(s) \in Nat /\ DOMAIN s = 1 .. Len(s)
  BY DEF TypeOK
<1>2. I # {}
  BY <1>1 DEF IsFound
<1>3. Found(l) = Min(I)
  BY <1>2 DEF Found, SelectInSeq
<1>4. PICK i \in I : Rank(I, i) = 1
  <2>1. I \subseteq 1 .. Len(s)
    OBVIOUS
  <2>2. 1 \in 1 .. Cardinality(I)
    <3>1. PICK j \in I : Rank(I, j) \in 1 .. Cardinality(I)
      BY <1>1, <1>2, <2>1, Ranks
    <3>2. Cardinality(I) \in Nat
      BY <1>1, <2>1, Ranks
    <3> QED BY <3>1, <3>2
  <2> QED BY <1>1, <2>1, <2>2, Ranks
<1>5. \A j \in I : i <= j
  <2> SUFFICES ASSUME NEW j \in I, j < i PROVE FALSE
    BY <1>1
  <2>1. Rank(I, j) < Rank(I, i) /\ Rank(I, j) \in 1 .. Cardinality(I)
    BY <1>1, Ranks
  <2>2. Cardinality(I) \in Nat
    BY <1>1, Ranks
  <2> QED BY <1>4, <2>1, <2>2
<1>6. Min(I) \in I
  BY <1>5 DEF Min
<1> QED BY <1>1, <1>3, <1>6

\* An entry that is only disabled keeps its place and its listener.
Lowered(s, t) ==
    /\ DOMAIN t = DOMAIN s
    /\ \A p \in DOMAIN s : /\ t[p].who = s[p].who
                           /\ t[p].id = s[p].id
                           /\ t[p].valid => s[p].valid

LEMMA LoweredEntry ==
  ASSUME NEW x \in ListenerEntries
  PROVE  LET y == [x EXCEPT !.valid = FALSE]
         IN  y \in ListenerEntries /\ y.who = x.who /\ y.id = x.id /\ y.valid = FALSE
<1> DEFINE y == [x EXCEPT !["valid"] = FALSE]
<1>1. DOMAIN x = {"who", "id", "valid"} /\ x.who \in Listeners /\ x.id \in 0 .. Ids - 1
  BY DEF ListenerEntries
<1>2. y.who = x.who /\ y.id = x.id /\ y.valid = FALSE
  BY <1>1
<1>3. DOMAIN y = {"who", "id", "valid"} /\ y = [f \in DOMAIN y |-> y[f]]
  BY <1>1
<1>4. y \in ListenerEntries
  BY <1>1, <1>2, <1>3 DEF ListenerEntries
<1> QED BY <1>2, <1>4

LEMMA WithoutOne ==
  ASSUME NEW I, NEW s \in Seq(I), NEW i \in 1 .. Len(s)
  PROVE  /\ RemoveAt(s, i) \in Seq(I)
         /\ Len(RemoveAt(s, i)) = Len(s) - 1
         /\ \A p \in 1 .. Len(s) - 1 : RemoveAt(s, i)[p] = s[IF p < i THEN p ELSE p + 1]
<1> DEFINE a == SubSeq(s, 1, i - 1)
           b == SubSeq(s, i + 1, Len(s))
<1>1. Len(s) \in Nat /\ \A k \in 1 .. Len(s) : s[k] \in I
  OBVIOUS
<1>2. a \in Seq(I) /\ Len(a) = i - 1 /\ \A p \in 1 .. i - 1 : a[p] = s[p]
  BY <1>1, SubSeqProperties
<1>3. b \in Seq(I) /\ Len(b) = Len(s) - i /\ \A p \in 1 .. Len(s) - i : b[p] = s[i + p]
  BY <1>1, SubSeqProperties
<1> HIDE DEF a, b
<1>4. a \o b \in Seq(I) /\ Len(a \o b) = Len(s) - 1
      /\ \A p \in 1 .. Len(s) - 1 : (a \o b)[p] = IF p <= i - 1 THEN a[p] ELSE b[p - (i - 1)]
  <2>1. Len(a) + Len(b) = Len(s) - 1 /\ Len(a) = i - 1
    BY <1>1, <1>2, <1>3
  <2>2. a \o b \in Seq(I) /\ Len(a \o b) = Len(a) + Len(b)
        /\ \A p \in 1 .. Len(a) + Len(b) : (a \o b)[p] = IF p <= Len(a) THEN a[p] ELSE b[p - Len(a)]
    <3>1. a \in Seq(I) /\ b \in Seq(I)
      BY <1>2, <1>3
    <3> QED BY <3>1, ConcatProperties
  <2> QED BY <2>1, <2>2
<1>5. \A p \in 1 .. Len(s) - 1 : (a \o b)[p] = s[IF p < i THEN p ELSE p + 1]
  <2> TAKE p \in 1 .. Len(s) - 1
  <2>1. CASE p < i
    BY <1>1, <1>2, <1>4, <2>1
  <2>2. CASE ~(p < i)
    <3>1. p - (i - 1) \in 1 .. Len(s) - i /\ i + (p - (i - 1)) = p + 1
      BY <1>1, <2>2
    <3> QED BY <1>1, <1>3, <1>4, <2>2, <3>1
  <2> QED BY <2>1, <2>2
<1> QED BY <1>4, <1>5 DEF RemoveAt, a, b

LEMMA DisableEffect ==
  ASSUME TypeOK, NEW l \in Listeners, IsFound(l), Disable(EventOf[l], Found(l))
  PROVE  LET e == EventOf[l]
             s == listeners[e]
             i == Found(l)
             t == listeners'[e]
         IN  /\ listeners' = [listeners EXCEPT ![e] = t]
             /\ t \in Seq(ListenerEntries)
             /\ sentry[e] =>
                  /\ Lowered(s, t) /\ t[i].valid = FALSE
                  /\ \A p \in DOMAIN s \ {i} : t[p] = s[p]
             /\ ~sentry[e] =>
                  /\ \A p \in DOMAIN t : t[p] = s[IF p < i THEN p ELSE p + 1]
                                         /\ (IF p < i THEN p ELSE p + 1) \in DOMAIN s \ {i}
                  /\ \A p \in DOMAIN s \ {i} : (IF p < i THEN p ELSE p - 1) \in DOMAIN t
<1> DEFINE e == EventOf[l]
           s == listeners[e]
           i == Found(l)
           t == listeners'[e]
<1>1. s \in Seq(ListenerEntries) /\ i \in DOMAIN s /\ e \in Events
  BY FoundIsThere DEF TypeOK
<1>2. t = (IF sentry[e] THEN [s EXCEPT ![i].valid = FALSE] ELSE RemoveAt(s, i))
      /\ listeners' = [listeners EXCEPT ![e] = t]
  BY <1>1 DEF Disable, TypeOK
<1> HIDE DEF i
<1>3. CASE sentry[e]
  <2>1. t = [s EXCEPT ![i] = [s[i] EXCEPT !.valid = FALSE]]
    BY <1>2, <1>3
  <2>2. s[i] \in ListenerEntries /\ [s[i] EXCEPT !.valid = FALSE] \in ListenerEntries
    BY <1>1, LoweredEntry
  <2>3. t \in Seq(ListenerEntries)
    BY <1>1, <2>1, <2>2
  <2>4. [s[i] EXCEPT !.valid = FALSE].who = s[i].who /\ [s[i] EXCEPT !.valid = FALSE].id = s[i].id
        /\ [s[i] EXCEPT !.valid = FALSE].valid = FALSE
    BY <2>2, LoweredEntry
  <2> QED BY <1>1, <1>2, <1>3, <2>1, <2>3, <2>4 DEF Lowered, i
<1>4. CASE ~sentry[e]
  <2>1. t = RemoveAt(s, i) /\ i \in 1 .. Len(s) /\ DOMAIN s = 1 .. Len(s) /\ Len(s) \in Nat
    BY <1>1, <1>2, <1>4
  <2>2. t \in Seq(ListenerEntries) /\ Len(t) = Len(s) - 1
        /\ \A p \in 1 .. Len(s) - 1 : t[p] = s[IF p < i THEN p ELSE p + 1]
    <3> HIDE DEF s, t
    <3>1. s \in Seq(ListenerEntries) /\ i \in 1 .. Len(s)
      BY <1>1, <2>1
    <3>2. /\ RemoveAt(s, i) \in Seq(ListenerEntries) /\ Len(RemoveAt(s, i)) = Len(s) - 1
          /\ \A p \in 1 .. Len(s) - 1 : RemoveAt(s, i)[p] = s[IF p < i THEN p ELSE p + 1]
      BY <3>1, WithoutOne
    <3> QED BY <2>1, <3>2
  <2>3. DOMAIN t = 1 .. Len(s) - 1
    BY <2>2
  <2>4. \A p \in 1 .. Len(s) - 1 : (IF p < i THEN p ELSE p + 1) \in DOMAIN s \ {i}
    BY <2>1
  <2>5. \A p \in DOMAIN s \ {i} : (IF p < i THEN p ELSE p - 1) \in 1 .. Len(s) - 1
    BY <2>1
  <2> HIDE DEF s, t, e
  <2>6. /\ \A p \in DOMAIN t : t[p] = s[IF p < i THEN p ELSE p + 1]
                               /\ (IF p < i THEN p ELSE p + 1) \in DOMAIN s \ {i}
        /\ \A p \in DOMAIN s \ {i} : (IF p < i THEN p ELSE p - 1) \in DOMAIN t
    BY <2>2, <2>3, <2>4, <2>5
  <2> QED BY <1>2, <1>4, <2>2, <2>6 DEF i, s, t, e
<1> QED BY <1>3, <1>4 DEF i

-----------------------------------------------------------------------------
(* The stack of the calls of fire. *)

LEMMA StackFacts ==
  ASSUME TypeOK
  PROVE  /\ Len(stack) \in Nat /\ DOMAIN stack = 1 .. Len(stack)
         /\ \A i \in 1 .. Len(stack) : stack[i] \in Frames
         /\ stack # <<>> => /\ Len(stack) \in 1 .. Len(stack)
                            /\ Top = stack[Len(stack)] /\ Top \in Frames
BY DEF TypeOK, Top

LEMMA FrameFacts ==
  ASSUME NEW f \in Frames
  PROVE  /\ f.event \in Events /\ f.at \in Nat \ {0} /\ f.previous \in BOOLEAN
         /\ f.calling \in BOOLEAN /\ f.audience \in Seq(Listeners) /\ f.heard \in Seq(Listeners)
BY DEF Frames

LEMMA ListFacts ==
  ASSUME TypeOK, NEW e \in Events
  PROVE  /\ listeners[e] \in Seq(ListenerEntries) /\ pending[e] \in Seq(ListenerEntries)
         /\ Len(listeners[e]) \in Nat /\ DOMAIN listeners[e] = 1 .. Len(listeners[e])
         /\ Len(pending[e]) \in Nat /\ DOMAIN pending[e] = 1 .. Len(pending[e])
         /\ \A i \in DOMAIN listeners[e] : listeners[e][i] \in ListenerEntries
         /\ \A i \in DOMAIN pending[e] : pending[e][i] \in ListenerEntries
BY DEF TypeOK

\* The calls of fire below the innermost one stay as they are.
Pushed(f) ==
    /\ stack' \in Seq(Frames) /\ Len(stack') = Len(stack) + 1
    /\ \A i \in 1 .. Len(stack) : stack'[i] = stack[i]
    /\ stack'[Len(stack) + 1] = f

Stepped(f) ==
    /\ stack # <<>>
    /\ stack' \in Seq(Frames) /\ Len(stack') = Len(stack)
    /\ \A i \in 1 .. Len(stack) - 1 : stack'[i] = stack[i]
    /\ stack'[Len(stack)] = f

Left ==
    /\ stack # <<>>
    /\ stack' \in Seq(Frames) /\ Len(stack') = Len(stack) - 1
    /\ \A i \in 1 .. Len(stack) - 1 : stack'[i] = stack[i]

LEMMA StepsTheTop ==
  ASSUME TypeOK, stack # <<>>, NEW f \in Frames, stack' = Replaced(f)
  PROVE  Stepped(f)
BY StackFacts DEF TypeOK, Replaced, Stepped

LEMMA LeavesTheTop ==
  ASSUME TypeOK, stack # <<>>, stack' = Popped
  PROVE  Left
<1>1. stack \in Seq(Frames) /\ 1 \in 1 .. Len(stack) + 1 /\ Len(stack) - 1 \in 0 .. Len(stack)
      /\ Len(stack) - 1 = (Len(stack) - 1) - 1 + 1 /\ Len(stack) \in Nat /\ Len(stack) # 0
  BY StackFacts DEF TypeOK
<1>2. /\ SubSeq(stack, 1, Len(stack) - 1) \in Seq(Frames)
      /\ Len(SubSeq(stack, 1, Len(stack) - 1)) = Len(stack) - 1
      /\ \A i \in 1 .. Len(stack) - 1 : SubSeq(stack, 1, Len(stack) - 1)[i] = stack[i]
  <2> DEFINE n == Len(stack) - 1
  <2>1. n \in Nat /\ n <= Len(stack)
    BY <1>1
  <2>2. \A i \in 1 .. n : stack[i] \in Frames
    BY <1>1, <2>1, StackFacts
  <2> HIDE DEF n
  <2>3. SubSeq(stack, 1, n) = [i \in 1 .. n |-> stack[i]]
    BY <1>1, <2>1
  <2>4. SubSeq(stack, 1, n) \in Seq(Frames) /\ Len(SubSeq(stack, 1, n)) = n
    BY <2>1, <2>2, <2>3
  <2> QED BY <2>3, <2>4 DEF n
<1> QED BY <1>2 DEF Popped, Left

\* The steps of a call of fire between its listeners.
LEMMA FrameCalls ==
  ASSUME NEW f \in Frames, NEW l \in Listeners
  PROVE  LET g == [f EXCEPT !.calling = TRUE, !.heard = Append(@, l)]
         IN  /\ g \in Frames
             /\ g.event = f.event /\ g.previous = f.previous /\ g.audience = f.audience
             /\ g.at = f.at /\ g.calling = TRUE /\ g.heard = Append(f.heard, l)
<1> DEFINE g == [f EXCEPT !.calling = TRUE, !.heard = Append(@, l)]
           F == {"event", "at", "previous", "calling", "audience", "heard"}
<1>1. /\ DOMAIN f = F
      /\ f.event \in Events /\ f.at \in Nat \ {0} /\ f.previous \in BOOLEAN
      /\ f.calling \in BOOLEAN /\ f.audience \in Seq(Listeners) /\ f.heard \in Seq(Listeners)
      /\ Append(f.heard, l) \in Seq(Listeners)
  BY DEF Frames
<1>2. /\ DOMAIN g = F /\ g = [c \in DOMAIN g |-> g[c]]
      /\ g.event = f.event /\ g.previous = f.previous /\ g.audience = f.audience
      /\ g.at = f.at /\ g.calling = TRUE /\ g.heard = Append(f.heard, l)
  BY <1>1
<1> HIDE DEF g
<1>3. g \in Frames
  BY <1>1, <1>2 DEF Frames
<1> QED BY <1>2, <1>3 DEF g

LEMMA FrameMoves ==
  ASSUME NEW f \in Frames
  PROVE  LET h == [f EXCEPT !.at = @ + 1]
             r == [f EXCEPT !.calling = FALSE, !.at = @ + 1]
         IN  /\ h \in Frames /\ r \in Frames
             /\ h.event = f.event /\ h.previous = f.previous /\ h.audience = f.audience
             /\ h.at = f.at + 1 /\ h.calling = f.calling /\ h.heard = f.heard
             /\ r.event = f.event /\ r.previous = f.previous /\ r.audience = f.audience
             /\ r.at = f.at + 1 /\ r.calling = FALSE /\ r.heard = f.heard
<1> DEFINE h == [f EXCEPT !.at = @ + 1]
           r == [f EXCEPT !.calling = FALSE, !.at = @ + 1]
           F == {"event", "at", "previous", "calling", "audience", "heard"}
<1>1. /\ DOMAIN f = F
      /\ f.event \in Events /\ f.at \in Nat \ {0} /\ f.previous \in BOOLEAN
      /\ f.calling \in BOOLEAN /\ f.audience \in Seq(Listeners) /\ f.heard \in Seq(Listeners)
      /\ f.at + 1 \in Nat \ {0}
  BY DEF Frames
<1>2. /\ DOMAIN h = F /\ h = [c \in DOMAIN h |-> h[c]]
      /\ h.event = f.event /\ h.previous = f.previous /\ h.audience = f.audience
      /\ h.at = f.at + 1 /\ h.calling = f.calling /\ h.heard = f.heard
  BY <1>1
<1>3. /\ DOMAIN r = F /\ r = [c \in DOMAIN r |-> r[c]]
      /\ r.event = f.event /\ r.previous = f.previous /\ r.audience = f.audience
      /\ r.at = f.at + 1 /\ r.calling = FALSE /\ r.heard = f.heard
  BY <1>1
<1> HIDE DEF h, r
<1>4. h \in Frames
  BY <1>1, <1>2 DEF Frames
<1>5. r \in Frames
  BY <1>1, <1>3 DEF Frames
<1> QED BY <1>2, <1>3, <1>4, <1>5 DEF h, r

LEMMA NamesType ==
  ASSUME NEW s \in Seq(ListenerEntries)
  PROVE  /\ Names(s) \in Seq(Listeners) /\ DOMAIN Names(s) = DOMAIN s
         /\ \A i \in DOMAIN s : Names(s)[i] = s[i].who
<1>1. DOMAIN s = 1 .. Len(s) /\ Len(s) \in Nat /\ \A i \in 1 .. Len(s) : s[i] \in ListenerEntries
  OBVIOUS
<1>2. \A i \in 1 .. Len(s) : s[i].who \in Listeners
  BY <1>1 DEF ListenerEntries
<1>3. Names(s) = [i \in 1 .. Len(s) |-> s[i].who]
  BY <1>1 DEF Names
<1> QED BY <1>1, <1>2, <1>3

LEMMA CurrentFacts ==
  ASSUME TypeOK, ~CallerRuns, ~AtEnd
  PROVE  /\ stack # <<>> /\ Top \in Frames /\ ~Top.calling
         /\ Top.at \in 1 .. Len(listeners[Top.event])
         /\ Current \in ListenerEntries /\ Current.who \in Listeners
<1>1. stack # <<>> /\ ~Top.calling
  BY DEF CallerRuns
<1>2. Top \in Frames
  BY <1>1, StackFacts
<1>3. Top.event \in Events /\ Top.at \in Nat \ {0}
  BY <1>2, FrameFacts
<1>4. Len(listeners[Top.event]) \in Nat
      /\ \A i \in 1 .. Len(listeners[Top.event]) : listeners[Top.event][i] \in ListenerEntries
  BY <1>3, ListFacts
<1>5. Top.at \in 1 .. Len(listeners[Top.event])
  BY <1>3, <1>4 DEF AtEnd
<1>6. Current \in ListenerEntries
  BY <1>4, <1>5 DEF Current
<1>7. Current.who \in Listeners
  BY <1>6 DEF ListenerEntries
<1> QED BY <1>1, <1>2, <1>5, <1>6, <1>7

\* What a step leaves alone when it only moves the innermost call of fire.
OnlyTheStack == UNCHANGED <<listeners, pending, sentry, nextId, ticket, threw>>

LEMMA CallEffect ==
  ASSUME TypeOK, CallListener
  PROVE  /\ stack # <<>> /\ Top \in Frames /\ ~Top.calling
         /\ Top.at \in 1 .. Len(listeners[Top.event])
         /\ Current.who \in Listeners /\ Current.valid
         /\ OnlyTheStack
         /\ \E g \in Frames :
              /\ Stepped(g)
              /\ g.event = Top.event /\ g.previous = Top.previous /\ g.audience = Top.audience
              /\ g.at = Top.at /\ g.calling = TRUE /\ g.heard = Append(Top.heard, Current.who)
<1> DEFINE g == [Top EXCEPT !.calling = TRUE, !.heard = Append(@, Current.who)]
<1>1. ~CallerRuns /\ ~AtEnd /\ Current.valid /\ stack' = Replaced(g) /\ OnlyTheStack
  BY DEF CallListener, OnlyTheStack
<1>2. /\ stack # <<>> /\ Top \in Frames /\ ~Top.calling
      /\ Top.at \in 1 .. Len(listeners[Top.event]) /\ Current.who \in Listeners
  BY <1>1, CurrentFacts
<1>3. /\ g \in Frames
      /\ g.event = Top.event /\ g.previous = Top.previous /\ g.audience = Top.audience
      /\ g.at = Top.at /\ g.calling = TRUE /\ g.heard = Append(Top.heard, Current.who)
  <2> DEFINE l == Current.who
             f == Top
  <2>1. f \in Frames /\ l \in Listeners
    BY <1>2
  <2> HIDE DEF f, l
  <2>2. LET y == [f EXCEPT !.calling = TRUE, !.heard = Append(@, l)]
        IN  /\ y \in Frames
            /\ y.event = f.event /\ y.previous = f.previous /\ y.audience = f.audience
            /\ y.at = f.at /\ y.calling = TRUE /\ y.heard = Append(f.heard, l)
    BY <2>1, FrameCalls
  <2> QED BY <2>2 DEF f, l
<1> HIDE DEF g
<1>4. Stepped(g)
  BY <1>1, <1>2, <1>3, StepsTheTop
<1> QED BY <1>1, <1>2, <1>3, <1>4

LEMMA SkipEffect ==
  ASSUME TypeOK, SkipListener
  PROVE  /\ stack # <<>> /\ Top \in Frames /\ ~Top.calling
         /\ Top.at \in 1 .. Len(listeners[Top.event])
         /\ ~Current.valid
         /\ OnlyTheStack
         /\ \E g \in Frames :
              /\ Stepped(g)
              /\ g.event = Top.event /\ g.previous = Top.previous /\ g.audience = Top.audience
              /\ g.at = Top.at + 1 /\ g.calling = FALSE /\ g.heard = Top.heard
<1> DEFINE g == [Top EXCEPT !.at = @ + 1]
<1>1. ~CallerRuns /\ ~AtEnd /\ ~Current.valid /\ stack' = Replaced(g) /\ OnlyTheStack
  BY DEF SkipListener, OnlyTheStack
<1>2. /\ stack # <<>> /\ Top \in Frames /\ ~Top.calling
      /\ Top.at \in 1 .. Len(listeners[Top.event]) /\ Current.who \in Listeners
  BY <1>1, CurrentFacts
<1>3. /\ g \in Frames
      /\ g.event = Top.event /\ g.previous = Top.previous /\ g.audience = Top.audience
      /\ g.at = Top.at + 1 /\ g.calling = Top.calling /\ g.heard = Top.heard
  BY <1>2, FrameMoves
<1> HIDE DEF g
<1>4. Stepped(g)
  BY <1>1, <1>2, <1>3, StepsTheTop
<1>5. g.calling = FALSE
  BY <1>2, <1>3, FrameFacts
<1> QED BY <1>1, <1>2, <1>3, <1>4, <1>5

LEMMA ReturnEffect ==
  ASSUME TypeOK, ListenerReturns
  PROVE  /\ stack # <<>> /\ Top \in Frames /\ Top.calling
         /\ OnlyTheStack
         /\ \E g \in Frames :
              /\ Stepped(g)
              /\ g.event = Top.event /\ g.previous = Top.previous /\ g.audience = Top.audience
              /\ g.at = Top.at + 1 /\ g.calling = FALSE /\ g.heard = Top.heard
<1> DEFINE g == [Top EXCEPT !.calling = FALSE, !.at = @ + 1]
<1>1. stack # <<>> /\ Top.calling /\ stack' = Replaced(g) /\ OnlyTheStack
  BY DEF ListenerReturns, OnlyTheStack
<1>2. Top \in Frames
  BY <1>1, StackFacts
<1>3. /\ g \in Frames
      /\ g.event = Top.event /\ g.previous = Top.previous /\ g.audience = Top.audience
      /\ g.at = Top.at + 1 /\ g.calling = FALSE /\ g.heard = Top.heard
  BY <1>2, FrameMoves
<1> HIDE DEF g
<1>4. Stepped(g)
  BY <1>1, <1>2, <1>3, StepsTheTop
<1> QED BY <1>1, <1>2, <1>3, <1>4

\* The two ends of a call of fire; only the second may clean up.
LEMMA ThrowEffect ==
  ASSUME TypeOK, ListenerThrows
  PROVE  /\ Top \in Frames /\ Top.calling /\ Left
         /\ sentry' = [sentry EXCEPT ![Top.event] = Top.previous]
         /\ threw' = [threw EXCEPT ![Top.event] = TRUE]
         /\ UNCHANGED <<listeners, pending, nextId, ticket>>
BY StackFacts, LeavesTheTop DEF ListenerThrows, ReleaseGuard

LEMMA EndEffect ==
  ASSUME TypeOK, FireReturns
  PROVE  /\ Top \in Frames /\ ~Top.calling /\ AtEnd /\ Left
         /\ sentry' = [sentry EXCEPT ![Top.event] = Top.previous]
         /\ Top.previous => UNCHANGED <<listeners, pending, threw>>
         /\ ~Top.previous => CleanUp(Top.event)
         /\ UNCHANGED <<nextId, ticket>>
<1>1. /\ stack # <<>> /\ ~Top.calling /\ AtEnd /\ stack' = Popped
      /\ sentry' = [sentry EXCEPT ![Top.event] = Top.previous]
      /\ UNCHANGED <<nextId, ticket>>
  BY DEF FireReturns, ReleaseGuard, CallerRuns
<1>2. Top \in Frames /\ Left
  BY <1>1, StackFacts, LeavesTheTop
<1>3. sentry'[Top.event] = Top.previous
  BY <1>1, <1>2, FrameFacts DEF TypeOK
<1>4. Top.previous => UNCHANGED <<listeners, pending, threw>>
  BY <1>3 DEF FireReturns
<1>5. ~Top.previous => CleanUp(Top.event)
  BY <1>3 DEF FireReturns
<1> QED BY <1>1, <1>2, <1>4, <1>5

LEMMA CleanUpEffect ==
  ASSUME TypeOK, NEW e \in Events, CleanUp(e)
  PROVE  /\ Valid(listeners[e]) \in Seq(ListenerEntries)
         /\ listeners'[e] = Valid(listeners[e]) \o pending[e]
         /\ listeners'[e] \in Seq(ListenerEntries)
         /\ pending'[e] = <<>> /\ threw'[e] = FALSE
         /\ \A d \in Events \ {e} : listeners'[d] = listeners[d] /\ pending'[d] = pending[d]
                                    /\ threw'[d] = threw[d]
         /\ listeners' \in [Events -> Seq(ListenerEntries)]
         /\ pending' \in [Events -> Seq(ListenerEntries)]
         /\ threw' \in [Events -> BOOLEAN]
<1>1. Valid(listeners[e]) \in Seq(ListenerEntries) /\ pending[e] \in Seq(ListenerEntries)
  BY ListFacts, ValidPositions
<1>2. Valid(listeners[e]) \o pending[e] \in Seq(ListenerEntries)
  BY <1>1, ConcatProperties
<1>3. <<>> \in Seq(ListenerEntries)
  OBVIOUS
<1> QED BY <1>1, <1>2, <1>3 DEF CleanUp, TypeOK

LEMMA FireEffect ==
  ASSUME TypeOK, NEW e \in Events, Fire(e)
  PROVE  /\ CallerRuns
         /\ Pushed([event |-> e, at |-> 1, previous |-> sentry[e], calling |-> FALSE,
                    audience |-> Names(Valid(listeners[e])), heard |-> <<>>])
         /\ sentry' = [sentry EXCEPT ![e] = TRUE]
         /\ UNCHANGED <<listeners, pending, nextId, ticket, threw>>
<1> DEFINE f == [event |-> e, at |-> 1, previous |-> sentry[e], calling |-> FALSE,
                 audience |-> Names(Valid(listeners[e])), heard |-> <<>>]
<1>1. Valid(listeners[e]) \in Seq(ListenerEntries)
  BY ListFacts, ValidPositions
<1>2. Names(Valid(listeners[e])) \in Seq(Listeners)
  BY <1>1, NamesType
<1>3. sentry[e] \in BOOLEAN /\ <<>> \in Seq(Listeners)
  BY DEF TypeOK
<1>4. f \in Frames
  BY <1>2, <1>3 DEF Frames
<1>5. stack' = Append(stack, f) /\ stack \in Seq(Frames)
  BY DEF Fire, TypeOK
<1> HIDE DEF f
<1>6. Pushed(f)
  BY <1>4, <1>5, AppendProperties DEF Pushed
<1> QED BY <1>6 DEF Fire, f

Entry(l) == [who |-> l, id |-> nextId, valid |-> TRUE]

LEMMA AddEffect ==
  ASSUME TypeOK, NEW l \in Listeners, AddListener(l)
  PROVE  LET e == EventOf[l] IN
         /\ e \in Events /\ Entry(l) \in ListenerEntries /\ CallerRuns
         /\ ticket[l].state = "none"
         /\ sentry[e] =>
              /\ pending' = [pending EXCEPT ![e] = Append(pending[e], Entry(l))]
              /\ UNCHANGED listeners
         /\ ~sentry[e] =>
              /\ listeners' = [listeners EXCEPT ![e] = Append(listeners[e], Entry(l))]
              /\ UNCHANGED pending
         /\ ticket' = [ticket EXCEPT ![l] = [state |-> "alive", id |-> nextId]]
         /\ nextId' = Following(nextId)
         /\ UNCHANGED <<sentry, stack, threw>>
<1>1. nextId \in 0 .. Ids - 1 /\ EventOf[l] \in Events
  BY DEF TypeOK
<1>2. Entry(l) \in ListenerEntries
  BY <1>1 DEF Entry, ListenerEntries
<1> QED BY <1>1, <1>2 DEF AddListener, Entry, TypeOK

Tickets == [state : {"none", "alive", "destroyed"}, id : 0 .. Ids - 1]

LEMMA DestroyEffect ==
  ASSUME TypeOK, NEW l \in Listeners, DestroyTicket(l)
  PROVE  /\ CallerRuns
         /\ ticket[l].state = "alive"
         /\ DestroysPending \/ IsFound(l)
         /\ IsFound(l) => Disable(EventOf[l], Found(l))
         /\ ~IsFound(l) => UNCHANGED listeners
         /\ ticket' \in [Listeners -> Tickets]
         /\ ticket'[l].state = "destroyed" /\ ticket'[l].id = ticket[l].id
         /\ \A m \in Listeners \ {l} : ticket'[m] = ticket[m]
         /\ UNCHANGED <<pending, sentry, nextId, stack, threw>>
<1> DEFINE t == ticket[l]
           u == [t EXCEPT !.state = "destroyed"]
<1>1. ticket \in [Listeners -> Tickets] /\ t \in Tickets
  BY DEF TypeOK, Tickets
<1>2. ticket' = [ticket EXCEPT ![l] = u]
  BY DEF DestroyTicket
<1>3. DOMAIN t = {"state", "id"} /\ t.id \in 0 .. Ids - 1
  BY <1>1 DEF Tickets
<1>4. DOMAIN u = {"state", "id"} /\ u = [c \in DOMAIN u |-> u[c]]
      /\ u.state = "destroyed" /\ u.id = t.id
  BY <1>3
<1>5. u \in Tickets
  BY <1>3, <1>4 DEF Tickets
<1> QED BY <1>1, <1>2, <1>4, <1>5 DEF DestroyTicket, Found

LEMMA TypeStep ==
  ASSUME TypeOK, [Next]_vars
  PROVE  TypeOK'
<1> USE DEF TypeOK
<1>1. ASSUME NEW e \in Events, Fire(e) PROVE TypeOK'
  BY <1>1, FireEffect DEF Pushed
<1>2. CASE CallListener
  BY <1>2, CallEffect DEF Stepped, OnlyTheStack
<1>3. CASE SkipListener
  BY <1>3, SkipEffect DEF Stepped, OnlyTheStack
<1>4. CASE ListenerReturns
  BY <1>4, ReturnEffect DEF Stepped, OnlyTheStack
<1>5. CASE ListenerThrows
  <2>1. Top.event \in Events /\ Top.previous \in BOOLEAN
    BY <1>5, ThrowEffect, FrameFacts
  <2> QED BY <1>5, <2>1, ThrowEffect DEF Left
<1>6. CASE FireReturns
  <2>1. Top.event \in Events /\ Top.previous \in BOOLEAN
    BY <1>6, EndEffect, FrameFacts
  <2>2. CASE Top.previous
    BY <1>6, <2>1, <2>2, EndEffect DEF Left
  <2>3. CASE ~Top.previous
    <3>1. /\ listeners' \in [Events -> Seq(ListenerEntries)]
          /\ pending' \in [Events -> Seq(ListenerEntries)]
          /\ threw' \in [Events -> BOOLEAN]
      BY <1>6, <2>1, <2>3, EndEffect, CleanUpEffect
    <3> QED BY <1>6, <2>1, <3>1, EndEffect DEF Left
  <2> QED BY <2>2, <2>3
<1>7. ASSUME NEW l \in Listeners, AddListener(l) PROVE TypeOK'
  <2> DEFINE e == EventOf[l]
  <2>1. /\ e \in Events
        /\ Append(pending[e], Entry(l)) \in Seq(ListenerEntries)
        /\ Append(listeners[e], Entry(l)) \in Seq(ListenerEntries)
    BY <1>7, AddEffect, AppendProperties
  <2>2. /\ listeners' \in [Events -> Seq(ListenerEntries)]
        /\ pending' \in [Events -> Seq(ListenerEntries)]
    <3> DEFINE p == [pending EXCEPT ![e] = Append(pending[e], Entry(l))]
               q == [listeners EXCEPT ![e] = Append(listeners[e], Entry(l))]
    <3>1. p \in [Events -> Seq(ListenerEntries)]
      BY <2>1
    <3>2. q \in [Events -> Seq(ListenerEntries)]
      BY <2>1
    <3>3. (pending' = p /\ listeners' = listeners) \/ (listeners' = q /\ pending' = pending)
      BY <1>7, AddEffect
    <3> HIDE DEF p, q
    <3> QED BY <3>1, <3>2, <3>3
  <2>3. nextId' \in 0 .. Ids - 1
    BY <1>7, AddEffect, FollowingType
  <2>4. ticket' \in [Listeners -> Tickets]
    <3>1. [state |-> "alive", id |-> nextId] \in Tickets
      BY DEF Tickets
    <3> QED BY <1>7, <3>1, AddEffect DEF Tickets
  <2> QED BY <1>7, <2>2, <2>3, <2>4, AddEffect DEF Tickets
<1>8. ASSUME NEW l \in Listeners, DestroyTicket(l) PROVE TypeOK'
  <2>1. EventOf[l] \in Events
    OBVIOUS
  <2>2. CASE IsFound(l)
    <3>1. Disable(EventOf[l], Found(l))
      BY <1>8, <2>2, DestroyEffect
    <3>2. /\ listeners' = [listeners EXCEPT ![EventOf[l]] = listeners'[EventOf[l]]]
          /\ listeners'[EventOf[l]] \in Seq(ListenerEntries)
      BY <2>2, <3>1, DisableEffect
    <3>3. listeners' \in [Events -> Seq(ListenerEntries)]
      BY <2>1, <3>2
    <3> QED BY <1>8, <3>3, DestroyEffect DEF Tickets
  <2>3. CASE ~IsFound(l)
    BY <1>8, <2>3, DestroyEffect DEF Tickets
  <2> QED BY <2>2, <2>3
<1>9. CASE UNCHANGED vars
  BY <1>9 DEF vars
<1> QED BY <1>1, <1>2, <1>3, <1>4, <1>5, <1>6, <1>7, <1>8, <1>9 DEF Next

LEMMA TypeInit ==
  ASSUME Init PROVE TypeOK /\ Guarded
<1>1. <<>> \in Seq(ListenerEntries) /\ <<>> \in Seq(Frames) /\ Len(stack) = 0
  BY DEF Init
<1>2. TypeOK
  BY <1>1 DEF Init, TypeOK
<1>3. Guarded
  BY <1>1 DEF Init, Guarded, FiredIn
<1> QED BY <1>2, <1>3

-----------------------------------------------------------------------------
(* Sentries, guards and the lists under iteration. *)

LEMMA NotFired ==
  ASSUME TypeOK, Guarded
  PROVE  /\ \A e \in Events : ~sentry[e] => \A i \in 1 .. Len(stack) : stack[i].event # e
         /\ stack # <<>> /\ ~Top.previous =>
              \A i \in 1 .. Len(stack) - 1 : stack[i].event # Top.event
<1>1. ASSUME NEW e \in Events, ~sentry[e] PROVE \A i \in 1 .. Len(stack) : stack[i].event # e
  BY <1>1 DEF Guarded, FiredIn
<1>2. ASSUME stack # <<>>, ~Top.previous
      PROVE  \A i \in 1 .. Len(stack) - 1 : stack[i].event # Top.event
  <2>1. Len(stack) \in 1 .. Len(stack) /\ Top = stack[Len(stack)]
    BY <1>2, StackFacts
  <2>2. Top.previous = FiredIn(stack, Top.event, Len(stack) - 1)
    BY <2>1 DEF Guarded
  <2> QED BY <1>2, <2>2 DEF FiredIn
<1> QED BY <1>1, <1>2

\* A list that is iterated before and after a step at most loses flags.
LEMMA StableLists ==
  ASSUME TypeOK, Guarded, [Next]_vars
  PROVE  \A i \in DOMAIN stack \cap DOMAIN stack' :
           /\ stack'[i].event = stack[i].event
           /\ Lowered(listeners[stack[i].event], listeners'[stack[i].event])
<1> DEFINE Kept == \A i \in DOMAIN stack \cap DOMAIN stack' :
             /\ stack'[i].event = stack[i].event
             /\ Lowered(listeners[stack[i].event], listeners'[stack[i].event])
<1>1. /\ DOMAIN stack = 1 .. Len(stack) /\ Len(stack) \in Nat
      /\ \A i \in 1 .. Len(stack) : stack[i].event \in Events
  BY StackFacts, FrameFacts
<1>2. DOMAIN stack' = 1 .. Len(stack')
  <2>1. TypeOK'
    BY TypeStep
  <2> QED BY <2>1 DEF TypeOK
<1>3. \A s : Lowered(s, s)
  BY DEF Lowered
<1>4. ASSUME UNCHANGED listeners, Len(stack') \in Nat,
             \A i \in 1 .. Len(stack) : i <= Len(stack') => stack'[i].event = stack[i].event
      PROVE  Kept
  BY <1>1, <1>2, <1>3, <1>4
<1>5. ASSUME NEW e \in Events, Fire(e) PROVE Kept
  <2>1. /\ UNCHANGED listeners /\ Len(stack') = Len(stack) + 1
        /\ \A i \in 1 .. Len(stack) : stack'[i] = stack[i]
    BY <1>5, FireEffect DEF Pushed
  <2> QED BY <1>1, <1>4, <2>1
<1>6. ASSUME NEW g \in Frames, Stepped(g), g.event = Top.event, OnlyTheStack PROVE Kept
  <2>1. \A i \in 1 .. Len(stack) : stack'[i].event = stack[i].event
    BY <1>1, <1>6, StackFacts DEF Stepped
  <2> QED BY <1>1, <1>4, <1>6, <2>1 DEF Stepped, OnlyTheStack
<1>7. CASE CallListener
  BY <1>6, <1>7, CallEffect
<1>8. CASE SkipListener
  BY <1>6, <1>8, SkipEffect
<1>9. CASE ListenerReturns
  BY <1>6, <1>9, ReturnEffect
<1>10. CASE ListenerThrows
  <2>1. /\ UNCHANGED listeners /\ stack # <<>> /\ Len(stack') = Len(stack) - 1
        /\ \A i \in 1 .. Len(stack) - 1 : stack'[i] = stack[i]
    BY <1>10, ThrowEffect DEF Left
  <2>2. Len(stack) - 1 \in Nat
    BY <2>1, StackFacts
  <2> QED BY <1>1, <1>4, <2>1, <2>2
<1>11. CASE FireReturns
  <2>1. /\ Top.event \in Events /\ stack # <<>> /\ Len(stack') = Len(stack) - 1
        /\ \A i \in 1 .. Len(stack) - 1 : stack'[i].event = stack[i].event
    BY <1>11, EndEffect, FrameFacts DEF Left
  <2>2. CASE Top.previous
    BY <1>1, <1>4, <1>11, <2>1, <2>2, EndEffect
  <2>3. CASE ~Top.previous
    <3>1. \A d \in Events \ {Top.event} : listeners'[d] = listeners[d]
      BY <1>11, <2>1, <2>3, EndEffect, CleanUpEffect
    <3>2. \A i \in 1 .. Len(stack) - 1 : stack[i].event # Top.event
      BY <2>1, <2>3, NotFired
    <3> QED BY <1>1, <1>2, <1>3, <2>1, <3>1, <3>2
  <2> QED BY <2>2, <2>3
<1>12. ASSUME NEW l \in Listeners, AddListener(l) PROVE Kept
  <2>1. stack' = stack /\ EventOf[l] \in Events
    BY <1>12, AddEffect
  <2>2. CASE sentry[EventOf[l]]
    BY <1>1, <1>4, <1>12, <2>1, <2>2, AddEffect
  <2>3. CASE ~sentry[EventOf[l]]
    <3>1. \A d \in Events \ {EventOf[l]} : listeners'[d] = listeners[d]
      BY <1>12, <2>1, <2>3, AddEffect DEF TypeOK
    <3>2. \A i \in 1 .. Len(stack) : stack[i].event # EventOf[l]
      BY <2>1, <2>3, NotFired
    <3> QED BY <1>1, <1>2, <1>3, <2>1, <3>1, <3>2
  <2> QED BY <2>2, <2>3
<1>13. ASSUME NEW l \in Listeners, DestroyTicket(l) PROVE Kept
  <2>1. stack' = stack /\ EventOf[l] \in Events
    BY <1>13, DestroyEffect
  <2>2. CASE ~IsFound(l)
    BY <1>1, <1>4, <1>13, <2>1, <2>2, DestroyEffect
  <2>3. CASE IsFound(l)
    <3>1. Disable(EventOf[l], Found(l))
      BY <1>13, <2>3, DestroyEffect
    <3>2. \A d \in Events \ {EventOf[l]} : listeners'[d] = listeners[d]
      <4>1. listeners' = [listeners EXCEPT ![EventOf[l]] = listeners'[EventOf[l]]]
        BY <2>3, <3>1, DisableEffect
      <4>2. DOMAIN listeners = Events
        BY DEF TypeOK
      <4> QED BY <4>1, <4>2
    <3>3. sentry[EventOf[l]] => Lowered(listeners[EventOf[l]], listeners'[EventOf[l]])
      BY <2>3, <3>1, DisableEffect
    <3>4. ~sentry[EventOf[l]] => \A i \in 1 .. Len(stack) : stack[i].event # EventOf[l]
      BY <2>1, NotFired
    <3> QED BY <1>1, <1>2, <1>3, <2>1, <3>2, <3>3, <3>4
  <2> QED BY <2>2, <2>3
<1>14. CASE UNCHANGED vars
  BY <1>1, <1>4, <1>14 DEF vars
<1> QED BY <1>5, <1>7, <1>8, <1>9, <1>10, <1>11, <1>12, <1>13, <1>14 DEF Next

LEMMA GuardedStep ==
  ASSUME TypeOK, Guarded, [Next]_vars
  PROVE  Guarded'
<1> DEFINE n == Len(stack)
<1>1. /\ n \in Nat
      /\ \A i \in 1 .. n : stack[i].event \in Events
      /\ \A e \in Events : Len(listeners[e]) \in Nat
  BY StackFacts, FrameFacts, ListFacts
<1>2. TypeOK'
  BY TypeStep
<1>3. /\ \A e \in Events : sentry[e] = FiredIn(stack, e, n)
      /\ \A i \in 1 .. n : stack[i].previous = FiredIn(stack, stack[i].event, i - 1)
      /\ \A i \in 1 .. n - 1 : stack[i].calling
      /\ \A i \in 1 .. n : stack[i].calling => stack[i].at <= Len(listeners[stack[i].event])
  BY DEF Guarded
<1>4. \A e \in Events, k \in 0 .. n :
        (\A i \in 1 .. k : stack'[i].event = stack[i].event) =>
          FiredIn(stack', e, k) = FiredIn(stack, e, k)
  BY DEF FiredIn
\* Below the innermost call of fire nothing changes that the guards speak of.
<1> HIDE DEF n
<1>5. ASSUME NEW k \in 0 .. n, \A i \in 1 .. k : stack'[i] = stack[i], Len(stack') >= k,
             k < n \/ (CallerRuns /\ k = n)
      PROVE  /\ \A i \in 1 .. k : stack'[i].previous = FiredIn(stack', stack'[i].event, i - 1)
             /\ \A i \in 1 .. k : stack'[i].calling
             /\ \A i \in 1 .. k : stack'[i].at <= Len(listeners'[stack'[i].event])
  <2> SUFFICES ASSUME NEW i \in 1 .. k
               PROVE  /\ stack[i].previous = FiredIn(stack', stack[i].event, i - 1)
                      /\ stack[i].calling
                      /\ stack[i].at <= Len(listeners'[stack[i].event])
    BY <1>5
  <2>1. i \in 1 .. n /\ i - 1 \in 0 .. n /\ \A j \in 1 .. i - 1 : stack'[j].event = stack[j].event
    BY <1>1, <1>5
  <2>2. stack[i].previous = FiredIn(stack', stack[i].event, i - 1)
    BY <1>1, <1>3, <1>4, <2>1
  <2>3. stack[i].calling
    <3>1. CASE i \in 1 .. n - 1
      BY <1>3, <3>1
    <3>2. CASE i \notin 1 .. n - 1
      <4>1. i = n /\ CallerRuns /\ n # 0
        BY <1>1, <1>5, <2>1, <3>2
      <4>2. stack # <<>> /\ Top = stack[n]
        BY <4>1 DEF n, Top
      <4> QED BY <4>1, <4>2 DEF CallerRuns
    <3> QED BY <3>1, <3>2
  <2>4. Len(listeners'[stack[i].event]) = Len(listeners[stack[i].event])
    <3> DEFINE e == stack[i].event
    <3>1. i \in DOMAIN stack \cap DOMAIN stack'
      <4>1. DOMAIN stack = 1 .. n /\ DOMAIN stack' = 1 .. Len(stack') /\ Len(stack') \in Nat
        BY <1>2 DEF TypeOK, n
      <4> QED BY <1>1, <1>5, <2>1, <4>1
    <3>2. DOMAIN listeners'[e] = DOMAIN listeners[e]
      BY <3>1, StableLists DEF Lowered
    <3>3. e \in Events
      BY <1>1, <2>1
    <3>4. listeners'[e] \in Seq(ListenerEntries) /\ listeners[e] \in Seq(ListenerEntries)
      BY <1>2, <3>3 DEF TypeOK
    <3> QED BY <3>2, <3>4
  <2> QED BY <1>3, <2>1, <2>2, <2>3, <2>4
\* And so it is enough to look at the innermost call.
<1>6. ASSUME NEW m \in Nat, Len(stack') = m + 1,
             \A i \in 1 .. m : stack'[i] = stack[i],
             m < n \/ (CallerRuns /\ m = n),
             stack'[m + 1].previous = FiredIn(stack', stack'[m + 1].event, m),
             stack'[m + 1].calling =>
               stack'[m + 1].at <= Len(listeners'[stack'[m + 1].event]),
             \A e \in Events : sentry'[e] = FiredIn(stack', e, m + 1)
      PROVE  Guarded'
  <2>1. /\ \A i \in 1 .. m : stack'[i].previous = FiredIn(stack', stack'[i].event, i - 1)
        /\ \A i \in 1 .. m : stack'[i].calling
        /\ \A i \in 1 .. m : stack'[i].at <= Len(listeners'[stack'[i].event])
    <3>1. m \in 0 .. n /\ Len(stack') >= m
      BY <1>1, <1>6
    <3> QED BY <1>5, <1>6, <3>1
  <2>2. \A i \in 1 .. m + 1 : stack'[i].previous = FiredIn(stack', stack'[i].event, i - 1)
    <3> TAKE i \in 1 .. m + 1
    <3>1. CASE i \in 1 .. m
      BY <2>1, <3>1
    <3>2. CASE i = m + 1
      <4>1. i - 1 = m
        BY <3>2
      <4> QED BY <1>6, <3>2, <4>1
    <3> QED BY <3>1, <3>2
  <2>3. \A i \in 1 .. (m + 1) - 1 : stack'[i].calling
    BY <2>1
  <2>4. \A i \in 1 .. m + 1 : stack'[i].calling => stack'[i].at <= Len(listeners'[stack'[i].event])
    BY <1>6, <2>1
  <2> QED BY <1>6, <2>2, <2>3, <2>4 DEF Guarded
<1>7. ASSUME NEW m \in Nat, Len(stack') = m, m < n \/ (CallerRuns /\ m = n),
             \A i \in 1 .. m : stack'[i] = stack[i],
             \A e \in Events : sentry'[e] = FiredIn(stack', e, m)
      PROVE  Guarded'
  <2>1. /\ \A i \in 1 .. m : stack'[i].previous = FiredIn(stack', stack'[i].event, i - 1)
        /\ \A i \in 1 .. m : stack'[i].calling
        /\ \A i \in 1 .. m : stack'[i].at <= Len(listeners'[stack'[i].event])
    <3>1. m \in 0 .. n /\ Len(stack') >= m
      BY <1>1, <1>7
    <3> QED BY <1>5, <1>7, <3>1
  <2> QED BY <1>7, <2>1 DEF Guarded
<1>8. ASSUME NEW e \in Events, Fire(e) PROVE Guarded'
  <2> DEFINE f == stack'[n + 1]
  <2>1. /\ Len(stack') = n + 1 /\ \A i \in 1 .. n : stack'[i] = stack[i]
        /\ f.event = e /\ f.previous = sentry[e] /\ f.calling = FALSE
        /\ sentry' = [sentry EXCEPT ![e] = TRUE] /\ CallerRuns
    <3> DEFINE r == [event |-> e, at |-> 1, previous |-> sentry[e], calling |-> FALSE,
                     audience |-> Names(Valid(listeners[e])), heard |-> <<>>]
    <3>1. Pushed(r) /\ sentry' = [sentry EXCEPT ![e] = TRUE] /\ CallerRuns
      BY <1>8, FireEffect
    <3>2. r.event = e /\ r.previous = sentry[e] /\ r.calling = FALSE
      OBVIOUS
    <3> HIDE DEF r
    <3> QED BY <3>1, <3>2 DEF Pushed, n
  <2>2. f.previous = FiredIn(stack', e, n)
    BY <1>1, <1>3, <1>4, <2>1
  <2>3. \A d \in Events : sentry'[d] = FiredIn(stack', d, n + 1)
    <3> TAKE d \in Events
    <3>1. FiredIn(stack', d, n + 1) <=> FiredIn(stack', d, n) \/ f.event = d
      BY <1>1 DEF FiredIn
    <3>2. FiredIn(stack', d, n) = sentry[d]
      <4>1. n \in 0 .. n /\ \A i \in 1 .. n : stack'[i].event = stack[i].event
        BY <1>1, <2>1
      <4> QED BY <1>3, <1>4, <4>1
    <3>3. sentry'[d] = IF d = e THEN TRUE ELSE sentry[d]
      BY <2>1 DEF TypeOK
    <3>4. FiredIn(stack', d, n + 1) \in BOOLEAN
      BY DEF FiredIn
    <3> QED BY <2>1, <3>1, <3>2, <3>3, <3>4 DEF TypeOK
  <2> QED BY <1>1, <1>6, <2>1, <2>2, <2>3
<1>9. ASSUME NEW g \in Frames, Stepped(g), g.event = Top.event, g.previous = Top.previous,
             g.calling => g.at <= Len(listeners[Top.event]), OnlyTheStack
      PROVE  Guarded'
  <2> DEFINE m == n - 1
  <2>1. /\ m \in Nat /\ m + 1 = n /\ Len(stack') = m + 1
        /\ \A i \in 1 .. m : stack'[i] = stack[i]
        /\ Top = stack[m + 1] /\ stack'[m + 1] = g
    BY <1>1, <1>9, StackFacts DEF Stepped, n
  <2>2. /\ FiredIn(stack', Top.event, m) = FiredIn(stack, Top.event, m)
        /\ Top.previous = FiredIn(stack, Top.event, m)
    <3>1. /\ Top.event \in Events /\ (m + 1) - 1 = m
          /\ Top.previous = FiredIn(stack, Top.event, (m + 1) - 1)
      BY <1>1, <1>3, <2>1
    <3> QED BY <1>1, <1>4, <2>1, <3>1
  <2>3. \A d \in Events : FiredIn(stack', d, n) = FiredIn(stack, d, n)
    <3>1. \A i \in 1 .. n : stack'[i].event = stack[i].event
      BY <1>9, <2>1
    <3> QED BY <1>1, <1>4, <3>1
  <2>4. sentry' = sentry /\ listeners' = listeners
    BY <1>9 DEF OnlyTheStack
  <2> HIDE DEF m
  <2>5. m < n
    BY <2>1
  <2> QED BY <1>3, <1>6, <1>9, <2>1, <2>2, <2>3, <2>4, <2>5
<1>10. CASE CallListener
  <2>1. Len(listeners[Top.event]) \in Nat /\ Top.at \in 1 .. Len(listeners[Top.event])
    BY <1>1, <1>10, CallEffect, FrameFacts
  <2>2. PICK g \in Frames : /\ Stepped(g) /\ g.event = Top.event /\ g.previous = Top.previous
                            /\ g.at = Top.at
    BY <1>10, CallEffect
  <2>3. OnlyTheStack
    BY <1>10, CallEffect
  <2> QED BY <1>9, <2>1, <2>2, <2>3
<1>11. CASE SkipListener
  BY <1>9, <1>11, SkipEffect
<1>12. CASE ListenerReturns
  BY <1>9, <1>12, ReturnEffect
<1>13. ASSUME Left, sentry' = [sentry EXCEPT ![Top.event] = Top.previous]
       PROVE  Guarded'
  <2> DEFINE m == n - 1
  <2>1. /\ m \in Nat /\ m + 1 = n /\ Len(stack') = m /\ m < n
        /\ \A i \in 1 .. m : stack'[i] = stack[i]
        /\ Top = stack[m + 1]
    BY <1>1, <1>13, StackFacts DEF Left, n
  <2>2. Top.event \in Events /\ Top.previous = FiredIn(stack, Top.event, m)
    <3>1. /\ Top.event \in Events /\ (m + 1) - 1 = m
          /\ Top.previous = FiredIn(stack, Top.event, (m + 1) - 1)
      BY <1>1, <1>3, <2>1
    <3> QED BY <3>1
  <2>3. \A d \in Events : sentry'[d] = FiredIn(stack', d, m)
    <3> TAKE d \in Events
    <3>1. FiredIn(stack', d, m) = FiredIn(stack, d, m)
      BY <1>1, <1>4, <2>1
    <3>2. FiredIn(stack, d, m + 1) <=> FiredIn(stack, d, m) \/ Top.event = d
      BY <2>1 DEF FiredIn
    <3>3. sentry[d] = FiredIn(stack, d, m + 1)
      BY <1>3, <2>1
    <3>4. sentry'[d] = IF d = Top.event THEN Top.previous ELSE sentry[d]
      BY <1>13, <2>2 DEF TypeOK
    <3>5. FiredIn(stack, d, m) \in BOOLEAN /\ FiredIn(stack, d, m + 1) \in BOOLEAN
      BY DEF FiredIn
    <3> QED BY <2>2, <3>1, <3>2, <3>3, <3>4, <3>5
  <2> HIDE DEF m
  <2> QED BY <1>7, <2>1, <2>3
<1>14. CASE ListenerThrows
  BY <1>13, <1>14, ThrowEffect
<1>15. CASE FireReturns
  BY <1>13, <1>15, EndEffect
<1>16. ASSUME CallerRuns, UNCHANGED <<stack, sentry>> PROVE Guarded'
  <2>1. \A d \in Events : sentry'[d] = FiredIn(stack', d, n)
    BY <1>1, <1>3, <1>4, <1>16 DEF n
  <2> QED BY <1>1, <1>7, <1>16, <2>1 DEF n
<1>17. ASSUME NEW l \in Listeners, AddListener(l) PROVE Guarded'
  BY <1>16, <1>17, AddEffect
<1>18. ASSUME NEW l \in Listeners, DestroyTicket(l) PROVE Guarded'
  BY <1>16, <1>18, DestroyEffect
<1>19. CASE UNCHANGED vars
  BY <1>19 DEF vars, Guarded
<1> QED
  BY <1>8, <1>10, <1>11, <1>12, <1>14, <1>15, <1>17, <1>18, <1>19 DEF Next

\* The types, and no list moves under an iteration.
LEMMA RouterTypes == Spec => [](TypeOK /\ Guarded)
<1>1. Init => TypeOK /\ Guarded
  BY TypeInit
<1>2. TypeOK /\ Guarded /\ [Next]_vars => (TypeOK /\ Guarded)'
  BY TypeStep, GuardedStep
<1> QED BY <1>1, <1>2, PTL DEF Spec

(***************************************************************************)
(* IterationStable: while fire iterates the listeners of an event, nothing *)
(* that its listeners do inserts, erases or moves an entry of that list,   *)
(* for any nesting of fires and wherever listeners throw.                  *)
(***************************************************************************)
THEOREM StableUnderIteration == Spec => IterationStable
<1> DEFINE Same == \A i \in DOMAIN stack \cap DOMAIN stack' :
             LET e == stack[i].event IN Names(listeners'[e]) = Names(listeners[e])
<1>1. ASSUME TypeOK, Guarded, [Next]_vars PROVE Same
  <2> SUFFICES ASSUME NEW i \in DOMAIN stack \cap DOMAIN stack'
               PROVE  Names(listeners'[stack[i].event]) = Names(listeners[stack[i].event])
    OBVIOUS
  <2>1. Lowered(listeners[stack[i].event], listeners'[stack[i].event])
    BY <1>1, StableLists
  <2> QED BY <2>1 DEF Lowered, Names
<1>2. TypeOK /\ Guarded /\ [Next]_vars => [Same]_vars
  BY <1>1
<1>3. Spec => [](TypeOK /\ Guarded)
  BY RouterTypes
<1> QED BY <1>2, <1>3, PTL DEF Spec, IterationStable

-----------------------------------------------------------------------------
(* Tickets.  The numbers are of 64 bits in the code, so there are more than *)
(* listeners are ever added; and no ticket is destroyed whose listener is   *)
(* still pending (RemovalFindsListener is about the other case).            *)

EnoughIds == IsFiniteSet(Listeners) /\ Cardinality(Listeners) <= Ids

TicketsInv ==
    /\ TypeOK /\ Guarded
    /\ IdsApart /\ EntriesMatch /\ EntriesApart /\ AliveIsListed /\ PendingWaitsForFire

LEMMA TicketFacts ==
  ASSUME TypeOK, NEW l \in Listeners
  PROVE  /\ ticket[l].state \in {"none", "alive", "destroyed"}
         /\ ticket[l].id \in 0 .. Ids - 1 /\ ticket[l].id \in Int
         /\ nextId \in 0 .. Ids - 1 /\ nextId \in Int /\ Ids \in Nat \ {0}
         /\ EventOf[l] \in Events
         /\ Behind(l) \in 1 .. Ids
         /\ Behind(l) = Ids <=> ticket[l].id = nextId
BY DEF TypeOK, Behind

LEMMA IdsAdd ==
  ASSUME EnoughIds, TypeOK, IdsApart, NEW l \in Listeners, AddListener(l)
  PROVE  IdsApart'
<1> DEFINE n == Cardinality(Added)
<1>1. /\ ticket' = [ticket EXCEPT ![l] = [state |-> "alive", id |-> nextId]]
      /\ nextId' = Following(nextId) /\ ticket[l].state = "none"
      /\ nextId' = IF nextId + 1 = Ids THEN 0 ELSE nextId + 1
  BY AddEffect, FollowingType DEF TypeOK
<1>2. /\ ticket'[l].state = "alive" /\ ticket'[l].id = nextId
      /\ \A m \in Listeners \ {l} : ticket'[m] = ticket[m]
  BY <1>1 DEF TypeOK
<1>3. Added' = Added \cup {l} /\ l \notin Added /\ Added \subseteq Listeners
  BY <1>1, <1>2 DEF Added
<1>4. n \in Nat /\ Cardinality(Added') = n + 1 /\ n + 1 <= Ids
  <2>1. IsFiniteSet(Added) /\ IsFiniteSet(Added')
    BY <1>3, FS_Subset DEF EnoughIds
  <2>2. n \in Nat /\ Cardinality(Added') = n + 1
    BY <1>3, <2>1, FS_CardinalityType, FS_AddElement
  <2>3. Cardinality(Added') <= Cardinality(Listeners) /\ Cardinality(Listeners) \in Nat
    BY <1>3, FS_Subset, FS_CardinalityType DEF EnoughIds
  <2> QED BY <2>2, <2>3 DEF EnoughIds
<1>5. ASSUME NEW m \in Added
      PROVE  ticket[m].id # nextId /\ Behind(m)' <= n + 1
  <2>1. m \in Listeners \ {l} /\ Behind(m) <= n
    BY <1>3 DEF IdsApart
  <2>2. Behind(m) # Ids
    BY <1>4, <2>1, TicketFacts
  <2>3. ticket[m].id # nextId /\ ticket'[m].id = ticket[m].id
    BY <1>2, <2>1, <2>2, TicketFacts
  <2>4. Behind(m)' = Behind(m) + 1
    <3>1. /\ ticket[m].id \in 0 .. Ids - 1 /\ nextId \in 0 .. Ids - 1 /\ Ids \in Nat
      BY <2>1, TicketFacts
    <3>2. CASE nextId + 1 = Ids
      BY <1>1, <2>3, <3>1, <3>2 DEF Behind
    <3>3. CASE nextId + 1 # Ids
      BY <1>1, <2>3, <3>1, <3>3 DEF Behind
    <3> QED BY <3>2, <3>3
  <2>5. Behind(m) \in Int
    BY <2>1, TicketFacts
  <2> QED BY <1>4, <2>1, <2>3, <2>4, <2>5
<1>6. Behind(l)' <= n + 1
  <2>1. nextId \in 0 .. Ids - 1 /\ Ids \in Nat
    BY TicketFacts
  <2>2. Behind(l)' = 1
    BY <1>1, <1>2, <2>1 DEF Behind
  <2> QED BY <1>4, <2>2
<1>7. \A m \in Added' : Behind(m)' <= Cardinality(Added')
  BY <1>3, <1>4, <1>5, <1>6
<1>8. \A k, m \in Added' : ticket'[k].id = ticket'[m].id => k = m
  <2>1. \A m \in Added : ticket'[m].id = ticket[m].id /\ ticket'[m].id # ticket'[l].id
    BY <1>2, <1>3, <1>5
  <2>2. \A k, m \in Added : ticket[k].id = ticket[m].id => k = m
    BY DEF IdsApart
  <2> QED BY <1>3, <2>1, <2>2
<1> QED BY <1>7, <1>8 DEF IdsApart

LEMMA IdsKept ==
  ASSUME TypeOK, IdsApart, nextId' = nextId,
         \A m \in Listeners : /\ ticket'[m].id = ticket[m].id
                              /\ ticket'[m].state = "none" <=> ticket[m].state = "none"
  PROVE  IdsApart'
<1>1. Added' = Added /\ Added \subseteq Listeners
  BY DEF Added
<1>2. \A m \in Added : Behind(m)' = Behind(m)
  BY <1>1 DEF Behind
<1> QED BY <1>1, <1>2 DEF IdsApart

\* A number that a ticket has is in the entries of its listener only.
LEMMA OwnNumber ==
  ASSUME TypeOK, IdsApart, EntriesMatch, NEW l \in Added, NEW e \in Events
  PROVE  /\ \A i \in DOMAIN listeners[e] :
              listeners[e][i].id = ticket[l].id <=> listeners[e][i].who = l
         /\ \A i \in DOMAIN pending[e] :
              pending[e][i].id = ticket[l].id <=> pending[e][i].who = l
<1>1. ASSUME NEW x \in ListenerEntries, Matches(ticket, e, x)
      PROVE  x.id = ticket[l].id <=> x.who = l
  <2>1. x.who \in Added
    BY <1>1 DEF Matches, Added, ListenerEntries
  <2> QED BY <1>1, <2>1 DEF Matches, IdsApart
<1> QED BY <1>1, ListFacts DEF EntriesMatch

Entries == EntriesMatch /\ EntriesApart /\ AliveIsListed

LEMMA EntriesKept ==
  ASSUME Entries, UNCHANGED <<listeners, pending, ticket>> PROVE Entries'
BY DEF Entries, EntriesMatch, EntriesApart, AliveIsListed, Matches, Listed

LEMMA EntriesAdd ==
  ASSUME TypeOK, Entries, NEW l \in Listeners, AddListener(l)
  PROVE  Entries'
<1> DEFINE e == EventOf[l]
           x == Entry(l)
           s == listeners[e]
           p == pending[e]
<1>1. /\ ticket' = [ticket EXCEPT ![l] = [state |-> "alive", id |-> nextId]]
      /\ ticket[l].state = "none" /\ e \in Events /\ x \in ListenerEntries
  BY AddEffect
<1>2. /\ ticket'[l].state = "alive" /\ ticket'[l].id = nextId
      /\ \A m \in Listeners \ {l} : ticket'[m] = ticket[m]
  BY <1>1 DEF TypeOK
<1>3. /\ \A d \in Events : \A y \in ListenerEntries :
           Matches(ticket, d, y) => y.who # l /\ Matches(ticket', d, y)
      /\ Matches(ticket', e, x) /\ x.who = l /\ x.valid
  BY <1>1, <1>2 DEF Matches, ListenerEntries, Entry
<1>4. \A d \in Events :
        /\ DOMAIN listeners[d] = 1 .. Len(listeners[d]) /\ Len(listeners[d]) \in Nat
        /\ DOMAIN pending[d] = 1 .. Len(pending[d]) /\ Len(pending[d]) \in Nat
        /\ \A i \in DOMAIN listeners[d] : /\ listeners[d][i].who # l
                                          /\ Matches(ticket', d, listeners[d][i])
        /\ \A i \in DOMAIN pending[d] : /\ pending[d][i].who # l /\ pending[d][i].valid
                                        /\ Matches(ticket', d, pending[d][i])
  BY <1>3, ListFacts DEF Entries, EntriesMatch
<1>5. \A d \in Events :
        /\ \A i, j \in DOMAIN listeners[d] : listeners[d][i].who = listeners[d][j].who => i = j
        /\ \A i, j \in DOMAIN pending[d] : pending[d][i].who = pending[d][j].who => i = j
        /\ \A i \in DOMAIN listeners[d], j \in DOMAIN pending[d] :
             listeners[d][i].who # pending[d][j].who
  BY DEF Entries, EntriesApart
<1> HIDE DEF x
<1>6. CASE sentry[e]
  <2> DEFINE q == Append(p, x)
  <2>1. listeners' = listeners /\ pending' = [pending EXCEPT ![e] = q]
    BY <1>6, AddEffect DEF x
  <2>2. DOMAIN q = 1 .. Len(p) + 1 /\ q[Len(p) + 1] = x /\ \A i \in 1 .. Len(p) : q[i] = p[i]
    BY <1>1, ListFacts
  <2> HIDE DEF q
  <2>3. pending'[e] = q /\ \A d \in Events \ {e} : pending'[d] = pending[d]
    BY <1>1, <2>1 DEF TypeOK
  <2>4. EntriesMatch'
    <3> SUFFICES ASSUME NEW d \in Events
                 PROVE  /\ \A i \in DOMAIN listeners'[d] : Matches(ticket', d, listeners'[d][i])
                        /\ \A i \in DOMAIN pending'[d] : /\ Matches(ticket', d, pending'[d][i])
                                                         /\ pending'[d][i].valid
      BY DEF EntriesMatch
    <3>1. CASE d # e
      BY <1>4, <2>1, <2>3, <3>1
    <3>2. CASE d = e
      <4>1. \A i \in DOMAIN listeners'[e] : Matches(ticket', e, listeners'[e][i])
        BY <1>1, <1>4, <2>1
      <4>2. \A i \in 1 .. Len(p) + 1 : i \in 1 .. Len(p) \/ i = Len(p) + 1
        BY <1>1, <1>4
      <4>3. \A i \in DOMAIN q : Matches(ticket', e, q[i]) /\ q[i].valid
        <5> TAKE i \in DOMAIN q
        <5>1. CASE i = Len(p) + 1
          BY <1>3, <2>2, <5>1
        <5>2. CASE i \in 1 .. Len(p)
          <6>1. i \in DOMAIN p /\ q[i] = p[i]
            BY <1>1, <1>4, <2>2, <5>2
          <6> QED BY <1>1, <1>4, <6>1
        <5> QED BY <2>2, <4>2, <5>1, <5>2
      <4> QED BY <2>3, <3>2, <4>1, <4>3
    <3> QED BY <3>1, <3>2
  <2>5. EntriesApart'
    <3> SUFFICES ASSUME NEW d \in Events
                 PROVE  /\ \A i, j \in DOMAIN listeners'[d] :
                             listeners'[d][i].who = listeners'[d][j].who => i = j
                        /\ \A i, j \in DOMAIN pending'[d] :
                             pending'[d][i].who = pending'[d][j].who => i = j
                        /\ \A i \in DOMAIN listeners'[d], j \in DOMAIN pending'[d] :
                             listeners'[d][i].who # pending'[d][j].who
      BY DEF EntriesApart
    <3>1. CASE d # e
      BY <1>5, <2>1, <2>3, <3>1
    <3>2. CASE d = e
      <4>1. \A i \in 1 .. Len(p) + 1 : i \in 1 .. Len(p) \/ i = Len(p) + 1
        BY <1>1, <1>4
      <4>2. \A i, j \in DOMAIN q : q[i].who = q[j].who => i = j
        BY <1>1, <1>3, <1>4, <1>5, <2>2, <4>1
      <4>3. \A i \in DOMAIN s, j \in DOMAIN q : s[i].who # q[j].who
        BY <1>1, <1>3, <1>4, <1>5, <2>2, <4>1
      <4> QED BY <1>5, <2>1, <2>3, <3>2, <4>2, <4>3
    <3> QED BY <3>1, <3>2
  <2>6. AliveIsListed'
    <3> SUFFICES ASSUME NEW m \in Listeners, ticket'[m].state = "alive"
                 PROVE  Listed(m, listeners'[EventOf[m]]) \/ Listed(m, pending'[EventOf[m]])
      BY DEF AliveIsListed
    <3>1. Len(p) + 1 \in DOMAIN q /\ q[Len(p) + 1].who = l
          /\ \A i \in DOMAIN p : i \in DOMAIN q /\ q[i] = p[i]
      BY <1>1, <1>3, <1>4, <2>2
    <3>2. CASE m = l
      BY <2>3, <3>1, <3>2 DEF Listed
    <3>3. CASE m # l
      <4>1. Listed(m, listeners[EventOf[m]]) \/ Listed(m, pending[EventOf[m]])
        BY <1>2, <3>3 DEF Entries, AliveIsListed
      <4>2. CASE EventOf[m] # e
        BY <2>1, <2>3, <4>1, <4>2
      <4>3. CASE EventOf[m] = e
        <5>1. Listed(m, s) => Listed(m, listeners'[e])
          BY <2>1, <2>3, <3>1 DEF Listed
        <5>2. Listed(m, p) => Listed(m, pending'[e])
          BY <2>1, <2>3, <3>1 DEF Listed
        <5> QED BY <4>1, <4>3, <5>1, <5>2
      <4> QED BY <4>2, <4>3
    <3> QED BY <3>2, <3>3
  <2> QED BY <2>4, <2>5, <2>6 DEF Entries
<1>7. CASE ~sentry[e]
  <2> DEFINE q == Append(s, x)
  <2>1. pending' = pending /\ listeners' = [listeners EXCEPT ![e] = q]
    BY <1>7, AddEffect DEF x
  <2>2. DOMAIN q = 1 .. Len(s) + 1 /\ q[Len(s) + 1] = x /\ \A i \in 1 .. Len(s) : q[i] = s[i]
    BY <1>1, ListFacts
  <2> HIDE DEF q
  <2>3. listeners'[e] = q /\ \A d \in Events \ {e} : listeners'[d] = listeners[d]
    BY <1>1, <2>1 DEF TypeOK
  <2>4. EntriesMatch'
    <3> SUFFICES ASSUME NEW d \in Events
                 PROVE  /\ \A i \in DOMAIN listeners'[d] : Matches(ticket', d, listeners'[d][i])
                        /\ \A i \in DOMAIN pending'[d] : /\ Matches(ticket', d, pending'[d][i])
                                                         /\ pending'[d][i].valid
      BY DEF EntriesMatch
    <3>1. CASE d # e
      BY <1>4, <2>1, <2>3, <3>1
    <3>2. CASE d = e
      <4>1. \A i \in DOMAIN pending'[e] :
              Matches(ticket', e, pending'[e][i]) /\ pending'[e][i].valid
        BY <1>1, <1>4, <2>1
      <4>2. \A i \in 1 .. Len(s) + 1 : i \in 1 .. Len(s) \/ i = Len(s) + 1
        BY <1>1, <1>4
      <4>3. \A i \in DOMAIN q : Matches(ticket', e, q[i])
        <5> TAKE i \in DOMAIN q
        <5>1. CASE i = Len(s) + 1
          BY <1>3, <2>2, <5>1
        <5>2. CASE i \in 1 .. Len(s)
          BY <1>1, <1>4, <2>2, <5>2
        <5> QED BY <2>2, <4>2, <5>1, <5>2
      <4> QED BY <2>3, <3>2, <4>1, <4>3
    <3> QED BY <3>1, <3>2
  <2>5. EntriesApart'
    <3> SUFFICES ASSUME NEW d \in Events
                 PROVE  /\ \A i, j \in DOMAIN listeners'[d] :
                             listeners'[d][i].who = listeners'[d][j].who => i = j
                        /\ \A i, j \in DOMAIN pending'[d] :
                             pending'[d][i].who = pending'[d][j].who => i = j
                        /\ \A i \in DOMAIN listeners'[d], j \in DOMAIN pending'[d] :
                             listeners'[d][i].who # pending'[d][j].who
      BY DEF EntriesApart
    <3>1. CASE d # e
      BY <1>5, <2>1, <2>3, <3>1
    <3>2. CASE d = e
      <4>1. \A i \in 1 .. Len(s) + 1 : i \in 1 .. Len(s) \/ i = Len(s) + 1
        BY <1>1, <1>4
      <4>2. \A i, j \in DOMAIN q : q[i].who = q[j].who => i = j
        BY <1>1, <1>3, <1>4, <1>5, <2>2, <4>1
      <4>3. \A i \in DOMAIN q, j \in DOMAIN p : q[i].who # p[j].who
        BY <1>1, <1>3, <1>4, <1>5, <2>2, <4>1
      <4> QED BY <1>5, <2>1, <2>3, <3>2, <4>2, <4>3
    <3> QED BY <3>1, <3>2
  <2>6. AliveIsListed'
    <3> SUFFICES ASSUME NEW m \in Listeners, ticket'[m].state = "alive"
                 PROVE  Listed(m, listeners'[EventOf[m]]) \/ Listed(m, pending'[EventOf[m]])
      BY DEF AliveIsListed
    <3>1. Len(s) + 1 \in DOMAIN q /\ q[Len(s) + 1].who = l
          /\ \A i \in DOMAIN s : i \in DOMAIN q /\ q[i] = s[i]
      BY <1>1, <1>3, <1>4, <2>2
    <3>2. CASE m = l
      BY <2>3, <3>1, <3>2 DEF Listed
    <3>3. CASE m # l
      <4>1. Listed(m, listeners[EventOf[m]]) \/ Listed(m, pending[EventOf[m]])
        BY <1>2, <3>3 DEF Entries, AliveIsListed
      <4>2. CASE EventOf[m] # e
        BY <2>1, <2>3, <4>1, <4>2
      <4>3. CASE EventOf[m] = e
        <5>1. Listed(m, s) => Listed(m, listeners'[e])
          BY <2>1, <2>3, <3>1 DEF Listed
        <5>2. Listed(m, p) => Listed(m, pending'[e])
          BY <2>1, <2>3, <3>1 DEF Listed
        <5> QED BY <4>1, <4>3, <5>1, <5>2
      <4> QED BY <4>2, <4>3
    <3> QED BY <3>2, <3>3
  <2> QED BY <2>4, <2>5, <2>6 DEF Entries
<1> QED BY <1>6, <1>7

\* The entry that is found is the ticket's own.
LEMMA FoundIsOwn ==
  ASSUME TypeOK, IdsApart, Entries, NEW l \in Listeners, ticket[l].state = "alive", IsFound(l)
  PROVE  LET e == EventOf[l]
             i == Found(l)
         IN  /\ i \in DOMAIN listeners[e] /\ listeners[e][i].who = l
             /\ \A d \in Events : \A j \in DOMAIN listeners[d] :
                  listeners[d][j].who = l => d = e /\ j = i
             /\ \A d \in Events : \A j \in DOMAIN pending[d] : pending[d][j].who # l
<1> DEFINE e == EventOf[l]
           i == Found(l)
<1>1. i \in DOMAIN listeners[e] /\ listeners[e][i].id = ticket[l].id /\ e \in Events
  BY FoundIsThere
<1>2. l \in Added
  BY DEF Added
<1>3. listeners[e][i].who = l
  BY <1>1, <1>2, OwnNumber DEF Entries
<1>4. /\ \A d \in Events : \A j \in DOMAIN listeners[d] : EventOf[listeners[d][j].who] = d
      /\ \A d \in Events : \A j \in DOMAIN pending[d] : EventOf[pending[d][j].who] = d
  BY DEF Entries, EntriesMatch, Matches
<1> HIDE DEF i
<1>5. \A d \in Events : \A j \in DOMAIN listeners[d] : listeners[d][j].who = l => d = e /\ j = i
  BY <1>1, <1>3, <1>4 DEF Entries, EntriesApart
<1>6. \A d \in Events : \A j \in DOMAIN pending[d] : pending[d][j].who # l
  BY <1>1, <1>3, <1>4 DEF Entries, EntriesApart
<1> QED BY <1>1, <1>3, <1>5, <1>6 DEF i

LEMMA EntriesDestroy ==
  ASSUME ~DestroysPending, TypeOK, IdsApart, Entries, NEW l \in Listeners, DestroyTicket(l)
  PROVE  Entries'
<1> DEFINE e == EventOf[l]
           i == Found(l)
           s == listeners[e]
           t == listeners'[e]
           q(p) == IF p < i THEN p ELSE p + 1
           r(p) == IF p < i THEN p ELSE p - 1
<1>1. /\ ticket[l].state = "alive" /\ IsFound(l) /\ Disable(e, i) /\ pending' = pending
      /\ ticket'[l].state = "destroyed" /\ ticket'[l].id = ticket[l].id
      /\ \A m \in Listeners \ {l} : ticket'[m] = ticket[m]
  BY DestroyEffect
<1>2. /\ i \in DOMAIN s /\ s[i].who = l /\ e \in Events
      /\ \A d \in Events : \A j \in DOMAIN listeners[d] :
           listeners[d][j].who = l => d = e /\ j = i
      /\ \A d \in Events : \A j \in DOMAIN pending[d] : pending[d][j].who # l
  BY <1>1, FoundIsOwn
<1>3. /\ listeners' = [listeners EXCEPT ![e] = t] /\ t \in Seq(ListenerEntries)
      /\ sentry[e] => /\ Lowered(s, t) /\ t[i].valid = FALSE
                      /\ \A p \in DOMAIN s \ {i} : t[p] = s[p]
      /\ ~sentry[e] => /\ \A p \in DOMAIN t : t[p] = s[q(p)] /\ q(p) \in DOMAIN s \ {i}
                       /\ \A p \in DOMAIN s \ {i} : r(p) \in DOMAIN t
  BY <1>1, DisableEffect
<1>4. /\ DOMAIN s = 1 .. Len(s) /\ Len(s) \in Nat /\ DOMAIN t = 1 .. Len(t) /\ Len(t) \in Nat
      /\ \A d \in Events \ {e} : listeners'[d] = listeners[d]
      /\ \A d \in Events : \A j \in DOMAIN listeners[d] : listeners[d][j] \in ListenerEntries
      /\ \A d \in Events : \A j \in DOMAIN pending[d] : pending[d][j] \in ListenerEntries
  BY <1>2, <1>3, ListFacts DEF TypeOK
<1> HIDE DEF i, t
<1>5. \A p \in DOMAIN s \ {i} : q(r(p)) = p
  BY <1>2, <1>4
<1>6. \A j, k \in DOMAIN t : q(j) = q(k) => j = k
  BY <1>2, <1>4
<1> HIDE DEF q, r, s
\* Entries of others match as before, and the one of l too.
<1>7. \A d \in Events : \A y \in ListenerEntries :
        Matches(ticket, d, y) /\ y.who # l => Matches(ticket', d, y)
  BY <1>1 DEF Matches, ListenerEntries
<1>8. /\ \A d \in Events \ {e} : \A j \in DOMAIN listeners[d] : Matches(ticket', d, listeners[d][j])
      /\ \A j \in DOMAIN s \ {i} : Matches(ticket', e, s[j])
      /\ \A d \in Events : \A j \in DOMAIN pending[d] : /\ Matches(ticket', d, pending[d][j])
                                                        /\ pending[d][j].valid
  <2>1. /\ \A d \in Events : \A j \in DOMAIN listeners[d] : Matches(ticket, d, listeners[d][j])
        /\ \A d \in Events : \A j \in DOMAIN pending[d] : /\ Matches(ticket, d, pending[d][j])
                                                          /\ pending[d][j].valid
    BY DEF Entries, EntriesMatch
  <2>2. \A d \in Events \ {e} : \A j \in DOMAIN listeners[d] : Matches(ticket', d, listeners[d][j])
    BY <1>2, <1>4, <1>7, <2>1
  <2>3. \A j \in DOMAIN s \ {i} : Matches(ticket', e, s[j])
    BY <1>2, <1>4, <1>7, <2>1 DEF s
  <2>4. \A d \in Events : \A j \in DOMAIN pending[d] : /\ Matches(ticket', d, pending[d][j])
                                                       /\ pending[d][j].valid
    BY <1>2, <1>4, <1>7, <2>1
  <2> QED BY <2>2, <2>3, <2>4
<1>9. \A j \in DOMAIN t : Matches(ticket', e, t[j])
  <2>1. CASE sentry[e]
    <3>1. DOMAIN t = DOMAIN s /\ t[i].who = s[i].who /\ t[i].id = s[i].id /\ ~t[i].valid
      BY <1>2, <1>3, <2>1 DEF Lowered
    <3>2. s[i].id = ticket[l].id /\ EventOf[l] = e
      BY <1>2 DEF Entries, EntriesMatch, Matches, s
    <3>3. Matches(ticket', e, t[i])
      BY <1>1, <1>2, <3>1, <3>2 DEF Matches
    <3> QED BY <1>3, <1>8, <2>1, <3>1, <3>3
  <2>2. CASE ~sentry[e]
    BY <1>3, <1>8, <2>2
  <2> QED BY <2>1, <2>2
<1>10. EntriesMatch'
  <2> SUFFICES ASSUME NEW d \in Events
               PROVE  /\ \A j \in DOMAIN listeners'[d] : Matches(ticket', d, listeners'[d][j])
                      /\ \A j \in DOMAIN pending'[d] : /\ Matches(ticket', d, pending'[d][j])
                                                       /\ pending'[d][j].valid
    BY DEF EntriesMatch
  <2>1. CASE d # e
    BY <1>1, <1>4, <1>8, <2>1
  <2>2. CASE d = e
    BY <1>1, <1>2, <1>8, <1>9, <2>2 DEF t
  <2> QED BY <2>1, <2>2
<1>11. /\ \A j, k \in DOMAIN t : t[j].who = t[k].who => j = k
       /\ \A j \in DOMAIN t, k \in DOMAIN pending[e] : t[j].who # pending[e][k].who
  <2>1. /\ \A j, k \in DOMAIN s : s[j].who = s[k].who => j = k
        /\ \A j \in DOMAIN s, k \in DOMAIN pending[e] : s[j].who # pending[e][k].who
    BY <1>2 DEF Entries, EntriesApart, s
  <2>2. CASE sentry[e]
    BY <1>3, <2>1, <2>2 DEF Lowered
  <2>3. CASE ~sentry[e]
    BY <1>3, <1>6, <2>1, <2>3
  <2> QED BY <2>2, <2>3
<1>12. EntriesApart'
  <2> SUFFICES ASSUME NEW d \in Events
               PROVE  /\ \A j, k \in DOMAIN listeners'[d] :
                           listeners'[d][j].who = listeners'[d][k].who => j = k
                      /\ \A j, k \in DOMAIN pending'[d] :
                           pending'[d][j].who = pending'[d][k].who => j = k
                      /\ \A j \in DOMAIN listeners'[d], k \in DOMAIN pending'[d] :
                           listeners'[d][j].who # pending'[d][k].who
    BY DEF EntriesApart
  <2>1. CASE d # e
    BY <1>1, <1>4, <2>1 DEF Entries, EntriesApart
  <2>2. CASE d = e
    BY <1>1, <1>11, <2>2 DEF Entries, EntriesApart, t
  <2> QED BY <2>1, <2>2
<1>13. AliveIsListed'
  <2> SUFFICES ASSUME NEW m \in Listeners, ticket'[m].state = "alive"
               PROVE  Listed(m, listeners'[EventOf[m]]) \/ Listed(m, pending'[EventOf[m]])
    BY DEF AliveIsListed
  <2>1. m # l /\ ticket[m].state = "alive" /\ EventOf[m] \in Events
    BY <1>1
  <2>2. Listed(m, listeners[EventOf[m]]) \/ Listed(m, pending[EventOf[m]])
    BY <2>1 DEF Entries, AliveIsListed
  <2>3. Listed(m, s) => Listed(m, t)
    <3> SUFFICES ASSUME NEW p \in DOMAIN s, s[p].who = m PROVE Listed(m, t)
      BY DEF Listed
    <3>1. p # i
      BY <1>2, <2>1 DEF s
    <3>2. CASE sentry[e]
      BY <1>3, <3>1, <3>2 DEF Lowered, Listed
    <3>3. CASE ~sentry[e]
      <4>1. r(p) \in DOMAIN t /\ t[r(p)] = s[q(r(p))] /\ q(r(p)) = p
        BY <1>3, <1>5, <3>1, <3>3
      <4> QED BY <4>1 DEF Listed
    <3> QED BY <3>2, <3>3
  <2>4. CASE EventOf[m] = e
    BY <1>1, <2>2, <2>3, <2>4 DEF s, t
  <2>5. CASE EventOf[m] # e
    BY <1>1, <1>4, <2>1, <2>2, <2>5
  <2> QED BY <2>4, <2>5
<1> QED BY <1>10, <1>12, <1>13 DEF Entries

\* The clean-up: the valid entries first, then those that were pending.
LEMMA CleanUpLists ==
  ASSUME TypeOK, NEW e \in Events, CleanUp(e)
  PROVE  LET s == listeners[e]
             p == pending[e]
             v == Valid(s)
             n == Len(v)
             t == listeners'[e]
         IN  /\ n \in Nat /\ DOMAIN v = 1 .. n /\ v \in Seq(ListenerEntries)
             /\ \E pos : Positions(s, v, pos)
             /\ DOMAIN t = 1 .. n + Len(p)
             /\ \A k \in DOMAIN v : k \in DOMAIN t /\ t[k] = v[k]
             /\ \A k \in DOMAIN p : n + k \in DOMAIN t /\ t[n + k] = p[k]
             /\ \A k \in DOMAIN t : k \in DOMAIN v \/ (k - n \in DOMAIN p /\ k = n + (k - n))
<1> DEFINE s == listeners[e]
           p == pending[e]
           v == Valid(s)
           n == Len(v)
           t == listeners'[e]
<1>1. /\ s \in Seq(ListenerEntries) /\ p \in Seq(ListenerEntries)
      /\ Len(p) \in Nat /\ DOMAIN p = 1 .. Len(p)
  BY ListFacts
<1>2. v \in Seq(ListenerEntries) /\ \E pos : Positions(s, v, pos)
  BY <1>1, ValidPositions
<1>3. n \in Nat /\ DOMAIN v = 1 .. n
  BY <1>2
<1>4. t = v \o p
  BY CleanUpEffect
<1> HIDE DEF v, p, t, s
<1>5. /\ Len(t) = n + Len(p) /\ t \in Seq(ListenerEntries)
      /\ \A k \in 1 .. n + Len(p) : t[k] = IF k <= n THEN v[k] ELSE p[k - n]
  BY <1>1, <1>2, <1>4, ConcatProperties
<1> HIDE DEF n
<1>6. DOMAIN t = 1 .. n + Len(p)
  BY <1>5
<1>7. \A k \in DOMAIN v : k \in DOMAIN t /\ t[k] = v[k]
  BY <1>1, <1>3, <1>5, <1>6
<1>8. ASSUME NEW k \in DOMAIN p PROVE n + k \in DOMAIN t /\ t[n + k] = p[k]
  <2>1. n + k \in 1 .. n + Len(p) /\ ~(n + k <= n) /\ (n + k) - n = k
    BY <1>1, <1>3
  <2> QED BY <1>5, <1>6, <2>1
<1>9. \A k \in DOMAIN t : k \in DOMAIN v \/ (k - n \in DOMAIN p /\ k = n + (k - n))
  BY <1>1, <1>3, <1>6
<1> QED BY <1>2, <1>3, <1>6, <1>7, <1>8, <1>9 DEF n, v, p, t, s

LEMMA EntriesCleanUp ==
  ASSUME TypeOK, Entries, NEW e \in Events, CleanUp(e), ticket' = ticket
  PROVE  Entries' /\ \A i \in DOMAIN listeners'[e] : listeners'[e][i].valid
<1> DEFINE s == listeners[e]
           p == pending[e]
           v == Valid(s)
           n == Len(v)
           t == listeners'[e]
<1>1. /\ n \in Nat /\ DOMAIN v = 1 .. n
      /\ \A k \in DOMAIN v : k \in DOMAIN t /\ t[k] = v[k]
      /\ \A k \in DOMAIN p : n + k \in DOMAIN t /\ t[n + k] = p[k]
      /\ \A k \in DOMAIN t : k \in DOMAIN v \/ (k - n \in DOMAIN p /\ k = n + (k - n))
  BY CleanUpLists
<1>2. PICK pos : Positions(s, v, pos)
  BY CleanUpLists
<1>3. /\ pending'[e] = <<>> /\ DOMAIN pending'[e] = {}
      /\ \A d \in Events \ {e} : listeners'[d] = listeners[d] /\ pending'[d] = pending[d]
      /\ DOMAIN s = 1 .. Len(s) /\ DOMAIN p = 1 .. Len(p) /\ Len(p) \in Nat
  <2>1. /\ pending'[e] = <<>>
        /\ \A d \in Events \ {e} : listeners'[d] = listeners[d] /\ pending'[d] = pending[d]
    BY CleanUpEffect
  <2>2. DOMAIN pending'[e] = {}
    BY <2>1
  <2>3. DOMAIN s = 1 .. Len(s) /\ DOMAIN p = 1 .. Len(p) /\ Len(p) \in Nat
    BY ListFacts
  <2> QED BY <2>1, <2>2, <2>3
<1>4. /\ \A i \in DOMAIN s : Matches(ticket, e, s[i])
      /\ \A i \in DOMAIN p : Matches(ticket, e, p[i]) /\ p[i].valid
      /\ \A i, j \in DOMAIN s : s[i].who = s[j].who => i = j
      /\ \A i, j \in DOMAIN p : p[i].who = p[j].who => i = j
      /\ \A i \in DOMAIN s, j \in DOMAIN p : s[i].who # p[j].who
  BY DEF Entries, EntriesMatch, EntriesApart
<1> HIDE DEF v, n, t, s, p
<1>5. /\ \A k \in DOMAIN v : pos[k] \in DOMAIN s /\ v[k] = s[pos[k]] /\ v[k].valid
      /\ \A j, k \in DOMAIN v : pos[j] = pos[k] => j = k
      /\ \A i \in DOMAIN s : s[i].valid => \E k \in DOMAIN v : pos[k] = i
  <2>1. \A k \in DOMAIN v : pos[k] \in DOMAIN s /\ v[k] = s[pos[k]] /\ v[k].valid
    BY <1>2 DEF Positions
  <2>2. \A j, k \in DOMAIN v : pos[j] = pos[k] => j = k
    <3> SUFFICES ASSUME NEW j \in DOMAIN v, NEW k \in DOMAIN v, pos[j] = pos[k], j < k
                 PROVE  FALSE
      BY <1>1
    <3>1. pos[j] < pos[k] /\ pos[j] \in Nat
      BY <1>2, <1>3, <2>1 DEF Positions
    <3> QED BY <3>1
  <2> QED BY <1>2, <2>1, <2>2 DEF Positions
<1>6. \A k \in DOMAIN t : Matches(ticket, e, t[k]) /\ t[k].valid
  <2> TAKE k \in DOMAIN t
  <2>1. CASE k \in DOMAIN v
    BY <1>1, <1>4, <1>5, <2>1
  <2>2. CASE k - n \in DOMAIN p /\ k = n + (k - n)
    BY <1>1, <1>4, <2>2
  <2> QED BY <1>1, <2>1, <2>2
<1>7. EntriesMatch'
  BY <1>3, <1>6 DEF Entries, EntriesMatch, t
<1>8. ASSUME NEW j \in DOMAIN t, NEW k \in DOMAIN t, t[j].who = t[k].who PROVE j = k
  <2>1. CASE j \in DOMAIN v /\ k \in DOMAIN v
    BY <1>1, <1>4, <1>5, <1>8, <2>1
  <2>2. CASE j \in DOMAIN v /\ k \notin DOMAIN v
    <3>1. k - n \in DOMAIN p /\ t[k] = p[k - n] /\ t[j] = s[pos[j]] /\ pos[j] \in DOMAIN s
      BY <1>1, <1>5, <2>2
    <3> QED BY <1>4, <1>8, <3>1
  <2>3. CASE j \notin DOMAIN v /\ k \in DOMAIN v
    <3>1. j - n \in DOMAIN p /\ t[j] = p[j - n] /\ t[k] = s[pos[k]] /\ pos[k] \in DOMAIN s
      BY <1>1, <1>5, <2>3
    <3> QED BY <1>4, <1>8, <3>1
  <2>4. CASE j \notin DOMAIN v /\ k \notin DOMAIN v
    <3>1. j - n \in DOMAIN p /\ t[j] = p[j - n] /\ k - n \in DOMAIN p /\ t[k] = p[k - n]
          /\ j = n + (j - n) /\ k = n + (k - n)
      BY <1>1, <2>4
    <3> QED BY <1>4, <1>8, <3>1
  <2> QED BY <2>1, <2>2, <2>3, <2>4
<1>9. EntriesApart'
  BY <1>3, <1>8 DEF Entries, EntriesApart, t
<1>10. AliveIsListed'
  <2> SUFFICES ASSUME NEW m \in Listeners, ticket[m].state = "alive"
               PROVE  Listed(m, listeners'[EventOf[m]]) \/ Listed(m, pending'[EventOf[m]])
    BY DEF AliveIsListed
  <2>1. Listed(m, listeners[EventOf[m]]) \/ Listed(m, pending[EventOf[m]])
    BY DEF Entries, AliveIsListed
  <2>2. CASE EventOf[m] # e
    BY <1>3, <2>1, <2>2
  <2>3. CASE EventOf[m] = e
    <3>1. Listed(m, s) => Listed(m, t)
      <4> SUFFICES ASSUME NEW i \in DOMAIN s, s[i].who = m PROVE Listed(m, t)
        BY DEF Listed
      <4>1. s[i].valid
        BY <1>4 DEF Matches
      <4>2. PICK k \in DOMAIN v : pos[k] = i
        BY <1>5, <4>1
      <4> QED BY <1>1, <1>5, <4>2 DEF Listed
    <3>2. Listed(m, p) => Listed(m, t)
      BY <1>1 DEF Listed
    <3> QED BY <2>1, <2>3, <3>1, <3>2 DEF s, p, t
  <2> QED BY <2>2, <2>3
<1> QED BY <1>6, <1>7, <1>9, <1>10 DEF Entries, t

LEMMA EntriesStep ==
  ASSUME ~DestroysPending, EnoughIds, TypeOK, IdsApart, Entries, [Next]_vars
  PROVE  IdsApart' /\ Entries'
<1>1. ASSUME UNCHANGED <<listeners, pending, nextId, ticket>> PROVE IdsApart' /\ Entries'
  BY <1>1, IdsKept, EntriesKept
<1>2. CASE \E e \in Events : Fire(e)
  BY <1>1, <1>2, FireEffect
<1>3. CASE CallListener \/ SkipListener \/ ListenerReturns
  BY <1>1, <1>3, CallEffect, SkipEffect, ReturnEffect DEF OnlyTheStack
<1>4. CASE ListenerThrows
  BY <1>1, <1>4, ThrowEffect
<1>5. CASE FireReturns
  <2>1. Top.event \in Events /\ Top.previous \in BOOLEAN /\ UNCHANGED <<nextId, ticket>>
    BY <1>5, EndEffect, FrameFacts
  <2>2. CASE Top.previous
    BY <1>1, <1>5, <2>1, <2>2, EndEffect
  <2>3. CASE ~Top.previous
    BY <1>5, <2>1, <2>3, EndEffect, EntriesCleanUp, IdsKept
  <2> QED BY <2>2, <2>3
<1>6. ASSUME NEW l \in Listeners, AddListener(l) PROVE IdsApart' /\ Entries'
  BY <1>6, IdsAdd, EntriesAdd
<1>7. ASSUME NEW l \in Listeners, DestroyTicket(l) PROVE IdsApart' /\ Entries'
  <2>1. /\ ticket[l].state = "alive" /\ nextId' = nextId
        /\ ticket'[l].state = "destroyed" /\ ticket'[l].id = ticket[l].id
        /\ \A m \in Listeners \ {l} : ticket'[m] = ticket[m]
    BY <1>7, DestroyEffect
  <2>2. \A m \in Listeners : /\ ticket'[m].id = ticket[m].id
                             /\ ticket'[m].state = "none" <=> ticket[m].state = "none"
    BY <2>1
  <2> QED BY <1>7, <2>1, <2>2, IdsKept, EntriesDestroy
<1>8. CASE UNCHANGED vars
  BY <1>1, <1>8 DEF vars
<1> QED BY <1>2, <1>3, <1>4, <1>5, <1>6, <1>7, <1>8 DEF Next

Waits(ls, ps, e) == ps[e] # <<>> \/ \E i \in DOMAIN ls[e] : ~ls[e][i].valid
IsFired(s, e) == FiredIn(s, e, Len(s))

LEMMA WaitsMeaning ==
  ASSUME TypeOK
  PROVE  PendingWaitsForFire <=>
           \A e \in Events : Waits(listeners, pending, e) => threw[e] \/ IsFired(stack, e)
<1>1. \A e \in Events : (\E x \in ToSet(listeners[e]) : ~x.valid)
                          <=> \E i \in DOMAIN listeners[e] : ~listeners[e][i].valid
  BY DEF ToSet
<1>2. DOMAIN stack = 1 .. Len(stack)
  BY StackFacts
<1> QED BY <1>1, <1>2 DEF PendingWaitsForFire, Waits, IsFired, FiredIn

LEMMA PendingStep ==
  ASSUME ~DestroysPending, EnoughIds, TicketsInv, [Next]_vars
  PROVE  PendingWaitsForFire'
<1>1. TypeOK' /\ Guarded /\ TypeOK
  BY TypeStep DEF TicketsInv
<1>2. \A e \in Events : Waits(listeners, pending, e) => threw[e] \/ IsFired(stack, e)
  BY <1>1, WaitsMeaning DEF TicketsInv
<1>3. PendingWaitsForFire' <=>
        \A e \in Events : Waits(listeners', pending', e) => threw'[e] \/ IsFired(stack', e)
  <2>1. \A e \in Events : (\E x \in ToSet(listeners'[e]) : ~x.valid)
                          <=> \E i \in DOMAIN listeners'[e] : ~listeners'[e][i].valid
    BY DEF ToSet
  <2>2. DOMAIN stack' = 1 .. Len(stack')
    BY <1>1 DEF TypeOK
  <2> QED BY <2>1, <2>2 DEF PendingWaitsForFire, Waits, IsFired, FiredIn
<1>4. /\ Len(stack) \in Nat
      /\ \A e \in Events : sentry[e] = IsFired(stack, e)
      /\ stack # <<>> => Top = stack[Len(stack)] /\ Len(stack) \in 1 .. Len(stack)
  BY <1>1, StackFacts DEF Guarded, IsFired
<1>5. ASSUME UNCHANGED <<listeners, pending>>,
             \A e \in Events : threw[e] \/ IsFired(stack, e) => threw'[e] \/ IsFired(stack', e)
      PROVE  PendingWaitsForFire'
  BY <1>2, <1>3, <1>5 DEF Waits
<1>6. ASSUME NEW e \in Events, Fire(e) PROVE PendingWaitsForFire'
  <2>1. /\ Len(stack') = Len(stack) + 1 /\ \A i \in 1 .. Len(stack) : stack'[i] = stack[i]
        /\ UNCHANGED <<listeners, pending, threw>>
    BY <1>1, <1>6, FireEffect DEF Pushed
  <2>2. \A d \in Events : IsFired(stack, d) => IsFired(stack', d)
    BY <1>4, <2>1 DEF IsFired, FiredIn
  <2> QED BY <1>5, <2>1, <2>2
<1>7. ASSUME NEW g \in Frames, Stepped(g), g.event = Top.event, OnlyTheStack
      PROVE  PendingWaitsForFire'
  <2>1. Len(stack') = Len(stack) /\ \A i \in 1 .. Len(stack) : stack'[i].event = stack[i].event
    BY <1>4, <1>7 DEF Stepped
  <2>2. \A d \in Events : IsFired(stack, d) => IsFired(stack', d)
    BY <1>4, <2>1 DEF IsFired, FiredIn
  <2> QED BY <1>5, <1>7, <2>2 DEF OnlyTheStack
<1>8. CASE CallListener
  BY <1>1, <1>7, <1>8, CallEffect
<1>9. CASE SkipListener
  BY <1>1, <1>7, <1>9, SkipEffect
<1>10. CASE ListenerReturns
  BY <1>1, <1>7, <1>10, ReturnEffect
\* The calls that remain are of the events that were fired, but for the one that ends.
<1>11. ASSUME Left PROVE \A d \in Events \ {Top.event} : IsFired(stack, d) => IsFired(stack', d)
  BY <1>4, <1>11 DEF Left, IsFired, FiredIn
<1>12. CASE ListenerThrows
  <2>1. /\ Left /\ Top.event \in Events /\ threw' = [threw EXCEPT ![Top.event] = TRUE]
        /\ UNCHANGED <<listeners, pending>>
    BY <1>1, <1>12, ThrowEffect, FrameFacts
  <2>2. threw'[Top.event] /\ \A d \in Events \ {Top.event} : threw'[d] = threw[d]
    BY <1>1, <2>1 DEF TypeOK
  <2> QED BY <1>5, <1>11, <2>1, <2>2
<1>13. CASE FireReturns
  <2>1. /\ Left /\ Top.event \in Events /\ Top.previous \in BOOLEAN /\ stack # <<>>
        /\ UNCHANGED <<nextId, ticket>>
    BY <1>1, <1>13, EndEffect, FrameFacts DEF Left
  <2>2. CASE Top.previous
    <3>1. FiredIn(stack, Top.event, Len(stack) - 1)
      BY <1>1, <1>4, <2>1, <2>2 DEF Guarded
    <3>2. IsFired(stack', Top.event)
      BY <2>1, <3>1 DEF Left, IsFired, FiredIn
    <3>3. UNCHANGED <<listeners, pending, threw>>
      BY <1>1, <1>13, <2>2, EndEffect
    <3> QED BY <1>5, <1>11, <2>1, <3>2, <3>3
  <2>3. CASE ~Top.previous
    <3>1. CleanUp(Top.event)
      BY <1>1, <1>13, <2>3, EndEffect
    <3>2. /\ \A i \in DOMAIN listeners'[Top.event] : listeners'[Top.event][i].valid
          /\ pending'[Top.event] = <<>>
          /\ \A d \in Events \ {Top.event} :
               listeners'[d] = listeners[d] /\ pending'[d] = pending[d] /\ threw'[d] = threw[d]
      BY <1>1, <2>1, <3>1, EntriesCleanUp, CleanUpEffect DEF TicketsInv, Entries
    <3>3. \A d \in Events \ {Top.event} :
            Waits(listeners', pending', d) => Waits(listeners, pending, d)
      BY <3>2 DEF Waits
    <3>4. ~Waits(listeners', pending', Top.event)
      BY <3>2 DEF Waits
    <3> QED BY <1>2, <1>3, <1>11, <2>1, <3>2, <3>3, <3>4
  <2> QED BY <2>1, <2>2, <2>3
<1>14. ASSUME NEW l \in Listeners, AddListener(l) PROVE PendingWaitsForFire'
  <2> DEFINE e == EventOf[l]
  <2>1. e \in Events /\ UNCHANGED <<stack, threw>> /\ Entry(l).valid
    BY <1>1, <1>14, AddEffect DEF Entry
  <2>2. CASE sentry[e]
    <3>1. /\ UNCHANGED listeners /\ \A d \in Events \ {e} : pending'[d] = pending[d]
      BY <1>1, <1>14, <2>1, <2>2, AddEffect DEF TypeOK
    <3>2. IsFired(stack', e)
      BY <1>4, <2>1, <2>2
    <3> QED BY <1>2, <1>3, <2>1, <3>1, <3>2 DEF Waits
  <2>3. CASE ~sentry[e]
    <3>1. /\ UNCHANGED pending /\ \A d \in Events \ {e} : listeners'[d] = listeners[d]
          /\ listeners'[e] = Append(listeners[e], Entry(l))
      BY <1>1, <1>14, <2>1, <2>3, AddEffect DEF TypeOK
    <3>2. DOMAIN listeners[e] = 1 .. Len(listeners[e]) /\ Len(listeners[e]) \in Nat
      BY <1>1, <2>1, ListFacts
    <3>3. \A i \in DOMAIN listeners'[e] : ~listeners'[e][i].valid =>
            i \in DOMAIN listeners[e] /\ listeners'[e][i] = listeners[e][i]
      <4>1. /\ DOMAIN listeners'[e] = 1 .. Len(listeners[e]) + 1
            /\ listeners'[e][Len(listeners[e]) + 1] = Entry(l)
            /\ \A i \in 1 .. Len(listeners[e]) : listeners'[e][i] = listeners[e][i]
        BY <1>1, <2>1, <3>1, ListFacts
      <4> QED BY <2>1, <3>2, <4>1
    <3>4. \A d \in Events : Waits(listeners', pending', d) => Waits(listeners, pending, d)
      BY <3>1, <3>3 DEF Waits
    <3> QED BY <1>2, <1>3, <2>1, <3>4
  <2> QED BY <2>2, <2>3
<1>15. ASSUME NEW l \in Listeners, DestroyTicket(l) PROVE PendingWaitsForFire'
  <2> DEFINE e == EventOf[l]
             i == Found(l)
             s == listeners[e]
             t == listeners'[e]
  <2>1. /\ e \in Events /\ UNCHANGED <<pending, stack, threw>>
        /\ IsFound(l) /\ Disable(e, i)
    BY <1>1, <1>15, DestroyEffect
  <2>2. /\ listeners' = [listeners EXCEPT ![e] = t]
        /\ ~sentry[e] => \A p \in DOMAIN t : /\ t[p] = s[IF p < i THEN p ELSE p + 1]
                                             /\ (IF p < i THEN p ELSE p + 1) \in DOMAIN s \ {i}
    BY <1>1, <2>1, DisableEffect
  <2> HIDE DEF i, t
  <2>3. \A d \in Events \ {e} : listeners'[d] = listeners[d]
    BY <1>1, <2>1, <2>2 DEF TypeOK
  <2>4. CASE sentry[e]
    <3>1. IsFired(stack', e)
      BY <1>4, <2>1, <2>4
    <3> QED BY <1>2, <1>3, <2>1, <2>3, <3>1 DEF Waits
  <2>5. CASE ~sentry[e]
    <3>1. Waits(listeners', pending', e) => Waits(listeners, pending, e)
      BY <2>1, <2>2, <2>5 DEF Waits, t
    <3>2. \A d \in Events \ {e} : Waits(listeners', pending', d) => Waits(listeners, pending, d)
      BY <2>1, <2>3 DEF Waits
    <3> QED BY <1>2, <1>3, <2>1, <3>1, <3>2
  <2> QED BY <2>4, <2>5
<1>16. CASE UNCHANGED vars
  BY <1>5, <1>16 DEF vars
<1> QED BY <1>6, <1>8, <1>9, <1>10, <1>12, <1>13, <1>14, <1>15, <1>16 DEF Next

LEMMA TicketsInit ==
  ASSUME Init PROVE TicketsInv
<1>1. TypeOK /\ Guarded
  BY TypeInit
<1>2. Added = {}
  BY DEF Init, Added
<1>3. IdsApart
  BY <1>2 DEF IdsApart
<1>4. \A e \in Events : DOMAIN listeners[e] = {} /\ DOMAIN pending[e] = {} /\ pending[e] = <<>>
  BY DEF Init
<1>5. EntriesMatch /\ EntriesApart
  BY <1>4 DEF EntriesMatch, EntriesApart
<1>6. AliveIsListed
  BY DEF Init, AliveIsListed
<1>7. PendingWaitsForFire
  BY <1>1, <1>4, WaitsMeaning DEF Waits
<1> QED BY <1>1, <1>3, <1>5, <1>6, <1>7 DEF TicketsInv

LEMMA TicketsInvariant ==
  ASSUME ~DestroysPending, EnoughIds
  PROVE  Spec => []TicketsInv
<1>1. TicketsInv /\ [Next]_vars => TicketsInv'
  <2> SUFFICES ASSUME TicketsInv, [Next]_vars PROVE TicketsInv'
    OBVIOUS
  <2>1. TypeOK /\ Guarded /\ IdsApart /\ Entries
    BY DEF TicketsInv, Entries
  <2>2. TypeOK' /\ Guarded'
    BY <2>1, TypeStep, GuardedStep
  <2>3. IdsApart' /\ Entries'
    BY <2>1, EntriesStep
  <2>4. PendingWaitsForFire'
    BY PendingStep
  <2> QED BY <2>2, <2>3, <2>4 DEF TicketsInv, Entries
<1>2. Init => TicketsInv
  BY TicketsInit
<1> QED BY <1>1, <1>2, PTL DEF Spec

LEMMA BothLists ==
  ASSUME TypeOK, NEW e \in Events
  PROVE  LET s == listeners[e]
             p == pending[e]
         IN  /\ DOMAIN (s \o p) = 1 .. Len(s) + Len(p)
             /\ \A i \in DOMAIN s : i \in DOMAIN (s \o p) /\ (s \o p)[i] = s[i]
             /\ \A i \in DOMAIN p : Len(s) + i \in DOMAIN (s \o p) /\ (s \o p)[Len(s) + i] = p[i]
             /\ \A i \in DOMAIN (s \o p) :
                  i \in DOMAIN s \/ (i - Len(s) \in DOMAIN p /\ i = Len(s) + (i - Len(s)))
<1> DEFINE s == listeners[e]
           p == pending[e]
           t == s \o p
           n == Len(s)
<1>1. /\ s \in Seq(ListenerEntries) /\ n \in Nat /\ DOMAIN s = 1 .. n
      /\ p \in Seq(ListenerEntries) /\ Len(p) \in Nat /\ DOMAIN p = 1 .. Len(p)
  BY ListFacts
<1> HIDE DEF s, p
<1>2. /\ t \in Seq(ListenerEntries) /\ Len(t) = n + Len(p)
      /\ \A i \in 1 .. n + Len(p) : t[i] = IF i <= n THEN s[i] ELSE p[i - n]
  BY <1>1, ConcatProperties
<1> HIDE DEF t, n
<1>3. DOMAIN t = 1 .. n + Len(p)
  BY <1>2
<1>4. \A i \in DOMAIN s : i \in DOMAIN t /\ t[i] = s[i]
  BY <1>1, <1>2, <1>3
<1>5. ASSUME NEW i \in DOMAIN p PROVE n + i \in DOMAIN t /\ t[n + i] = p[i]
  <2>1. n + i \in 1 .. n + Len(p) /\ ~(n + i <= n) /\ (n + i) - n = i
    BY <1>1
  <2> QED BY <1>2, <1>3, <2>1
<1>6. \A i \in DOMAIN t : i \in DOMAIN s \/ (i - n \in DOMAIN p /\ i = n + (i - n))
  BY <1>1, <1>3
<1> QED BY <1>3, <1>4, <1>5, <1>6 DEF s, p, t, n

LEMMA TicketsGiveListeners ==
  ASSUME TicketsInv PROVE TicketsFindListeners
<1>1. TypeOK /\ IdsApart /\ EntriesMatch /\ EntriesApart /\ AliveIsListed /\ PendingWaitsForFire
  BY DEF TicketsInv
<1>2. ASSUME NEW l \in Listeners, ticket[l].state = "alive" PROVE OneEntry(l, EntriesOf(l))
  <2> DEFINE e == EventOf[l]
             s == listeners[e]
             p == pending[e]
             t == s \o p
             n == Len(s)
  <2>1. /\ \A i \in DOMAIN s : i \in DOMAIN t /\ t[i] = s[i]
        /\ \A i \in DOMAIN p : n + i \in DOMAIN t /\ t[n + i] = p[i]
        /\ \A i \in DOMAIN t : i \in DOMAIN s \/ (i - n \in DOMAIN p /\ i = n + (i - n))
        /\ e \in Events /\ n \in Nat /\ DOMAIN s = 1 .. n /\ DOMAIN p = 1 .. Len(p)
        /\ Len(p) \in Nat
    <3>1. e \in Events
      OBVIOUS
    <3> QED BY <1>1, <3>1, BothLists, ListFacts
  <2>2. /\ \A i \in DOMAIN s : s[i] \in ListenerEntries /\ Matches(ticket, e, s[i])
        /\ \A i \in DOMAIN p : p[i] \in ListenerEntries /\ Matches(ticket, e, p[i])
        /\ \A i, j \in DOMAIN s : s[i].who = s[j].who => i = j
        /\ \A i, j \in DOMAIN p : p[i].who = p[j].who => i = j
        /\ \A i \in DOMAIN s, j \in DOMAIN p : s[i].who # p[j].who
    BY <1>1, <2>1, ListFacts DEF EntriesMatch, EntriesApart
  <2>3. /\ \A i \in DOMAIN s : s[i].id = ticket[l].id <=> s[i].who = l
        /\ \A i \in DOMAIN p : p[i].id = ticket[l].id <=> p[i].who = l
    <3>1. l \in Added /\ e \in Events
      BY <1>2, <2>1 DEF Added
    <3> QED BY <1>1, <3>1, OwnNumber
  <2>4. Listed(l, s) \/ Listed(l, p)
    BY <1>1, <1>2 DEF AliveIsListed
  <2> HIDE DEF s, p, t, n
  <2>5. ASSUME NEW x \in ListenerEntries, Matches(ticket, e, x), x.who = l
        PROVE  x = [who |-> l, id |-> ticket[l].id, valid |-> TRUE]
    <3>1. x.id = ticket[l].id /\ x.valid = TRUE
      BY <1>2, <2>5 DEF Matches, ListenerEntries
    <3> QED BY <2>5, <3>1 DEF ListenerEntries
  <2>6. PICK k \in DOMAIN t : /\ t[k] = [who |-> l, id |-> ticket[l].id, valid |-> TRUE]
                              /\ t[k].who = l
    <3>1. CASE Listed(l, s)
      BY <2>1, <2>2, <2>5, <3>1 DEF Listed
    <3>2. CASE Listed(l, p)
      BY <2>1, <2>2, <2>5, <3>2 DEF Listed
    <3> QED BY <2>4, <3>1, <3>2
  <2>7. ASSUME NEW i \in DOMAIN t, NEW j \in DOMAIN t, t[i].who = t[j].who PROVE i = j
    <3>1. CASE i \in DOMAIN s /\ j \in DOMAIN s
      BY <2>1, <2>2, <2>7, <3>1
    <3>2. CASE i \in DOMAIN s /\ j \notin DOMAIN s
      BY <2>1, <2>2, <2>7, <3>2
    <3>3. CASE i \notin DOMAIN s /\ j \in DOMAIN s
      BY <2>1, <2>2, <2>7, <3>3
    <3>4. CASE i \notin DOMAIN s /\ j \notin DOMAIN s
      <4>1. /\ i - n \in DOMAIN p /\ j - n \in DOMAIN p /\ i = n + (i - n) /\ j = n + (j - n)
            /\ t[i] = p[i - n] /\ t[j] = p[j - n]
        BY <2>1, <3>4
      <4> QED BY <2>2, <2>7, <4>1
    <3> QED BY <3>1, <3>2, <3>3, <3>4
  <2>8. \A j \in DOMAIN t : t[j].id = ticket[l].id <=> t[j].who = l
    <3> TAKE j \in DOMAIN t
    <3>1. CASE j \in DOMAIN s
      BY <2>1, <2>3, <3>1
    <3>2. CASE j \notin DOMAIN s
      <4>1. j - n \in DOMAIN p /\ t[j] = p[j - n]
        BY <2>1, <3>2
      <4> QED BY <2>3, <4>1
    <3> QED BY <3>1, <3>2
  <2>9. \A j \in DOMAIN t \ {k} : t[j].who # l /\ t[j].id # ticket[l].id
    BY <2>6, <2>7, <2>8
  <2>10. OneEntry(l, t)
    BY <2>6, <2>9 DEF OneEntry
  <2> QED BY <2>10 DEF EntriesOf, t, s, p
<1>3. ASSUME NEW l \in Listeners, ticket[l].state = "destroyed",
             NEW e \in Events, NEW x \in ToSet(listeners[e] \o pending[e]), x.who = l
      PROVE  ~x.valid
  <2>1. PICK i \in DOMAIN (listeners[e] \o pending[e]) : x = (listeners[e] \o pending[e])[i]
    BY DEF ToSet
  <2>2. (\E j \in DOMAIN listeners[e] : x = listeners[e][j])
        \/ (\E j \in DOMAIN pending[e] : x = pending[e][j])
    BY <1>1, <2>1, BothLists
  <2>3. Matches(ticket, e, x)
    BY <1>1, <2>2 DEF EntriesMatch
  <2> QED BY <1>3, <2>3 DEF Matches
<1> QED BY <1>1, <1>2, <1>3 DEF TicketsFindListeners

(***************************************************************************)
(* TicketsFindListeners: who holds a ticket has one entry under its number, *)
(* a destroyed ticket leaves no valid one, and nobody waits for a fire that *)
(* is over.  For any nesting of fires, additions and removals inside        *)
(* listeners, and exceptions; if there are enough numbers for the listeners *)
(* that are ever added, and no ticket is destroyed while its listener is    *)
(* pending.                                                                *)
(***************************************************************************)
THEOREM TicketsAndListeners ==
  ASSUME ~DestroysPending, EnoughIds
  PROVE  Spec => []TicketsFindListeners
<1>1. TicketsInv => TicketsFindListeners
  BY TicketsGiveListeners
<1> QED BY <1>1, TicketsInvariant, PTL

(***************************************************************************)
(* RemovedIsSilent: fire calls nobody whose ticket is destroyed, however    *)
(* recently and wherever that happened.                                    *)
(***************************************************************************)
THEOREM SilentOnceRemoved ==
  ASSUME ~DestroysPending, EnoughIds
  PROVE  Spec => RemovedIsSilent
<1> DEFINE Calls == Len(stack') = Len(stack) /\ ~CallerRuns /\ CallerRuns'
           Alive == ticket[Current.who].state = "alive"
<1>1. ASSUME TicketsInv, [Next]_vars, Calls PROVE Alive
  <2>1. TypeOK /\ Guarded /\ EntriesMatch
    BY <1>1 DEF TicketsInv
  <2>2. stack # <<>> /\ Len(stack) \in Nat /\ Len(stack) # 0
    BY <1>1, <2>1, StackFacts DEF CallerRuns
  <2>3. CASE CallListener
    <3>1. Top \in Frames /\ Top.at \in 1 .. Len(listeners[Top.event]) /\ Current.valid
      BY <2>1, <2>3, CallEffect
    <3>2. Top.event \in Events /\ Top.at \in DOMAIN listeners[Top.event]
      BY <2>1, <3>1, FrameFacts, ListFacts
    <3>3. Matches(ticket, Top.event, Current)
      BY <2>1, <3>2 DEF EntriesMatch, Current
    <3> QED BY <3>1, <3>3 DEF Matches
  <2>4. CASE SkipListener
    <3>1. PICK g \in Frames : Stepped(g) /\ g.calling = FALSE
      BY <2>1, <2>4, SkipEffect
    <3>2. stack' # <<>> /\ Top' = g
      BY <2>2, <3>1 DEF Stepped, Top
    <3> QED BY <1>1, <3>1, <3>2 DEF CallerRuns
  <2>5. CASE ListenerReturns \/ ListenerThrows
    BY <1>1, <2>5 DEF ListenerReturns, ListenerThrows, CallerRuns
  <2>6. CASE FireReturns
    BY <1>1, <2>1, <2>2, <2>6, EndEffect DEF Left
  <2>7. CASE \E e \in Events : Fire(e)
    BY <1>1, <2>7 DEF Fire
  <2>8. CASE \E l \in Listeners : AddListener(l) \/ DestroyTicket(l)
    BY <1>1, <2>8 DEF AddListener, DestroyTicket
  <2>9. CASE UNCHANGED vars
    BY <1>1, <2>9 DEF vars, CallerRuns, Top
  <2> QED BY <1>1, <2>3, <2>4, <2>5, <2>6, <2>7, <2>8, <2>9 DEF Next
<1>2. TicketsInv /\ [Next]_vars => [Calls => Alive]_vars
  BY <1>1
<1>3. Spec => []TicketsInv
  BY TicketsInvariant
<1>4. RemovedIsSilent <=> [][Calls => Alive]_vars
  BY DEF RemovedIsSilent
<1> QED BY <1>2, <1>3, <1>4, PTL DEF Spec

-----------------------------------------------------------------------------
(* Who hears an event. *)

\* A call of fire does not notice that an entry is disabled.
LEMMA FrameKept ==
  ASSUME NEW f, NEW s, NEW t, FrameInv(f, s), Lowered(s, t)
  PROVE  FrameInv(f, t)
<1>1. /\ DOMAIN t = DOMAIN s
      /\ \A p \in DOMAIN s : t[p].who = s[p].who /\ (t[p].valid => s[p].valid)
  BY DEF Lowered
<1>2. AudienceInOrder(f, t)
  BY <1>1 DEF FrameInv, AudienceInOrder, Listed
<1>3. HeardInOrder(f, t)
  BY <1>1 DEF FrameInv, HeardInOrder
<1>4. PassedIsHeard(f, t)
  BY <1>1 DEF FrameInv, PassedIsHeard
<1> QED BY <1>2, <1>3, <1>4 DEF FrameInv

LEMMA FrameBegins ==
  ASSUME NEW s \in Seq(ListenerEntries),
         \A p, q \in DOMAIN s : s[p].who = s[q].who => p = q,
         NEW f, f.at = 1, f.calling = FALSE, f.audience = Names(Valid(s)), f.heard = <<>>
  PROVE  FrameInv(f, s)
<1> DEFINE v == Valid(s)
<1>1. v \in Seq(ListenerEntries) /\ DOMAIN s = 1 .. Len(s)
  BY ValidPositions
<1>2. PICK pos : Positions(s, v, pos)
  BY ValidPositions
<1> HIDE DEF v
<1>3. /\ DOMAIN f.audience = DOMAIN v
      /\ \A k \in DOMAIN v : /\ pos[k] \in DOMAIN s
                             /\ f.audience[k] = s[pos[k]].who
      /\ \A j, k \in DOMAIN v : j < k => pos[j] < pos[k]
      /\ \A i \in DOMAIN s : s[i].valid => \E k \in DOMAIN v : pos[k] = i
  BY <1>1, <1>2, NamesType DEF Positions, v
<1>4. AudienceInOrder(f, s)
  <2>1. \A k \in DOMAIN f.audience : Listed(f.audience[k], s)
    BY <1>3 DEF Listed
  <2>2. \A j, k \in DOMAIN f.audience : \A p, q \in DOMAIN s :
          j < k /\ s[p].who = f.audience[j] /\ s[q].who = f.audience[k] => p < q
    <3> SUFFICES ASSUME NEW j \in DOMAIN f.audience, NEW k \in DOMAIN f.audience,
                        NEW p \in DOMAIN s, NEW q \in DOMAIN s,
                        j < k, s[p].who = f.audience[j], s[q].who = f.audience[k]
                 PROVE  p < q
      OBVIOUS
    <3>1. p = pos[j] /\ q = pos[k]
      BY <1>3
    <3> QED BY <1>3, <3>1
  <2>3. \A p \in DOMAIN s : s[p].valid => s[p].who \in ToSet(f.audience)
    <3> SUFFICES ASSUME NEW p \in DOMAIN s, s[p].valid
                 PROVE  s[p].who \in ToSet(f.audience)
      OBVIOUS
    <3>1. PICK k \in DOMAIN v : pos[k] = p
      BY <1>3
    <3> QED BY <1>3, <3>1 DEF ToSet
  <2> QED BY <2>1, <2>2, <2>3 DEF AudienceInOrder
<1>5. HeardInOrder(f, s)
  <2>1. DOMAIN f.heard = {} /\ ToSet(f.heard) = {}
    BY DEF ToSet
  <2> QED BY <2>1 DEF HeardInOrder
<1>6. PassedIsHeard(f, s)
  <2>1. \A p \in DOMAIN s : ~Passed(f, p)
    BY <1>1 DEF Passed
  <2> QED BY <2>1 DEF PassedIsHeard
<1> QED BY <1>4, <1>5, <1>6 DEF FrameInv

LEMMA FrameHears ==
  ASSUME NEW s \in Seq(ListenerEntries),
         \A p, q \in DOMAIN s : s[p].who = s[q].who => p = q,
         NEW f \in Frames, NEW g, FrameInv(f, s),
         f.at \in DOMAIN s, s[f.at].valid, f.calling = FALSE,
         g.at = f.at, g.calling = TRUE, g.audience = f.audience,
         g.heard = Append(f.heard, s[f.at].who)
  PROVE  FrameInv(g, s)
<1> DEFINE w == s[f.at].who
           h == f.heard
           n == Len(h)
<1>1. /\ DOMAIN s = 1 .. Len(s) /\ Len(s) \in Nat
      /\ \A p \in DOMAIN s : s[p].who \in Listeners
  <2>1. DOMAIN s = 1 .. Len(s) /\ Len(s) \in Nat /\ \A p \in 1 .. Len(s) : s[p] \in ListenerEntries
    OBVIOUS
  <2> QED BY <2>1 DEF ListenerEntries
<1>2. /\ h \in Seq(Listeners) /\ n \in Nat /\ DOMAIN h = 1 .. n /\ w \in Listeners
  BY <1>1, FrameFacts
<1>3. /\ DOMAIN g.heard = 1 .. n + 1 /\ g.heard[n + 1] = w
      /\ \A j \in 1 .. n : g.heard[j] = h[j]
  BY <1>2
<1>4. AudienceInOrder(g, s)
  BY DEF FrameInv, AudienceInOrder
<1> HIDE DEF h, n, w
<1>5. /\ \A p \in DOMAIN s : Passed(f, p) => p < f.at
      /\ \A p \in DOMAIN s : Passed(f, p) => Passed(g, p)
      /\ Passed(g, f.at)
      /\ \A p \in DOMAIN s : Passed(g, p) => Passed(f, p) \/ p = f.at
  BY DEF Passed
<1>6. /\ \A k \in DOMAIN h : h[k] \in ToSet(f.audience)
      /\ w \in ToSet(f.audience)
  BY DEF FrameInv, HeardInOrder, AudienceInOrder, ToSet, h, w
<1>7. \A k \in 1 .. n + 1 : k \in 1 .. n \/ k = n + 1
  BY <1>2
<1>8. /\ \A k \in DOMAIN h : \E p \in DOMAIN s : s[p].who = h[k] /\ Passed(f, p)
      /\ \A j, k \in DOMAIN h : \A p, q \in DOMAIN s :
           j < k /\ s[p].who = h[j] /\ s[q].who = h[k] => p < q
  BY DEF FrameInv, HeardInOrder, h
<1>9. HeardInOrder(g, s)
  <2>1. ToSet(g.heard) \subseteq ToSet(g.audience)
    <3> SUFFICES ASSUME NEW k \in DOMAIN g.heard PROVE g.heard[k] \in ToSet(g.audience)
      BY DEF ToSet
    <3> QED BY <1>2, <1>3, <1>6, <1>7
  <2>2. \A k \in DOMAIN g.heard : \E p \in DOMAIN s : s[p].who = g.heard[k] /\ Passed(g, p)
    <3> TAKE k \in DOMAIN g.heard
    <3>1. CASE k = n + 1
      BY <1>3, <1>5, <3>1 DEF w
    <3>2. CASE k \in 1 .. n
      <4>1. k \in DOMAIN h /\ g.heard[k] = h[k]
        BY <1>2, <1>3, <3>2
      <4> QED BY <1>5, <1>8, <4>1
    <3> QED BY <1>3, <1>7, <3>1, <3>2
  <2>3. \A j, k \in DOMAIN g.heard : \A p, q \in DOMAIN s :
          j < k /\ s[p].who = g.heard[j] /\ s[q].who = g.heard[k] => p < q
    <3> SUFFICES ASSUME NEW j \in DOMAIN g.heard, NEW k \in DOMAIN g.heard,
                        NEW p \in DOMAIN s, NEW q \in DOMAIN s,
                        j < k, s[p].who = g.heard[j], s[q].who = g.heard[k]
                 PROVE  p < q
      OBVIOUS
    <3>1. j \in 1 .. n /\ g.heard[j] = h[j]
      BY <1>2, <1>3
    <3>2. CASE k \in 1 .. n
      <4>1. k \in DOMAIN h /\ g.heard[k] = h[k] /\ j \in DOMAIN h
        BY <1>2, <1>3, <3>1, <3>2
      <4> QED BY <1>8, <3>1, <4>1
    <3>3. CASE k = n + 1
      <4>1. q = f.at
        BY <1>3, <3>3 DEF w
      <4>2. PICK r \in DOMAIN s : s[r].who = h[j] /\ Passed(f, r)
        BY <1>2, <1>8, <3>1
      <4>3. p = r
        BY <3>1, <4>2
      <4> QED BY <1>5, <4>1, <4>2, <4>3
    <3> QED BY <1>3, <1>7, <3>2, <3>3
  <2> QED BY <2>1, <2>2, <2>3 DEF HeardInOrder
<1>10. PassedIsHeard(g, s)
  <2>1. \A l \in ToSet(h) : l \in ToSet(g.heard)
    <3>1. \A k \in 1 .. n : k \in DOMAIN g.heard /\ g.heard[k] = h[k]
      BY <1>2, <1>3
    <3> QED BY <1>2, <3>1 DEF ToSet
  <2>2. w \in ToSet(g.heard)
    <3>1. n + 1 \in DOMAIN g.heard
      BY <1>2, <1>3
    <3> QED BY <1>3, <3>1 DEF ToSet
  <2> SUFFICES ASSUME NEW p \in DOMAIN s, Passed(g, p), s[p].who \in ToSet(g.audience)
               PROVE  s[p].who \in ToSet(g.heard) \/ ~s[p].valid
    BY DEF PassedIsHeard
  <2>3. CASE p = f.at
    BY <2>2, <2>3 DEF w
  <2>4. CASE Passed(f, p)
    BY <2>1, <2>4 DEF FrameInv, PassedIsHeard, h
  <2> QED BY <1>5, <2>3, <2>4
<1> QED BY <1>4, <1>9, <1>10 DEF FrameInv

\* To the next position, from a disabled entry or from a listener that returns.
LEMMA FrameProceeds ==
  ASSUME NEW s \in Seq(ListenerEntries), NEW f \in Frames, NEW g, FrameInv(f, s),
         f.calling \/ (f.at \in DOMAIN s /\ ~s[f.at].valid),
         g.at = f.at + 1, g.calling = FALSE, g.audience = f.audience, g.heard = f.heard
  PROVE  FrameInv(g, s)
<1>1. f.at \in Nat /\ DOMAIN s = 1 .. Len(s) /\ f.calling \in BOOLEAN
  BY FrameFacts
<1>2. \A p \in DOMAIN s : /\ Passed(f, p) => Passed(g, p)
                          /\ Passed(g, p) => Passed(f, p) \/ (p = f.at /\ ~s[p].valid)
  BY <1>1 DEF Passed
<1>3. AudienceInOrder(g, s)
  BY DEF FrameInv, AudienceInOrder
<1>4. HeardInOrder(g, s)
  BY <1>2 DEF FrameInv, HeardInOrder
<1>5. PassedIsHeard(g, s)
  BY <1>2 DEF FrameInv, PassedIsHeard
<1> QED BY <1>3, <1>4, <1>5 DEF FrameInv

LEMMA FiresStep ==
  ASSUME TicketsInv, FiresKnow, [Next]_vars
  PROVE  FiresKnow'
<1>1. TypeOK /\ Guarded /\ TypeOK'
  BY TypeStep DEF TicketsInv
<1>2. /\ DOMAIN stack = 1 .. Len(stack) /\ Len(stack) \in Nat
      /\ DOMAIN stack' = 1 .. Len(stack') /\ Len(stack') \in Nat
  BY <1>1 DEF TypeOK
<1>3. \A e \in Events : /\ listeners[e] \in Seq(ListenerEntries)
                        /\ \A p, q \in DOMAIN listeners[e] :
                             listeners[e][p].who = listeners[e][q].who => p = q
  BY <1>1, ListFacts DEF TicketsInv, EntriesApart
\* The calls of fire that a step does not touch know what they knew.
<1>4. ASSUME NEW i \in DOMAIN stack \cap DOMAIN stack', stack'[i] = stack[i]
      PROVE  FrameInv(stack'[i], listeners'[stack'[i].event])
  <2>1. FrameInv(stack[i], listeners[stack[i].event])
    BY DEF FiresKnow
  <2>2. Lowered(listeners[stack[i].event], listeners'[stack[i].event])
    BY <1>1, StableLists
  <2> QED BY <1>4, <2>1, <2>2, FrameKept
<1>5. ASSUME NEW m \in Nat, Len(stack') = m + 1, m <= Len(stack),
             \A i \in 1 .. m : stack'[i] = stack[i],
             FrameInv(stack'[m + 1], listeners'[stack'[m + 1].event])
      PROVE  FiresKnow'
  <2>1. \A i \in 1 .. m : FrameInv(stack'[i], listeners'[stack'[i].event])
    <3> TAKE i \in 1 .. m
    <3>1. i \in DOMAIN stack \cap DOMAIN stack' /\ stack'[i] = stack[i]
      BY <1>2, <1>5
    <3> QED BY <1>4, <3>1
  <2>2. \A i \in DOMAIN stack' : i \in 1 .. m \/ i = m + 1
    BY <1>2, <1>5
  <2>3. \A i \in DOMAIN stack' : FrameInv(stack'[i], listeners'[stack'[i].event])
    BY <1>5, <2>1, <2>2
  <2> QED BY <2>3 DEF FiresKnow
<1>6. ASSUME Len(stack') <= Len(stack), \A i \in 1 .. Len(stack') : stack'[i] = stack[i]
      PROVE  FiresKnow'
  <2>1. \A i \in DOMAIN stack' : i \in DOMAIN stack \cap DOMAIN stack' /\ stack'[i] = stack[i]
    BY <1>2, <1>6
  <2> QED BY <1>4, <2>1 DEF FiresKnow
<1>7. ASSUME NEW e \in Events, Fire(e) PROVE FiresKnow'
  <2> DEFINE f == [event |-> e, at |-> 1, previous |-> sentry[e], calling |-> FALSE,
                   audience |-> Names(Valid(listeners[e])), heard |-> <<>>]
  <2>1. Pushed(f) /\ UNCHANGED listeners
    BY <1>1, <1>7, FireEffect
  <2>2. FrameInv(f, listeners[e])
    <3>1. /\ f.at = 1 /\ f.calling = FALSE /\ f.audience = Names(Valid(listeners[e]))
          /\ f.heard = <<>>
      OBVIOUS
    <3> HIDE DEF f
    <3> QED BY <1>3, <3>1, FrameBegins
  <2>3. f.event = e
    OBVIOUS
  <2> HIDE DEF f
  <2> QED BY <1>2, <1>5, <2>1, <2>2, <2>3 DEF Pushed
<1>8. ASSUME NEW g \in Frames, Stepped(g), g.event = Top.event, OnlyTheStack,
             FrameInv(g, listeners[Top.event])
      PROVE  FiresKnow'
  <2> DEFINE m == Len(stack) - 1
  <2>1. /\ m \in Nat /\ Len(stack') = m + 1 /\ m <= Len(stack)
        /\ \A i \in 1 .. m : stack'[i] = stack[i]
        /\ stack'[m + 1] = g
    BY <1>2, <1>8 DEF Stepped
  <2>2. listeners' = listeners
    BY <1>8 DEF OnlyTheStack
  <2> HIDE DEF m
  <2> QED BY <1>5, <1>8, <2>1, <2>2
<1>9. stack # <<>> =>
        /\ FrameInv(Top, listeners[Top.event])
        /\ Top \in Frames /\ Top.event \in Events /\ Top.calling \in BOOLEAN
        /\ DOMAIN listeners[Top.event] = 1 .. Len(listeners[Top.event])
  <2> SUFFICES ASSUME stack # <<>>
               PROVE  /\ FrameInv(Top, listeners[Top.event])
                      /\ Top \in Frames /\ Top.event \in Events /\ Top.calling \in BOOLEAN
                      /\ DOMAIN listeners[Top.event] = 1 .. Len(listeners[Top.event])
    OBVIOUS
  <2>1. Len(stack) \in DOMAIN stack /\ Top = stack[Len(stack)] /\ Top \in Frames
    BY <1>1, <1>2, StackFacts
  <2>2. Top.event \in Events /\ Top.calling \in BOOLEAN
    BY <2>1, FrameFacts
  <2> QED BY <1>1, <2>1, <2>2, ListFacts DEF FiresKnow
<1>10. CASE CallListener
  <2>1. /\ stack # <<>> /\ Top.calling = FALSE /\ Top.at \in DOMAIN listeners[Top.event]
        /\ listeners[Top.event][Top.at].valid /\ OnlyTheStack
    BY <1>1, <1>9, <1>10, CallEffect DEF Current
  <2>2. PICK g \in Frames :
          /\ Stepped(g) /\ g.event = Top.event /\ g.audience = Top.audience
          /\ g.at = Top.at /\ g.calling = TRUE
          /\ g.heard = Append(Top.heard, listeners[Top.event][Top.at].who)
    BY <1>1, <1>10, CallEffect DEF Current
  <2>3. FrameInv(g, listeners[Top.event])
    BY <1>3, <1>9, <2>1, <2>2, FrameHears
  <2> QED BY <1>8, <2>1, <2>2, <2>3
<1>11. CASE SkipListener
  <2>1. /\ stack # <<>> /\ Top.at \in DOMAIN listeners[Top.event]
        /\ ~listeners[Top.event][Top.at].valid /\ OnlyTheStack
    BY <1>1, <1>9, <1>11, SkipEffect DEF Current
  <2>2. PICK g \in Frames :
          /\ Stepped(g) /\ g.event = Top.event /\ g.audience = Top.audience
          /\ g.at = Top.at + 1 /\ g.calling = FALSE /\ g.heard = Top.heard
    BY <1>1, <1>11, SkipEffect
  <2>3. FrameInv(g, listeners[Top.event])
    BY <1>3, <1>9, <2>1, <2>2, FrameProceeds
  <2> QED BY <1>8, <2>1, <2>2, <2>3
<1>12. CASE ListenerReturns
  <2>1. stack # <<>> /\ Top.calling /\ OnlyTheStack
    BY <1>1, <1>12, ReturnEffect
  <2>2. PICK g \in Frames :
          /\ Stepped(g) /\ g.event = Top.event /\ g.audience = Top.audience
          /\ g.at = Top.at + 1 /\ g.calling = FALSE /\ g.heard = Top.heard
    BY <1>1, <1>12, ReturnEffect
  <2>3. FrameInv(g, listeners[Top.event])
    BY <1>3, <1>9, <2>1, <2>2, FrameProceeds
  <2> QED BY <1>8, <2>1, <2>2, <2>3
<1>13. CASE ListenerThrows \/ FireReturns
  <2>1. Left
    BY <1>1, <1>13, ThrowEffect, EndEffect
  <2> QED BY <1>2, <1>6, <2>1 DEF Left
<1>14. ASSUME UNCHANGED stack PROVE FiresKnow'
  BY <1>2, <1>6, <1>14
<1>15. CASE \E l \in Listeners : AddListener(l) \/ DestroyTicket(l)
  BY <1>14, <1>15 DEF AddListener, DestroyTicket
<1>16. CASE UNCHANGED vars
  BY <1>14, <1>16 DEF vars
<1> QED BY <1>7, <1>10, <1>11, <1>12, <1>13, <1>15, <1>16 DEF Next

LEMMA RouterInvariant ==
  ASSUME ~DestroysPending, EnoughIds
  PROVE  Spec => []IInv
<1>1. IInv <=> TicketsInv /\ FiresKnow
  BY DEF IInv, TicketsInv
<1>2. TicketsInv /\ FiresKnow /\ [Next]_vars => FiresKnow'
  BY FiresStep
<1>3. Init => FiresKnow
  <2> SUFFICES ASSUME Init PROVE FiresKnow
    OBVIOUS
  <2>1. DOMAIN stack = {}
    BY DEF Init
  <2> QED BY <2>1 DEF FiresKnow
<1>4. Spec => []TicketsInv
  BY TicketsInvariant
<1> QED BY <1>1, <1>2, <1>3, <1>4, PTL DEF Spec

(***************************************************************************)
(* HeardByAudience: fire calls only listeners that were registered when it *)
(* began, in the order of their registration and once each, and when it    *)
(* ends it has called each of them that has kept its ticket.               *)
(***************************************************************************)
THEOREM HeardInOrderByAll ==
  ASSUME ~DestroysPending, EnoughIds
  PROVE  Spec => []HeardByAudience
<1>1. ASSUME IInv PROVE HeardByAudience
  <2> SUFFICES ASSUME NEW i \in DOMAIN stack
               PROVE  LET f == stack[i] IN
        /\ ToSet(f.heard) \subseteq ToSet(f.audience)
        /\ \A j, k \in DOMAIN f.heard : \A p, q \in DOMAIN f.audience :
             j < k /\ f.heard[j] = f.audience[p] /\ f.heard[k] = f.audience[q] => p < q
        /\ i = Len(stack) /\ ~f.calling /\ AtEnd =>
             \A l \in ToSet(f.audience) \ ToSet(f.heard) : ticket[l].state = "destroyed"
    BY DEF HeardByAudience
  <2> DEFINE f == stack[i]
             s == listeners[f.event]
  <2>1. /\ TypeOK /\ EntriesMatch /\ FrameInv(f, s)
    BY <1>1 DEF IInv, FiresKnow
  <2>2. /\ f \in Frames /\ f.event \in Events /\ f.at \in Nat
        /\ DOMAIN f.audience = 1 .. Len(f.audience) /\ DOMAIN f.heard = 1 .. Len(f.heard)
        /\ DOMAIN s = 1 .. Len(s) /\ Len(s) \in Nat
    BY <2>1, StackFacts, FrameFacts, ListFacts
  <2>3. /\ AudienceInOrder(f, s) /\ HeardInOrder(f, s) /\ PassedIsHeard(f, s)
    BY <2>1 DEF FrameInv
  <2>4. ASSUME i = Len(stack), ~f.calling, AtEnd, NEW l \in ToSet(f.audience) \ ToSet(f.heard)
        PROVE  ticket[l].state = "destroyed"
    <3>1. f.at > Len(s)
      BY <2>4 DEF AtEnd, Top
    <3>2. PICK p \in DOMAIN s : s[p].who = l
      BY <2>3 DEF AudienceInOrder, Listed, ToSet
    <3>3. Passed(f, p)
      BY <2>2, <3>1 DEF Passed
    <3>4. ~s[p].valid
      BY <2>3, <2>4, <3>2, <3>3 DEF PassedIsHeard
    <3>5. Matches(ticket, f.event, s[p])
      BY <2>1, <2>2 DEF EntriesMatch
    <3> QED BY <3>2, <3>4, <3>5 DEF Matches
  <2> HIDE DEF f, s
  <2>5. ToSet(f.heard) \subseteq ToSet(f.audience)
    BY <2>3 DEF HeardInOrder
  <2>6. ASSUME NEW j \in DOMAIN f.heard, NEW k \in DOMAIN f.heard, NEW p \in DOMAIN f.audience,
               NEW q \in DOMAIN f.audience,
               j < k, f.heard[j] = f.audience[p], f.heard[k] = f.audience[q]
        PROVE  p < q
    <3>1. PICK x \in DOMAIN s : s[x].who = f.heard[j]
      BY <2>3 DEF HeardInOrder
    <3>2. PICK y \in DOMAIN s : s[y].who = f.heard[k]
      BY <2>3 DEF HeardInOrder
    <3>3. x < y /\ ~(x < x)
      <4>1. x < y
        BY <2>3, <2>6, <3>1, <3>2 DEF HeardInOrder
      <4> QED BY <2>2, <4>1
    <3>4. p # q
      <4>1. p = q => s[x].who = f.heard[k]
        BY <2>6, <3>1
      <4> QED BY <2>3, <2>6, <3>1, <3>3, <4>1 DEF HeardInOrder
    <3>5. ~(q < p)
      <4>1. q < p => y < x
        BY <2>3, <2>6, <3>1, <3>2 DEF AudienceInOrder
      <4> QED BY <2>2, <3>3, <4>1
    <3>6. p \in Int /\ q \in Int
      BY <2>2
    <3> QED BY <3>4, <3>5, <3>6
  <2> QED BY <2>4, <2>5, <2>6 DEF f
<1>2. Spec => []IInv
  BY RouterInvariant
<1> QED BY <1>1, <1>2, PTL

-----------------------------------------------------------------------------
(* The mediator. *)

USE MediatorAssumption

LEMMA DispatcherFacts ==
  ASSUME MediatorTypeOK
  PROVE  /\ TypeOK
         /\ sent \in Seq(Events) /\ Len(sent) \in Nat /\ DOMAIN sent = 1 .. Len(sent)
         /\ work \in Seq(Sends) /\ Len(work) \in Nat /\ DOMAIN work = 1 .. Len(work)
         /\ workload \in Seq(Sends) /\ Len(workload) \in Nat
         /\ DOMAIN workload = 1 .. Len(workload)
         /\ fired \in Seq(Sends \cup {0}) /\ Len(fired) \in Nat
         /\ DOMAIN fired = 1 .. Len(fired)
         /\ \A k \in DOMAIN work : work[k] \in Nat \ {0}
         /\ \A k \in DOMAIN workload : workload[k] \in Nat \ {0} /\ workload[k] \in Sends
         /\ \A k \in DOMAIN fired : fired[k] \in Nat
         /\ at \in Nat
<1>1. \A n \in Sends : n \in Nat \ {0}
  BY DEF Sends
<1>2. /\ sent \in Seq(Events) /\ work \in Seq(Sends) /\ workload \in Seq(Sends)
      /\ fired \in Seq(Sends \cup {0}) /\ at \in Nat /\ TypeOK
  BY DEF MediatorTypeOK
<1>3. \A k \in DOMAIN work : work[k] \in Sends
  BY <1>2
<1>4. \A k \in DOMAIN workload : workload[k] \in Sends
  BY <1>2
<1>5. \A k \in DOMAIN fired : fired[k] \in Sends \cup {0}
  BY <1>2
<1> QED BY <1>1, <1>2, <1>3, <1>4, <1>5

\* What the loop of the tick is about to fire was sent.
LEMMA WorkIsSent ==
  ASSUME MediatorTypeOK, NumbersRise, NEW k \in DOMAIN workload
  PROVE  workload[k] \in DOMAIN sent /\ sent[workload[k]] \in Events
<1>1. workload[k] \in DOMAIN sent
  BY DispatcherFacts DEF NumbersRise
<1>2. sent \in Seq(Events)
  BY DEF MediatorTypeOK
<1> QED BY <1>1, <1>2

LEMMA MediatorStepsRouter ==
  ASSUME MediatorTypeOK, NumbersRise, [MediatorNext]_mediatorVars
  PROVE  [Next]_vars
<1>1. CASE UNCHANGED mediatorVars
  BY <1>1 DEF mediatorVars
<1>2. CASE \E e \in Events : Send(e)
  BY <1>2 DEF Send
<1>3. CASE Clear \/ CancelToken \/ Tick \/ FinishTick
  BY <1>3 DEF Clear, CancelToken, Tick, FinishTick
<1>4. CASE IdleTick
  BY <1>4 DEF IdleTick, mediatorVars
<1>5. CASE RunWork
  BY <1>5, WorkIsSent DEF RunWork, Next
<1>6. CASE WorkReturns \/ WorkThrows
  BY <1>6 DEF WorkReturns, WorkThrows, Next
<1>7. CASE \E l \in Listeners : Registration(l)
  BY <1>7 DEF Registration, Next
<1>8. CASE InsideFire \/ DirectFire
  BY <1>8 DEF InsideFire, DirectFire, Next
<1> QED BY <1>1, <1>2, <1>3, <1>4, <1>5, <1>6, <1>7, <1>8 DEF MediatorNext

LEMMA MediatorTypeStep ==
  ASSUME MediatorTypeOK, NumbersRise, [MediatorNext]_mediatorVars
  PROVE  MediatorTypeOK'
<1>1. TypeOK'
  BY MediatorStepsRouter, TypeStep DEF MediatorTypeOK
<1>2. /\ wiring \in {"direct", "mediated"}
      /\ sent \in Seq(Events) /\ Len(sent) <= MaxSends /\ Len(sent) \in Nat
      /\ work \in Seq(Sends) /\ workload \in Seq(Sends) /\ at \in Nat /\ token \in BOOLEAN
      /\ fired \in Seq(Sends \cup {0}) /\ dropped \subseteq Sends
      /\ <<>> \in Seq(Sends)
  BY DEF MediatorTypeOK
<1> SUFFICES /\ wiring' \in {"direct", "mediated"}
             /\ sent' \in Seq(Events) /\ Len(sent') <= MaxSends
             /\ work' \in Seq(Sends) /\ workload' \in Seq(Sends) /\ at' \in Nat
             /\ token' \in BOOLEAN
             /\ fired' \in Seq(Sends \cup {0}) /\ dropped' \subseteq Sends
  BY <1>1 DEF MediatorTypeOK
<1>3. ASSUME UNCHANGED <<wiring, dispatcherVars>>
      PROVE  /\ wiring' \in {"direct", "mediated"}
             /\ sent' \in Seq(Events) /\ Len(sent') <= MaxSends
             /\ work' \in Seq(Sends) /\ workload' \in Seq(Sends) /\ at' \in Nat
             /\ token' \in BOOLEAN
             /\ fired' \in Seq(Sends \cup {0}) /\ dropped' \subseteq Sends
  BY <1>2, <1>3 DEF dispatcherVars
<1>4. CASE UNCHANGED mediatorVars \/ IdleTick
  BY <1>3, <1>4 DEF IdleTick, mediatorVars
<1>5. CASE \E e \in Events : Send(e)
  <2>1. PICK e \in Events : /\ Len(sent) < MaxSends
                            /\ sent' = Append(sent, e) /\ work' = Append(work, Len(sent) + 1)
                            /\ UNCHANGED <<wiring, workload, at, token, fired, dropped>>
    BY <1>5 DEF Send
  <2>2. Len(sent) + 1 \in Sends
    BY <1>2, <2>1 DEF Sends
  <2>3. /\ sent' \in Seq(Events) /\ Len(sent') = Len(sent) + 1
        /\ work' \in Seq(Sends)
    BY <1>2, <2>1, <2>2, AppendProperties
  <2> QED BY <1>2, <2>1, <2>3
<1>6. CASE Clear
  <2>1. ToSet(work) \subseteq Sends
    BY <1>2 DEF ToSet
  <2> QED BY <1>2, <1>6, <2>1 DEF Clear
<1>7. CASE CancelToken
  BY <1>2, <1>7 DEF CancelToken
<1>8. CASE Tick
  BY <1>2, <1>8, ConcatProperties DEF Tick
<1>9. CASE RunWork
  <2>1. workload[at] \in Sends /\ fired' = Append(fired, workload[at])
    BY <1>2, <1>9 DEF RunWork
  <2>2. fired' \in Seq(Sends \cup {0})
    BY <1>2, <2>1, AppendProperties
  <2> QED BY <1>2, <1>9, <2>2 DEF RunWork
<1>10. CASE WorkReturns
  BY <1>2, <1>10 DEF WorkReturns
<1>11. CASE WorkThrows
  <2>1. Append(fired, 0) \in Seq(Sends \cup {0})
    BY <1>2, AppendProperties
  <2> QED BY <1>2, <1>11, <2>1 DEF WorkThrows
<1>12. CASE FinishTick
  BY <1>2, <1>12 DEF FinishTick
<1>13. CASE (\E l \in Listeners : Registration(l)) \/ InsideFire \/ DirectFire
  BY <1>3, <1>13 DEF Registration, InsideFire, DirectFire
<1> QED
  BY <1>4, <1>5, <1>6, <1>7, <1>8, <1>9, <1>10, <1>11, <1>12, <1>13 DEF MediatorNext

\* Whether the router is inside fire before and after a step.
LEMMA StackAround ==
  ASSUME MediatorTypeOK
  PROVE  /\ \A e \in Events : Fire(e) => Len(stack') = Len(stack) + 1
         /\ FireReturns \/ ListenerThrows => Len(stack') = Len(stack) - 1 /\ Len(stack) # 0
         /\ CallListener \/ SkipListener \/ ListenerReturns =>
              Len(stack') = Len(stack) /\ Len(stack) # 0
         /\ Len(stack) \in Nat /\ (stack = <<>> <=> Len(stack) = 0)
<1>1. TypeOK /\ stack \in Seq(Frames)
  BY DEF MediatorTypeOK, TypeOK
<1>2. Len(stack) \in Nat /\ (stack = <<>> <=> Len(stack) = 0)
  BY <1>1
<1>3. \A e \in Events : Fire(e) => Len(stack') = Len(stack) + 1
  BY <1>1, FireEffect DEF Pushed
<1>4. FireReturns \/ ListenerThrows => Len(stack') = Len(stack) - 1 /\ Len(stack) # 0
  BY <1>1, <1>2, EndEffect, ThrowEffect DEF Left
<1>5. CallListener \/ SkipListener \/ ListenerReturns =>
        Len(stack') = Len(stack) /\ Len(stack) # 0
  BY <1>1, <1>2, CallEffect, SkipEffect, ReturnEffect DEF Stepped
<1> QED BY <1>2, <1>3, <1>4, <1>5

LEMMA TickInTurnStep ==
  ASSUME MediatorTypeOK, NumbersRise, TickInTurn, [MediatorNext]_mediatorVars
  PROVE  TickInTurn'
<1>1. /\ Len(stack) \in Nat /\ (stack = <<>> <=> Len(stack) = 0)
      /\ Len(stack') \in Nat /\ (stack' = <<>> <=> Len(stack') = 0)
      /\ wiring \in {"direct", "mediated"} /\ at \in Nat
      /\ DOMAIN workload = 1 .. Len(workload) /\ Len(workload) \in Nat
  <2>1. MediatorTypeOK'
    BY MediatorTypeStep
  <2>2. stack' \in Seq(Frames)
    BY <2>1 DEF MediatorTypeOK, TypeOK
  <2> QED BY <2>2, StackAround, DispatcherFacts DEF MediatorTypeOK
<1>2. /\ at # 0 => wiring = "mediated"
      /\ wiring = "mediated" => Len(stack) <= 1 /\ (stack # <<>> => at \in DOMAIN workload)
  BY DEF TickInTurn
<1> SUFFICES /\ at' # 0 => wiring' = "mediated"
             /\ wiring' = "mediated" =>
                  Len(stack') <= 1 /\ (stack' # <<>> => at' \in DOMAIN workload')
  BY DEF TickInTurn
<1>3. CASE \/ UNCHANGED mediatorVars \/ IdleTick \/ \E e \in Events : Send(e)
           \/ Clear \/ CancelToken
  BY <1>2, <1>3 DEF IdleTick, mediatorVars, vars, dispatcherVars, Send, Clear, CancelToken
<1>4. CASE Tick
  BY <1>2, <1>4 DEF Tick, vars
<1>5. CASE FinishTick
  <2>1. at # 0 /\ at \notin DOMAIN workload
    BY <1>1, <1>5 DEF FinishTick
  <2> QED BY <1>2, <1>5, <2>1 DEF FinishTick, vars
<1>6. CASE RunWork
  <2>1. at \in DOMAIN workload /\ stack = <<>> /\ Len(stack') = Len(stack) + 1
        /\ at # 0
    BY <1>1, <1>6, WorkIsSent, StackAround DEF RunWork
  <2> QED BY <1>1, <1>2, <1>6, <2>1 DEF RunWork
<1>7. CASE WorkReturns \/ WorkThrows
  <2>1. at # 0 /\ UNCHANGED wiring /\ Len(stack') = Len(stack) - 1
    BY <1>7, StackAround DEF WorkReturns, WorkThrows
  <2>2. wiring = "mediated" /\ stack' = <<>> /\ Len(stack') <= 1
    BY <1>1, <1>2, <2>1
  <2> QED BY <2>1, <2>2
<1>8. CASE \E l \in Listeners : Registration(l)
  BY <1>2, <1>8 DEF Registration, AddListener, DestroyTicket, dispatcherVars
<1>9. CASE InsideFire
  BY <1>1, <1>2, <1>9, StackAround DEF InsideFire, dispatcherVars
<1>10. CASE DirectFire
  BY <1>2, <1>10 DEF DirectFire, dispatcherVars
<1> QED
  BY <1>3, <1>4, <1>5, <1>6, <1>7, <1>8, <1>9, <1>10 DEF MediatorNext

\* The order of the sends, step by step.
Ordered == NumbersRise /\ RestComesLater /\ SendsInOrder

\* Every number is still accounted for when no place loses one.
LEMMA NothingVanishes ==
  ASSUME SendsInOrder, UNCHANGED sent,
         ToSet(work) \subseteq ToSet(work') \cup ToSet(workload') \cup dropped',
         ToSet(workload) \subseteq ToSet(workload') \cup ToSet(fired'),
         ToSet(fired) \subseteq ToSet(fired'), dropped \subseteq dropped', FiredInOrder'
  PROVE  SendsInOrder'
BY DEF SendsInOrder

LEMMA OrderKept ==
  ASSUME MediatorTypeOK, Ordered, UNCHANGED <<sent, workload, at, fired, dropped, work>>,
         at = 0 \/ (stack' = <<>> <=> stack = <<>>)
  PROVE  Ordered'
<1>1. \A k \in DOMAIN workload : Rest(k)' <=> Rest(k)
  BY DispatcherFacts DEF Rest
<1>2. \A j \in DOMAIN fired : SinceThrow(fired', j) <=> SinceThrow(fired, j)
  BY DEF SinceThrow
<1>3. RestComesLater'
  BY <1>1, <1>2 DEF Ordered, RestComesLater
<1>4. NumbersRise' /\ SendsInOrder'
  BY DEF Ordered, NumbersRise, SendsInOrder, FiredInOrder
<1> QED BY <1>3, <1>4 DEF Ordered

LEMMA SendOrder ==
  ASSUME MediatorTypeOK, Ordered, NEW e \in Events, Send(e)
  PROVE  Ordered'
<1> DEFINE n == Len(sent) + 1
<1>1. /\ sent' = Append(sent, e) /\ work' = Append(work, n)
      /\ UNCHANGED <<stack, workload, at, fired, dropped>>
  BY DEF Send, vars
<1>2. /\ DOMAIN work' = 1 .. Len(work) + 1 /\ work'[Len(work) + 1] = n
      /\ \A k \in 1 .. Len(work) : work'[k] = work[k]
      /\ DOMAIN work = 1 .. Len(work) /\ Len(work) \in Nat
  BY <1>1, DispatcherFacts
<1>3. /\ Len(sent') = n /\ DOMAIN sent' = 1 .. n /\ DOMAIN sent = 1 .. Len(sent)
      /\ Len(sent) \in Nat
  BY <1>1, DispatcherFacts
<1>4. /\ \A k \in DOMAIN work : work[k] \in Nat /\ work[k] <= Len(sent)
      /\ \A k \in DOMAIN workload : workload[k] \in Nat /\ workload[k] <= Len(sent)
      /\ \A k \in DOMAIN fired : fired[k] \in Nat /\ fired[k] <= Len(sent)
  BY DispatcherFacts DEF Ordered, NumbersRise
<1>5. \A k \in DOMAIN work' : k \in DOMAIN work \/ k = Len(work) + 1
  BY <1>2
<1> HIDE DEF n
<1>6. n \in Nat /\ Len(sent) < n
  BY <1>3 DEF n
<1>7. NumbersRise'
  <2>1. /\ \A k \in DOMAIN work' : work'[k] <= n
        /\ \A k \in DOMAIN workload' : workload'[k] <= n
        /\ \A k \in DOMAIN fired' : fired'[k] <= n
    BY <1>1, <1>2, <1>3, <1>4, <1>5, <1>6
  <2>2. \A j, k \in DOMAIN work' : j < k => work'[j] < work'[k]
    <3> SUFFICES ASSUME NEW j \in DOMAIN work', NEW k \in DOMAIN work', j < k
                 PROVE  work'[j] < work'[k]
      OBVIOUS
    <3>1. j \in DOMAIN work /\ work'[j] = work[j]
      BY <1>2, <1>5
    <3>2. CASE k \in DOMAIN work
      BY <1>2, <3>1, <3>2 DEF Ordered, NumbersRise
    <3>3. CASE k = Len(work) + 1
      BY <1>2, <1>3, <1>4, <1>6, <3>1, <3>3
    <3> QED BY <1>5, <3>2, <3>3
  <2>3. \A j \in DOMAIN workload, k \in DOMAIN work' : workload[j] < work'[k]
    <3> TAKE j \in DOMAIN workload, k \in DOMAIN work'
    <3>1. CASE k \in DOMAIN work
      BY <1>2, <3>1 DEF Ordered, NumbersRise
    <3>2. CASE k = Len(work) + 1
      BY <1>2, <1>3, <1>4, <1>6, <3>2
    <3> QED BY <1>5, <3>1, <3>2
  <2>4. \A j \in DOMAIN fired, k \in DOMAIN work' : fired[j] < work'[k]
    <3> TAKE j \in DOMAIN fired, k \in DOMAIN work'
    <3>1. CASE k \in DOMAIN work
      BY <1>2, <3>1 DEF Ordered, NumbersRise
    <3>2. CASE k = Len(work) + 1
      BY <1>2, <1>3, <1>4, <1>6, <3>2
    <3> QED BY <1>5, <3>1, <3>2
  <2>5. \A j, k \in DOMAIN workload : j < k => workload[j] < workload[k]
    BY DEF Ordered, NumbersRise
  <2> QED BY <1>1, <1>3, <2>1, <2>2, <2>3, <2>4, <2>5 DEF NumbersRise
<1>8. RestComesLater'
  BY <1>1 DEF Ordered, RestComesLater, Rest, SinceThrow
<1>9. SendsInOrder'
  <2>1. FiredInOrder'
    BY <1>1 DEF Ordered, SendsInOrder, FiredInOrder
  <2>2. /\ \A k \in DOMAIN work : work[k] \in ToSet(work')
        /\ n \in ToSet(work')
    BY <1>2, <1>5 DEF ToSet
  <2>3. ASSUME NEW m \in DOMAIN sent'
        PROVE  m \in ToSet(work') \cup ToSet(workload') \cup ToSet(fired') \cup dropped'
    <3>1. CASE m \in DOMAIN sent
      <4>1. m \in ToSet(work) \cup ToSet(workload) \cup ToSet(fired) \cup dropped
        BY <3>1 DEF Ordered, SendsInOrder
      <4>2. m \in ToSet(work) => m \in ToSet(work')
        BY <2>2 DEF ToSet
      <4> QED BY <1>1, <4>1, <4>2
    <3>2. CASE m = n
      BY <2>2, <3>2
    <3> QED BY <1>3, <3>1, <3>2 DEF n
  <2> QED BY <2>1, <2>3 DEF SendsInOrder
<1> QED BY <1>7, <1>8, <1>9 DEF Ordered

LEMMA ClearOrder ==
  ASSUME MediatorTypeOK, Ordered, Clear
  PROVE  Ordered'
<1>1. /\ work' = <<>> /\ dropped' = dropped \cup ToSet(work) /\ DOMAIN work' = {}
      /\ UNCHANGED <<stack, sent, workload, at, fired>>
  BY DEF Clear, vars
<1>2. NumbersRise' /\ RestComesLater'
  BY <1>1 DEF Ordered, NumbersRise, RestComesLater, Rest, SinceThrow
<1>3. FiredInOrder'
  BY <1>1 DEF Ordered, SendsInOrder, FiredInOrder
<1>4. SendsInOrder'
  BY <1>1, <1>3, NothingVanishes DEF Ordered
<1> QED BY <1>2, <1>4 DEF Ordered

LEMMA TickOrder ==
  ASSUME MediatorTypeOK, Ordered, Tick
  PROVE  Ordered'
<1> DEFINE n == Len(workload)
<1>1. /\ workload' = workload \o work /\ work' = <<>> /\ at = 0 /\ at' = 1 /\ stack = <<>>
      /\ UNCHANGED <<stack, sent, fired, dropped>> /\ DOMAIN work' = {}
  BY DEF Tick, vars
<1>2. /\ n \in Nat /\ DOMAIN workload = 1 .. n /\ Len(work) \in Nat /\ DOMAIN work = 1 .. Len(work)
      /\ \A k \in DOMAIN work : work[k] \in Nat
      /\ \A k \in DOMAIN workload : workload[k] \in Nat
      /\ workload \in Seq(Sends) /\ work \in Seq(Sends)
  BY DispatcherFacts
<1>3. /\ Len(workload') = n + Len(work)
      /\ workload' \in Seq(Sends)
      /\ \A k \in 1 .. n + Len(work) :
           workload'[k] = IF k <= n THEN workload[k] ELSE work[k - n]
  BY <1>1, <1>2, ConcatProperties
<1> HIDE DEF n
<1>4. DOMAIN workload' = 1 .. n + Len(work)
  BY <1>3
<1>5. /\ \A k \in DOMAIN workload : k \in DOMAIN workload' /\ workload'[k] = workload[k]
      /\ \A k \in DOMAIN workload' : k \in DOMAIN workload
           \/ (k > n /\ k - n \in DOMAIN work /\ workload'[k] = work[k - n])
  BY <1>2, <1>3, <1>4
<1>6. \A k \in DOMAIN work : n + k \in DOMAIN workload' /\ workload'[n + k] = work[k]
  <2> TAKE k \in DOMAIN work
  <2>1. n + k \in 1 .. n + Len(work) /\ ~(n + k <= n) /\ (n + k) - n = k
    BY <1>2
  <2> QED BY <1>3, <1>4, <2>1
<1>7. /\ \A k \in DOMAIN work : work[k] <= Len(sent)
      /\ \A k \in DOMAIN workload : workload[k] <= Len(sent)
      /\ \A k \in DOMAIN fired : fired[k] <= Len(sent)
      /\ \A j, k \in DOMAIN work : j < k => work[j] < work[k]
      /\ \A j, k \in DOMAIN workload : j < k => workload[j] < workload[k]
      /\ \A j \in DOMAIN workload, k \in DOMAIN work : workload[j] < work[k]
      /\ \A j \in DOMAIN fired, k \in DOMAIN work : fired[j] < work[k]
  BY DEF Ordered, NumbersRise
<1>8. NumbersRise'
  <2>1. \A k \in DOMAIN workload' : workload'[k] <= Len(sent)
    BY <1>5, <1>7
  <2>2. ASSUME NEW j \in DOMAIN workload', NEW k \in DOMAIN workload', j < k
        PROVE  workload'[j] < workload'[k]
    <3>1. CASE j \in DOMAIN workload /\ k \in DOMAIN workload
      BY <1>5, <1>7, <2>2, <3>1
    <3>2. CASE j \in DOMAIN workload /\ k \notin DOMAIN workload
      BY <1>5, <1>7, <3>2
    <3>3. CASE j \notin DOMAIN workload
      <4>1. j > n /\ j \in Int /\ k \in Int /\ k > n
        BY <1>2, <1>4, <1>5, <2>2, <3>3
      <4>2. k \notin DOMAIN workload /\ j - n < k - n
        BY <1>2, <2>2, <4>1
      <4> QED BY <1>5, <1>7, <3>3, <4>2
    <3> QED BY <3>1, <3>2, <3>3
  <2> QED BY <1>1, <1>7, <2>1, <2>2 DEF NumbersRise
<1>9. RestComesLater'
  <2>1. \A k \in DOMAIN workload' : Rest(k)'
    BY <1>1, <1>2, <1>4 DEF Rest
  <2>2. \A k \in DOMAIN workload : Rest(k)
    BY <1>1, <1>2 DEF Rest
  <2>3. \A j \in DOMAIN fired : SinceThrow(fired', j) => SinceThrow(fired, j)
    BY <1>1 DEF SinceThrow
  <2>4. ASSUME NEW j \in DOMAIN fired, NEW k \in DOMAIN workload', SinceThrow(fired, j)
        PROVE  fired[j] < workload'[k]
    <3>1. CASE k \in DOMAIN workload
      BY <1>5, <2>2, <2>4, <3>1 DEF Ordered, RestComesLater
    <3>2. CASE k \notin DOMAIN workload
      BY <1>5, <1>7, <3>2
    <3> QED BY <3>1, <3>2
  <2> QED BY <1>1, <2>1, <2>3, <2>4 DEF RestComesLater
<1>10. SendsInOrder'
  <2>1. ToSet(work) \subseteq ToSet(workload') /\ ToSet(workload) \subseteq ToSet(workload')
    BY <1>5, <1>6 DEF ToSet
  <2>2. FiredInOrder'
    BY <1>1 DEF Ordered, SendsInOrder, FiredInOrder
  <2> QED BY <1>1, <2>1, <2>2, NothingVanishes DEF Ordered
<1> QED BY <1>8, <1>9, <1>10 DEF Ordered

\* One more number is fired, or 0 for an exception.
LEMMA OneMoreFired ==
  ASSUME MediatorTypeOK, NEW x \in Sends \cup {0}, fired' = Append(fired, x)
  PROVE  LET n == Len(fired) IN
         /\ n \in Nat /\ Len(fired') = n + 1 /\ DOMAIN fired' = 1 .. n + 1 /\ DOMAIN fired = 1 .. n
         /\ fired'[n + 1] = x
         /\ \A j \in DOMAIN fired : j \in DOMAIN fired' /\ fired'[j] = fired[j]
         /\ \A j \in DOMAIN fired' : j \in DOMAIN fired \/ j = n + 1
         /\ ToSet(fired) \subseteq ToSet(fired') /\ x \in ToSet(fired')
         /\ \A j \in DOMAIN fired : SinceThrow(fired', j) => SinceThrow(fired, j) /\ x # 0
         /\ x = 0 => ~SinceThrow(fired', n + 1)
<1> DEFINE n == Len(fired)
<1>1. fired \in Seq(Sends \cup {0}) /\ n \in Nat /\ DOMAIN fired = 1 .. n
  BY DispatcherFacts
<1>2. /\ Len(fired') = n + 1 /\ DOMAIN fired' = 1 .. n + 1 /\ fired'[n + 1] = x
      /\ \A j \in 1 .. n : fired'[j] = fired[j]
  BY <1>1
<1>3. /\ \A j \in DOMAIN fired : j \in DOMAIN fired' /\ fired'[j] = fired[j]
      /\ \A j \in DOMAIN fired' : j \in DOMAIN fired \/ j = n + 1
      /\ n + 1 \in DOMAIN fired'
  BY <1>1, <1>2
<1>4. ToSet(fired) \subseteq ToSet(fired') /\ x \in ToSet(fired')
  BY <1>2, <1>3 DEF ToSet
<1>5. ASSUME NEW j \in DOMAIN fired, \A k \in j .. n + 1 : fired'[k] # 0
      PROVE  SinceThrow(fired, j) /\ x # 0
  <2>1. n + 1 \in j .. n + 1 /\ \A k \in j .. n : k \in j .. n + 1 /\ fired'[k] = fired[k]
    BY <1>1, <1>2
  <2> QED BY <1>2, <1>5, <2>1 DEF SinceThrow
<1>6. \A j : SinceThrow(fired', j) <=> \A k \in j .. n + 1 : fired'[k] # 0
  BY <1>2 DEF SinceThrow
<1>7. x = 0 => ~SinceThrow(fired', n + 1)
  <2>1. n + 1 \in n + 1 .. n + 1
    BY <1>1
  <2> QED BY <1>2, <1>6, <2>1
<1> QED BY <1>1, <1>2, <1>3, <1>4, <1>5, <1>6, <1>7

LEMMA FiredOrderStep ==
  ASSUME MediatorTypeOK, FiredInOrder, NEW x \in Sends \cup {0}, fired' = Append(fired, x),
         x # 0 => \A i \in DOMAIN fired : SinceThrow(fired, i) => fired[i] < x
  PROVE  FiredInOrder'
<1> DEFINE n == Len(fired)
<1>1. /\ n \in Nat /\ DOMAIN fired' = 1 .. n + 1 /\ DOMAIN fired = 1 .. n
      /\ fired'[n + 1] = x
      /\ \A j \in DOMAIN fired : j \in DOMAIN fired' /\ fired'[j] = fired[j]
      /\ \A j \in DOMAIN fired' : j \in DOMAIN fired \/ j = n + 1
  BY OneMoreFired
<1> SUFFICES ASSUME NEW i \in DOMAIN fired', NEW j \in DOMAIN fired', i < j,
                    fired'[i] >= fired'[j], fired'[j] # 0
             PROVE  \E k \in i .. j : fired'[k] = 0
  BY DEF FiredInOrder
<1>2. i \in DOMAIN fired /\ fired'[i] = fired[i] /\ fired[i] \in Nat
  BY <1>1, DispatcherFacts
<1>3. CASE j \in DOMAIN fired
  <2>1. \E k \in i .. j : fired[k] = 0
    BY <1>1, <1>2, <1>3 DEF FiredInOrder
  <2>2. \A k \in i .. j : fired'[k] = fired[k]
    BY <1>1, <1>2, <1>3
  <2> QED BY <2>1, <2>2
<1>4. CASE j = n + 1
  <2>1. x # 0 /\ x \in Nat /\ fired[i] >= x
    BY <1>1, <1>2, <1>4 DEF Sends
  <2>2. ~SinceThrow(fired, i)
    BY <1>2, <2>1
  <2>3. PICK k \in i .. n : fired[k] = 0
    BY <2>2 DEF SinceThrow
  <2>4. k \in i .. j /\ fired'[k] = fired[k]
    BY <1>1, <1>2, <1>4, <2>3
  <2> QED BY <2>3, <2>4
<1> QED BY <1>1, <1>3, <1>4

LEMMA RunOrder ==
  ASSUME MediatorTypeOK, Ordered, TickInTurn, RunWork
  PROVE  Ordered'
<1> DEFINE n == Len(fired)
           x == workload[at]
<1>1. /\ at \in DOMAIN workload /\ stack = <<>> /\ fired' = Append(fired, x)
      /\ UNCHANGED <<sent, work, workload, at, dropped>>
  BY DEF RunWork
<1>2. /\ x \in Sends /\ x \in Nat \ {0} /\ DOMAIN workload = 1 .. Len(workload)
      /\ \A k \in DOMAIN workload : workload[k] \in Nat
      /\ \A k \in DOMAIN fired : fired[k] \in Nat
  BY <1>1, DispatcherFacts
<1>3. stack' # <<>>
  <2>1. Len(stack') = Len(stack) + 1 /\ Len(stack) \in Nat
    BY <1>1, WorkIsSent, StackAround DEF RunWork, Ordered
  <2>2. Len(stack') # 0
    BY <2>1
  <2> QED BY <2>2
<1> HIDE DEF x
<1>4. /\ n \in Nat /\ DOMAIN fired' = 1 .. n + 1 /\ DOMAIN fired = 1 .. n
      /\ fired'[n + 1] = x
      /\ \A j \in DOMAIN fired : j \in DOMAIN fired' /\ fired'[j] = fired[j]
      /\ \A j \in DOMAIN fired' : j \in DOMAIN fired \/ j = n + 1
      /\ ToSet(fired) \subseteq ToSet(fired') /\ x \in ToSet(fired')
      /\ \A j \in DOMAIN fired : SinceThrow(fired', j) => SinceThrow(fired, j)
  BY <1>1, <1>2, OneMoreFired
<1>5. /\ \A k \in DOMAIN workload : workload[k] <= Len(sent)
      /\ \A j \in DOMAIN workload, k \in DOMAIN work : workload[j] < work[k]
      /\ \A j, k \in DOMAIN workload : j < k => workload[j] < workload[k]
  BY DEF Ordered, NumbersRise
<1>6. NumbersRise'
  <2>1. \A k \in DOMAIN fired' : fired'[k] <= Len(sent)
    BY <1>1, <1>4, <1>5 DEF Ordered, NumbersRise, x
  <2>2. \A j \in DOMAIN fired', k \in DOMAIN work : fired'[j] < work[k]
    BY <1>1, <1>4, <1>5 DEF Ordered, NumbersRise, x
  <2> QED BY <1>1, <2>1, <2>2 DEF Ordered, NumbersRise
<1>7. \A k \in DOMAIN workload : /\ Rest(k)' => Rest(k) /\ at < k
                                 /\ ~Rest(k)' => ~Rest(k) \/ k = at
  <2>1. at \in Nat /\ \A k \in DOMAIN workload : k \in Nat
    BY <1>1, <1>2
  <2> QED BY <1>1, <1>3, <2>1 DEF Rest
<1>8. RestComesLater'
  <2>1. ASSUME NEW j \in DOMAIN fired', NEW k \in DOMAIN workload, SinceThrow(fired', j), Rest(k)'
        PROVE  fired'[j] < workload[k]
    <3>1. CASE j \in DOMAIN fired
      BY <1>4, <1>7, <2>1, <3>1 DEF Ordered, RestComesLater
    <3>2. CASE j = n + 1
      BY <1>1, <1>4, <1>5, <1>7, <2>1, <3>2 DEF x
    <3> QED BY <1>4, <3>1, <3>2
  <2>2. ASSUME NEW k \in DOMAIN workload, ~Rest(k)' PROVE workload[k] \in ToSet(fired')
    BY <1>4, <1>7, <2>2 DEF Ordered, RestComesLater, x
  <2> QED BY <1>1, <2>1, <2>2 DEF RestComesLater
<1>9. FiredInOrder'
  <2>1. Rest(at)
    BY <1>1 DEF Rest
  <2>2. \A i \in DOMAIN fired : SinceThrow(fired, i) => fired[i] < x
    BY <1>1, <2>1 DEF Ordered, RestComesLater, x
  <2> QED BY <1>1, <1>2, <2>2, FiredOrderStep DEF Ordered, SendsInOrder
<1>10. SendsInOrder'
  BY <1>1, <1>4, <1>9, NothingVanishes DEF Ordered
<1> QED BY <1>6, <1>8, <1>10 DEF Ordered

LEMMA ThrowOrder ==
  ASSUME MediatorTypeOK, Ordered, TickInTurn, WorkThrows
  PROVE  Ordered'
<1> DEFINE n == Len(fired)
<1>1. /\ fired' = Append(fired, 0) /\ at' = 0
      /\ UNCHANGED <<sent, work, workload, dropped>>
  BY DEF WorkThrows
<1>2. /\ DOMAIN workload = 1 .. Len(workload) /\ 0 \in Sends \cup {0}
      /\ \A k \in DOMAIN work : work[k] \in Nat \ {0}
      /\ Len(sent) \in Nat
  BY DispatcherFacts
<1>3. /\ fired'[n + 1] = 0
      /\ \A j \in DOMAIN fired : j \in DOMAIN fired' /\ fired'[j] = fired[j]
      /\ \A j \in DOMAIN fired' : j \in DOMAIN fired \/ j = n + 1
      /\ ToSet(fired) \subseteq ToSet(fired')
      /\ \A j \in DOMAIN fired : ~SinceThrow(fired', j)
      /\ ~SinceThrow(fired', n + 1)
  BY <1>1, <1>2, OneMoreFired
<1>4. NumbersRise'
  <2>1. \A k \in DOMAIN fired' : fired'[k] <= Len(sent)
    BY <1>2, <1>3 DEF Ordered, NumbersRise
  <2>2. \A j \in DOMAIN fired', k \in DOMAIN work : fired'[j] < work[k]
    BY <1>2, <1>3 DEF Ordered, NumbersRise
  <2> QED BY <1>1, <2>1, <2>2 DEF Ordered, NumbersRise
<1>5. RestComesLater'
  <2>1. \A k \in DOMAIN workload : Rest(k)'
    BY <1>1, <1>2 DEF Rest
  <2>2. \A j \in DOMAIN fired' : ~SinceThrow(fired', j)
    BY <1>3
  <2> QED BY <1>1, <2>1, <2>2 DEF RestComesLater
<1>6. FiredInOrder'
  BY <1>1, <1>2, FiredOrderStep DEF Ordered, SendsInOrder
<1>7. SendsInOrder'
  BY <1>1, <1>3, <1>6, NothingVanishes DEF Ordered
<1> QED BY <1>4, <1>5, <1>7 DEF Ordered

LEMMA ReturnOrder ==
  ASSUME MediatorTypeOK, Ordered, TickInTurn, WorkReturns
  PROVE  Ordered'
<1>1. /\ at # 0 /\ at' = at + 1 /\ UNCHANGED <<sent, work, workload, fired, dropped>>
  BY DEF WorkReturns
<1>2. stack # <<>> /\ stack' = <<>>
  <2>1. Len(stack') = Len(stack) - 1 /\ Len(stack) # 0 /\ Len(stack) \in Nat
        /\ (stack = <<>> <=> Len(stack) = 0)
    BY StackAround DEF WorkReturns
  <2>2. Len(stack) <= 1
    BY <1>1 DEF TickInTurn
  <2>3. stack' \in Seq(Frames) /\ Len(stack') = 0
    <3>1. TypeOK'
      BY MediatorTypeStep DEF MediatorNext, Ordered, MediatorTypeOK
    <3> QED BY <2>1, <2>2, <3>1 DEF TypeOK
  <2> QED BY <2>1, <2>3
<1>3. \A k \in DOMAIN workload : Rest(k)' <=> Rest(k)
  <2>1. at \in Nat /\ \A k \in DOMAIN workload : k \in Nat
    BY DispatcherFacts
  <2> QED BY <1>1, <1>2, <2>1 DEF Rest
<1>4. \A j \in DOMAIN fired : SinceThrow(fired', j) <=> SinceThrow(fired, j)
  BY <1>1 DEF SinceThrow
<1>5. RestComesLater'
  BY <1>1, <1>3, <1>4 DEF Ordered, RestComesLater
<1>6. NumbersRise' /\ SendsInOrder'
  BY <1>1 DEF Ordered, NumbersRise, SendsInOrder, FiredInOrder
<1> QED BY <1>5, <1>6 DEF Ordered

LEMMA FinishOrder ==
  ASSUME MediatorTypeOK, Ordered, TickInTurn, FinishTick
  PROVE  Ordered'
<1>1. /\ at > Len(workload) /\ workload' = <<>> /\ at' = 0 /\ DOMAIN workload' = {}
      /\ UNCHANGED <<sent, work, fired, dropped>>
  BY DEF FinishTick
<1>2. at \in Nat /\ Len(workload) \in Nat /\ DOMAIN workload = 1 .. Len(workload)
  BY DispatcherFacts
<1>3. NumbersRise' /\ RestComesLater'
  BY <1>1 DEF Ordered, NumbersRise, RestComesLater
<1>4. ToSet(workload) \subseteq ToSet(fired)
  <2>1. \A k \in DOMAIN workload : ~Rest(k)
    BY <1>1, <1>2 DEF Rest
  <2> QED BY <2>1 DEF Ordered, RestComesLater, ToSet
<1>5. FiredInOrder'
  BY <1>1 DEF Ordered, SendsInOrder, FiredInOrder
<1>6. SendsInOrder'
  BY <1>1, <1>4, <1>5, NothingVanishes DEF Ordered
<1> QED BY <1>3, <1>6 DEF Ordered

LEMMA OrderStep ==
  ASSUME MediatorInv, [MediatorNext]_mediatorVars
  PROVE  MediatorInv'
<1>1. MediatorTypeOK /\ TickInTurn /\ Ordered /\ NumbersRise
  BY DEF MediatorInv, Ordered
<1> SUFFICES Ordered'
  BY <1>1, MediatorTypeStep, TickInTurnStep DEF MediatorInv, Ordered
<1>2. CASE UNCHANGED mediatorVars \/ IdleTick \/ CancelToken
  BY <1>1, <1>2, OrderKept DEF IdleTick, CancelToken, mediatorVars, vars, dispatcherVars
<1>3. CASE (\E e \in Events : Send(e)) \/ Clear \/ Tick \/ RunWork \/ WorkReturns
           \/ WorkThrows \/ FinishTick
  BY <1>1, <1>3, SendOrder, ClearOrder, TickOrder, RunOrder, ReturnOrder, ThrowOrder, FinishOrder
<1>4. CASE \E l \in Listeners : Registration(l)
  BY <1>1, <1>4, OrderKept DEF Registration, AddListener, DestroyTicket, dispatcherVars
<1>5. CASE InsideFire
  <2>1. Len(stack') = Len(stack) /\ Len(stack) # 0
    BY <1>1, <1>5, StackAround DEF InsideFire
  <2>2. stack # <<>> /\ stack' # <<>>
    BY <2>1
  <2> QED BY <1>1, <1>5, <2>2, OrderKept DEF InsideFire, dispatcherVars
<1>6. CASE DirectFire
  <2>1. at = 0
    BY <1>1, <1>6 DEF DirectFire, TickInTurn
  <2> QED BY <1>1, <1>6, <2>1, OrderKept DEF DirectFire, dispatcherVars
<1> QED BY <1>2, <1>3, <1>4, <1>5, <1>6 DEF MediatorNext

LEMMA MediatorInvariant == MediatorSpec => []MediatorInv
<1>1. MediatorInit => MediatorInv
  <2> SUFFICES ASSUME MediatorInit PROVE MediatorInv
    OBVIOUS
  <2>1. /\ sent = <<>> /\ work = <<>> /\ workload = <<>> /\ fired = <<>> /\ stack = <<>>
        /\ at = 0 /\ token = FALSE /\ dropped = {} /\ wiring \in {"direct", "mediated"} /\ Init
    BY DEF MediatorInit, Init
  <2>2. /\ DOMAIN sent = {} /\ DOMAIN work = {} /\ DOMAIN workload = {} /\ DOMAIN fired = {}
        /\ Len(sent) = 0 /\ Len(stack) = 0
    BY <2>1
  <2>3. TypeOK
    BY <2>1, TypeInit
  <2>4. MediatorTypeOK
    <3>1. <<>> \in Seq(Events) /\ <<>> \in Seq(Sends) /\ <<>> \in Seq(Sends \cup {0})
      OBVIOUS
    <3>2. Len(sent) <= MaxSends
      <4>1. Len(sent) = 0 /\ 0 <= MaxSends
        BY <2>2, MediatorAssumption
      <4> QED BY <4>1
    <3>3. at \in Nat /\ dropped \subseteq Sends /\ token \in BOOLEAN
      BY <2>1
    <3> QED BY <2>1, <2>3, <3>1, <3>2, <3>3 DEF MediatorTypeOK
  <2>5. TickInTurn
    BY <2>1, <2>2 DEF TickInTurn
  <2>6. NumbersRise /\ RestComesLater /\ SendsInOrder
    BY <2>2 DEF NumbersRise, RestComesLater, SendsInOrder, FiredInOrder
  <2> QED BY <2>4, <2>5, <2>6 DEF MediatorInv
<1>2. MediatorInv /\ [MediatorNext]_mediatorVars => MediatorInv'
  BY OrderStep
<1> QED BY <1>1, <1>2, PTL DEF MediatorSpec

(***************************************************************************)
(* The mediator's dispatcher drives its router as the router is specified, *)
(* so that what is proved of every router holds of the one behind it.      *)
(***************************************************************************)
THEOREM RouterUsed == MediatorSpec => Spec
<1>1. MediatorInit => Init
  BY DEF MediatorInit
<1>2. MediatorInv /\ [MediatorNext]_mediatorVars => [Next]_vars
  BY MediatorStepsRouter DEF MediatorInv
<1> QED BY <1>1, <1>2, MediatorInvariant, PTL DEF MediatorSpec, Spec

(***************************************************************************)
(* SendsInOrder: events are fired in the order of their sends, and no send *)
(* is lost, whatever threads send and whichever listeners throw.           *)
(***************************************************************************)
THEOREM SentInOrder == MediatorSpec => []SendsInOrder
<1>1. MediatorInv => SendsInOrder
  BY DEF MediatorInv
<1> QED BY <1>1, MediatorInvariant, PTL

(***************************************************************************)
(* The four guarantees of a router, of the router that a mediator ticks.   *)
(***************************************************************************)
THEOREM RouterBehindMediator ==
  ASSUME ~DestroysPending, EnoughIds
  PROVE  MediatorSpec => /\ IterationStable /\ RemovedIsSilent
                         /\ []HeardByAudience /\ []TicketsFindListeners
BY RouterUsed, StableUnderIteration, SilentOnceRemoved, HeardInOrderByAll, TicketsAndListeners

\* TypeCorrect: the router and the dispatcher in front of it keep their types.
THEOREM TypeCorrect == MediatorSpec => []MediatorTypeOK
<1>1. MediatorInv => MediatorTypeOK
  BY DEF MediatorInv
<1> QED BY <1>1, MediatorInvariant, PTL
=============================================================================
