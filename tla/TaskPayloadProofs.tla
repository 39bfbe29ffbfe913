--------------------------- MODULE TaskPayloadProofs ---------------------------
(***************************************************************************)
(* Proofs about TaskPayload for any threads, sources, continuations and    *)
(* number of competing completions, whether or not callables use tasks     *)
(* that were unwrapped.                                                    *)
(***************************************************************************)
EXTENDS TaskPayload, SequenceTheorems, TLAPS

USE TaskAssumption

-----------------------------------------------------------------------------
(***************************************************************************)
(* What the proofs need besides.  A continuation that is pending is in one *)
(* place of one sequence, and its parent is the payload that keeps it or   *)
(* the one its carrier is in a call of.                                    *)
(***************************************************************************)
OnceEach(s) == \A i, j \in DOMAIN s : s[i] = s[j] => i = j

NoDuplicates ==
    /\ \A p \in Payloads : OnceEach(conts[p])
    /\ \A a \in Actors : OnceEach(batch[a])

Kept ==
    \A c \in Conts, p \in Payloads : c \in Elements(conts[p]) =>
        /\ pc[c] = "pending" /\ ~completed[p] /\ parent[c] = p
        /\ \A a \in Actors : c \notin Elements(batch[a])

Carried ==
    \A c \in Conts, a \in Actors : c \in Elements(batch[a]) =>
        /\ pc[c] = "pending" /\ pc[a] \in {"add", "dispatch", "await"} /\ parent[c] = at[a]
        /\ \A b \in Actors \ {a} : c \notin Elements(batch[b])

NotLost ==
    \A c \in Conts : pc[c] = "pending" =>
        \/ \E p \in Payloads : c \in Elements(conts[p])
        \/ \E a \in Actors : c \in Elements(batch[a])

RunsCounted ==
    \A c \in Conts : runs[c] = IF pc[c] \in {"unborn", "pending", "queued"} THEN 0 ELSE 1

\* What the callers are in a call of, and find there.
InCalls ==
    \A a \in Actors :
        /\ pc[a] \in {"add", "dispatch", "await", "cannibalize", "collapse"} => at[a] \in Payloads
        /\ pc[a] = "collapse" => at[a] \in Sources /\ into[a] \in Sources
        /\ pc[a] \in {"dispatch", "await"} /\ batch[a] # <<>> =>
             completed[at[a]] /\ redirect[at[a]] = NoTask
        /\ pc[a] = "cannibalize" => result[at[a]] # NoResult

HasResult ==
    \A p \in Payloads :
        /\ redirect[p] # NoTask => completed[p]
        /\ completed[p] /\ redirect[p] = NoTask => result[p] # NoResult

FindsParent ==
    \A c \in Conts : pc[c] \notin {"unborn", "pending"} =>
        parent[c] \in Payloads /\ completed[parent[c]] /\ redirect[parent[c]] = NoTask

\* A continuation is completed by its own run, at the end of it.
CompletesItself ==
    /\ \A a \in Actors : pc[a] = "cannibalize" /\ at[a] \in Conts =>
         a = at[a] /\ ret[a] = "done" /\ result[a] = <<a, a>>
    /\ \A c \in Conts :
         /\ completed[c] => ret[c] = "done" /\ result[c] = winner[c]
         /\ ret[c] = "done" => pc[c] \in {"cannibalize", "dispatch", "await", "done"}

\* Who undertook to complete a source is counted.
Claims(a, s) == pc[a] \in {"cannibalize", "collapse"} /\ at[a] = s

ClaimsCounted ==
    /\ \A s \in Sources : claims[s] = 0 => ~completed[s]
    /\ \A s \in Sources, a \in Actors : Claims(a, s) =>
         /\ claims[s] # 0
         /\ claims[s] = 1 =>
              /\ ~completed[s]
              /\ pc[a] = "cannibalize" => result[s] = <<a, s>>
              /\ \A b \in Actors : Claims(b, s) => b = a
    /\ \A s \in Sources : claims[s] = 1 /\ completed[s] /\ redirect[s] = NoTask =>
         result[s] = winner[s]

GivenTheWinner ==
    \A c \in Conts : Started(c) /\ parent[c] \notin Contested =>
        observed[c] = winner[parent[c]] /\ observed[c] # NoResult

IInv ==
    /\ TypeOK /\ NoDuplicates /\ Kept /\ Carried /\ NotLost /\ RunsCounted
    /\ InCalls /\ HasResult /\ FindsParent /\ CompletesItself /\ ClaimsCounted
    /\ GivenTheWinner

-----------------------------------------------------------------------------

LEMMA Actor ==
  /\ Threads \subseteq Actors /\ Conts \subseteq Actors /\ Actors = Threads \cup Conts
  /\ Sources \subseteq Payloads /\ Conts \subseteq Payloads /\ Payloads = Sources \cup Conts
  /\ Sources \cap Conts = {} /\ Threads \cap Conts = {} /\ NoTask \notin Payloads
  /\ (\A s \in Sources : s \notin Conts) /\ \A x, y : <<x, y>> # NoResult
BY DEF Actors, Payloads, NoResult

(* Every step of the system, by its action. *)
LEMMA Steps ==
  ASSUME [Next]_vars
  PROVE  \/ \E a \in Actors :
              \/ \E c \in Conts, p \in Payloads, inl \in BOOLEAN : Then(a, c, p, inl)
              \/ \E s \in Sources : Complete(a, s)
              \/ \E l, r \in Sources : Collapse(a, l, r)
              \/ Forward(a) \/ Store(a) \/ RunIt(a)
              \/ Cannibalize(a) \/ Reject(a) \/ CollapseLeft(a)
              \/ RunInline(a) \/ InlineReturns(a) \/ QueueRun(a) \/ CallReturns(a)
         \/ \E c \in Conts : StartQueued(c) \/ Finish(c)
         \/ UNCHANGED vars
BY Actor DEF Next, ContStep, Step

-----------------------------------------------------------------------------
(* The sequences of continuations. *)
LEMMA ElementsOf ==
  ASSUME NEW S, NEW s \in Seq(S)
  PROVE  /\ Elements(s) \subseteq S
         /\ s # <<>> => \E x \in S : x \in Elements(s)
         /\ \A i \in 1 .. Len(s) : s[i] \in Elements(s)
         /\ DOMAIN s = 1 .. Len(s) /\ Len(s) \in Nat
<1>1. DOMAIN s = 1 .. Len(s) /\ Len(s) \in Nat /\ \A i \in 1 .. Len(s) : s[i] \in S
  OBVIOUS
<1>2. \A i \in 1 .. Len(s) : s[i] \in Elements(s)
  BY <1>1 DEF Elements
<1>3. ASSUME s # <<>> PROVE s[1] \in Elements(s) /\ s[1] \in S
  <2>1. 1 \in 1 .. Len(s)
    BY <1>3, EmptySeq
  <2> QED BY <1>1, <1>2, <2>1
<1>4. Elements(s) \subseteq S
  BY <1>1 DEF Elements
<1> QED BY <1>1, <1>2, <1>3, <1>4

LEMMA ElementsNone == Elements(<<>>) = {} /\ OnceEach(<<>>)
BY DEF Elements, OnceEach

LEMMA ElementsOne ==
  ASSUME NEW S, NEW x \in S
  PROVE  <<x>> \in Seq(S) /\ Elements(<<x>>) = {x} /\ OnceEach(<<x>>)
BY DEF Elements, OnceEach

LEMMA ElementsBoth ==
  ASSUME NEW S, NEW s \in Seq(S), NEW t \in Seq(S), OnceEach(s), OnceEach(t),
         Elements(s) \cap Elements(t) = {}
  PROVE  /\ s \o t \in Seq(S) /\ Elements(s \o t) = Elements(s) \cup Elements(t)
         /\ OnceEach(s \o t)
<1>1. /\ s \o t \in Seq(S) /\ Len(s \o t) = Len(s) + Len(t)
      /\ \A i \in 1 .. Len(s) + Len(t) :
           (s \o t)[i] = IF i <= Len(s) THEN s[i] ELSE t[i - Len(s)]
  BY ConcatProperties
<1>2. Len(s) \in Nat /\ Len(t) \in Nat
  OBVIOUS
<1>3. \A i \in 1 .. Len(s) + Len(t) :
        \/ i \in 1 .. Len(s)
        \/ i > Len(s) /\ i - Len(s) \in 1 .. Len(t)
  BY <1>2
<1>4. Elements(s \o t) \subseteq Elements(s) \cup Elements(t)
  BY <1>1, <1>2, <1>3 DEF Elements
<1>5. Elements(s) \subseteq Elements(s \o t)
  <2> SUFFICES ASSUME NEW i \in 1 .. Len(s) PROVE \E j \in 1 .. Len(s) + Len(t) : s[i] = (s \o t)[j]
    BY <1>1 DEF Elements
  <2>1. i \in 1 .. Len(s) + Len(t) /\ i <= Len(s)
    BY <1>2
  <2> QED BY <1>1, <2>1
<1>6. Elements(t) \subseteq Elements(s \o t)
  <2> SUFFICES ASSUME NEW i \in 1 .. Len(t) PROVE t[i] \in Elements(s \o t)
    BY DEF Elements
  <2> DEFINE j == Len(s) + i
  <2>1. j \in 1 .. Len(s) + Len(t) /\ ~(j <= Len(s)) /\ j - Len(s) = i
    BY <1>2
  <2>2. (s \o t)[j] = t[i]
    BY <1>1, <2>1
  <2> QED BY <1>1, <2>1, <2>2 DEF Elements
<1>7. OnceEach(s \o t)
  <2> SUFFICES ASSUME NEW i \in 1 .. Len(s) + Len(t), NEW j \in 1 .. Len(s) + Len(t),
                      (s \o t)[i] = (s \o t)[j]
               PROVE  i = j
    BY <1>1 DEF OnceEach
  <2>1. CASE i \in 1 .. Len(s) /\ j \in 1 .. Len(s)
    BY <1>1, <1>2, <2>1 DEF OnceEach
  <2>2. CASE i > Len(s) /\ j > Len(s)
    <3>1. i - Len(s) \in 1 .. Len(t) /\ j - Len(s) \in 1 .. Len(t)
      BY <1>3, <2>2
    <3>2. t[i - Len(s)] = t[j - Len(s)]
      BY <1>1, <1>2, <2>2
    <3>3. i - Len(s) = j - Len(s)
      BY <3>1, <3>2 DEF OnceEach
    <3> QED BY <1>2, <3>3
  <2>3. CASE i \in 1 .. Len(s) /\ j > Len(s)
    <3>1. s[i] = t[j - Len(s)] /\ j - Len(s) \in 1 .. Len(t)
      BY <1>1, <1>2, <1>3, <2>3
    <3>2. s[i] \in Elements(s) /\ t[j - Len(s)] \in Elements(t)
      BY <2>3, <3>1, ElementsOf
    <3> QED BY <3>1, <3>2
  <2>4. CASE i > Len(s) /\ j \in 1 .. Len(s)
    <3>1. s[j] = t[i - Len(s)] /\ i - Len(s) \in 1 .. Len(t)
      BY <1>1, <1>2, <1>3, <2>4
    <3>2. s[j] \in Elements(s) /\ t[i - Len(s)] \in Elements(t)
      BY <2>4, <3>1, ElementsOf
    <3> QED BY <3>1, <3>2
  <2> QED BY <1>3, <2>1, <2>2, <2>3, <2>4
<1> QED BY <1>1, <1>4, <1>5, <1>6, <1>7

LEMMA ElementsTail ==
  ASSUME NEW S, NEW s \in Seq(S), s # <<>>, OnceEach(s)
  PROVE  /\ Head(s) \in Elements(s) /\ Tail(s) \in Seq(S) /\ OnceEach(Tail(s))
         /\ Elements(Tail(s)) = Elements(s) \ {Head(s)}
<1>1. /\ Len(s) \in Nat \ {0} /\ Head(s) = s[1] /\ Tail(s) \in Seq(S)
      /\ Len(Tail(s)) = Len(s) - 1
      /\ \A i \in 1 .. Len(s) - 1 : Tail(s)[i] = s[i + 1]
  BY HeadTailProperties
<1>2. Head(s) \in Elements(s)
  BY <1>1 DEF Elements
<1>3. OnceEach(Tail(s))
  <2> SUFFICES ASSUME NEW i \in 1 .. Len(s) - 1, NEW j \in 1 .. Len(s) - 1, Tail(s)[i] = Tail(s)[j]
               PROVE  i = j
    BY <1>1 DEF OnceEach
  <2>1. i + 1 \in 1 .. Len(s) /\ j + 1 \in 1 .. Len(s) /\ s[i + 1] = s[j + 1]
    BY <1>1
  <2>2. i + 1 = j + 1
    BY <2>1 DEF OnceEach
  <2> QED BY <2>2
<1>4. Elements(Tail(s)) \subseteq Elements(s) \ {Head(s)}
  <2> SUFFICES ASSUME NEW i \in 1 .. Len(s) - 1
               PROVE  s[i + 1] \in Elements(s) /\ s[i + 1] # s[1]
    BY <1>1 DEF Elements
  <2>1. i + 1 \in 1 .. Len(s) /\ 1 \in 1 .. Len(s) /\ i + 1 # 1
    BY <1>1
  <2> QED BY <2>1 DEF Elements, OnceEach
<1>5. Elements(s) \ {Head(s)} \subseteq Elements(Tail(s))
  <2> SUFFICES ASSUME NEW i \in 1 .. Len(s), s[i] # s[1] PROVE s[i] \in Elements(Tail(s))
    BY <1>1 DEF Elements
  <2> DEFINE j == i - 1
  <2>1. i # 1
    OBVIOUS
  <2>2. j \in 1 .. Len(s) - 1 /\ j + 1 = i
    BY <1>1, <2>1
  <2>3. Tail(s)[j] = s[i]
    BY <1>1, <2>2
  <2>4. j \in 1 .. Len(Tail(s)) /\ Tail(s) \in Seq(S)
    BY <1>1, <2>2
  <2> HIDE DEF j
  <2>5. Tail(s)[j] \in Elements(Tail(s))
    BY <2>4, ElementsOf
  <2> QED BY <2>3, <2>5
<1> QED BY <1>1, <1>2, <1>3, <1>4, <1>5

-----------------------------------------------------------------------------
LEMMA InitInv == Init => IInv
<1> SUFFICES ASSUME Init PROVE IInv
  OBVIOUS
<1> USE DEF Init
<1>1. TypeOK
  BY Actor DEF TypeOK, PcStates, Results, Actors
<1>2. \A a \in Actors : pc[a] = IF a \in Threads THEN "idle" ELSE "unborn"
  BY Actor
<1>3. \A c \in Conts : pc[c] = "unborn"
  BY <1>2, Actor
<1>4. NoDuplicates /\ Kept /\ Carried /\ NotLost
  BY <1>3, ElementsNone DEF NoDuplicates, Kept, Carried, NotLost
<1>5. RunsCounted /\ FindsParent
  BY <1>3, Actor DEF RunsCounted, FindsParent
<1>6. InCalls /\ HasResult
  BY <1>2 DEF InCalls, HasResult
<1>7. CompletesItself
  BY <1>2, <1>3, Actor DEF CompletesItself
<1>8. ClaimsCounted
  BY <1>2, Actor DEF ClaimsCounted, Claims
<1>9. GivenTheWinner
  BY DEF GivenTheWinner, Started
<1> QED BY <1>1, <1>4, <1>5, <1>6, <1>7, <1>8, <1>9 DEF IInv

LEMMA Reparented ==
  ASSUME TypeOK, NEW S, NEW p \in Payloads, Reparent(S, p)
  PROVE  /\ parent' \in [Conts -> Payloads \cup {NoTask}]
         /\ \A c \in Conts : parent'[c] = IF c \in S THEN p ELSE parent[c]
BY DEF TypeOK, Reparent

(* The places of a call, whoever makes it. *)
LEMMA AtPayload ==
  ASSUME TypeOK, InCalls, NEW a \in Actors
  PROVE  /\ pc[a] \in {"add", "dispatch", "await", "cannibalize", "collapse"} => at[a] \in Payloads
         /\ pc[a] = "collapse" => at[a] \in Sources /\ into[a] \in Sources
         /\ batch[a] \in Seq(Conts)
         /\ at[a] \in Payloads => conts[at[a]] \in Seq(Conts)
              /\ redirect[at[a]] \in Sources \cup {NoTask}
         /\ ret[a] \in PcStates
BY DEF TypeOK, InCalls, PcStates

LEMMA HeadOfBatch ==
  ASSUME TypeOK, NoDuplicates, NEW a \in Actors, batch[a] # <<>>
  PROVE  /\ Head(batch[a]) \in Conts /\ Head(batch[a]) \in Elements(batch[a])
         /\ Tail(batch[a]) \in Seq(Conts) /\ OnceEach(Tail(batch[a]))
         /\ Elements(Tail(batch[a])) = Elements(batch[a]) \ {Head(batch[a])}
<1>1. batch[a] \in Seq(Conts) /\ OnceEach(batch[a])
  BY DEF TypeOK, NoDuplicates
<1>2. Elements(batch[a]) \subseteq Conts
  BY <1>1, ElementsOf
<1> QED BY <1>1, <1>2, ElementsTail

LEMMA TypeStep ==
  ASSUME TypeOK, InCalls, NoDuplicates, Carried, FindsParent, [Next]_vars
  PROVE  TypeOK'
<1> USE Actor DEF payloadVars, contVars, historyVars, TypeOK
<1>1. ASSUME NEW a \in Actors, NEW c \in Conts, NEW p \in Payloads, NEW inl \in BOOLEAN,
             Then(a, c, p, inl)
      PROVE  TypeOK'
  BY <1>1, ElementsOne, Reparented DEF Then, PcStates
<1>2. ASSUME NEW a \in Actors, NEW s \in Sources, Complete(a, s) PROVE TypeOK'
  <2>1. claims[s] \in 0 .. MaxClaims /\ claims[s] < MaxClaims
    BY <1>2 DEF Complete
  <2>2. claims[s] + 1 \in 0 .. MaxClaims
    BY <2>1
  <2>3. claims' \in [Sources -> 0 .. MaxClaims]
    BY <1>2, <2>2 DEF Complete
  <2>4. result' \in [Payloads -> Results] /\ pc' \in [Actors -> PcStates]
    BY <1>2 DEF Complete, Results, PcStates
  <2> QED BY <1>2, <2>3, <2>4 DEF Complete
<1>3. ASSUME NEW a \in Actors, NEW l \in Sources, NEW r \in Sources, Collapse(a, l, r)
      PROVE  TypeOK'
  <2>1. MaxClaims \in 0 .. MaxClaims
    OBVIOUS
  <2>2. claims' \in [Sources -> 0 .. MaxClaims] /\ pc' \in [Actors -> PcStates]
    BY <1>3, <2>1 DEF Collapse, PcStates
  <2> QED BY <1>3, <2>2 DEF Collapse
<1>4. ASSUME NEW c \in Conts, Finish(c) PROVE TypeOK'
  <2>1. result' \in [Payloads -> Results] /\ pc' \in [Actors -> PcStates]
    BY <1>4 DEF Finish, Results, PcStates
  <2> QED BY <1>4, <2>1 DEF Finish
<1>5. ASSUME NEW a \in Actors, Forward(a) PROVE TypeOK'
  <2>1. at[a] \in Payloads /\ redirect[at[a]] \in Payloads
    BY <1>5, AtPayload DEF Forward
  <2>2. parent' \in [Conts -> Payloads \cup {NoTask}]
    BY <1>5, <2>1, Reparented DEF Forward
  <2>3. lock' \in [Payloads -> Actors \cup {NoActor}] /\ at' \in [Actors -> Payloads \cup {NoTask}]
    BY <1>5, <2>1 DEF Forward
  <2> QED BY <1>5, <2>2, <2>3 DEF Forward
<1>6. ASSUME NEW a \in Actors, Store(a) PROVE TypeOK'
  <2>1. at[a] \in Payloads /\ conts[at[a]] \in Seq(Conts) /\ batch[a] \in Seq(Conts)
    BY <1>6, AtPayload DEF Store
  <2>2. conts[at[a]] \o batch[a] \in Seq(Conts) /\ <<>> \in Seq(Conts)
    BY <2>1
  <2>3. conts' \in [Payloads -> Seq(Conts)] /\ batch' \in [Actors -> Seq(Conts)]
    BY <1>6, <2>2 DEF Store
  <2>4. pc' \in [Actors -> PcStates]
    BY <1>6 DEF Store, PcStates
  <2> QED BY <1>6, <2>3, <2>4 DEF Store
<1>7. ASSUME NEW a \in Actors, RunIt(a) PROVE TypeOK'
  BY <1>7 DEF RunIt, PcStates
<1>8. ASSUME NEW a \in Actors, Cannibalize(a) PROVE TypeOK'
  <2>1. pc[a] = "cannibalize"
    BY <1>8 DEF Cannibalize
  <2>2. at[a] \in Payloads /\ conts[at[a]] \in Seq(Conts)
    BY <2>1, AtPayload
  <2>3. <<>> \in Seq(Conts)
    OBVIOUS
  <2>4. conts' \in [Payloads -> Seq(Conts)] /\ batch' \in [Actors -> Seq(Conts)]
    BY <1>8, <2>2, <2>3 DEF Cannibalize, TakeContinuations
  <2>5. completed' \in [Payloads -> BOOLEAN] /\ pc' \in [Actors -> PcStates]
    BY <1>8 DEF Cannibalize, TakeContinuations, PcStates
  <2>6. winner' \in [Payloads -> Results]
    BY <1>8, <2>2 DEF Cannibalize, Results
  <2> QED BY <1>8, <2>4, <2>5, <2>6 DEF Cannibalize
<1>9. ASSUME NEW a \in Actors, Reject(a) PROVE TypeOK'
  BY <1>9 DEF Reject, PcStates
<1>10. ASSUME NEW a \in Actors, CollapseLeft(a) PROVE TypeOK'
  <2>1. pc[a] = "collapse"
    BY <1>10 DEF CollapseLeft
  <2>2. at[a] \in Sources /\ into[a] \in Sources /\ conts[at[a]] \in Seq(Conts)
    BY <2>1, AtPayload
  <2>3. <<>> \in Seq(Conts)
    OBVIOUS
  <2>4. conts' \in [Payloads -> Seq(Conts)] /\ batch' \in [Actors -> Seq(Conts)]
    BY <1>10, <2>2, <2>3 DEF CollapseLeft, TakeContinuations
  <2>5. completed' \in [Payloads -> BOOLEAN]
    BY <1>10 DEF CollapseLeft, TakeContinuations
  <2>6. pc' \in [Actors -> PcStates]
    BY <1>10 DEF CollapseLeft, PcStates
  <2>7. parent' \in [Conts -> Payloads \cup {NoTask}]
    BY <1>10, <2>2, Reparented DEF CollapseLeft
  <2>8. redirect' \in [Payloads -> Sources \cup {NoTask}]
          /\ at' \in [Actors -> Payloads \cup {NoTask}]
    BY <1>10, <2>2 DEF CollapseLeft
  <2> QED BY <1>10, <2>4, <2>5, <2>6, <2>7, <2>8 DEF CollapseLeft
<1>11. ASSUME NEW a \in Actors, RunInline(a) PROVE TypeOK'
  <2> DEFINE c == Head(batch[a])
  <2>1. c \in Conts /\ Tail(batch[a]) \in Seq(Conts)
    BY <1>11, HeadOfBatch DEF RunInline
  <2>2. batch' \in [Actors -> Seq(Conts)] /\ awaiting' \in [Actors -> Conts \cup {NoTask}]
    BY <1>11, <2>1 DEF RunInline, Rest
  <2>3. pc' \in [Actors -> PcStates]
    BY <1>11, <2>1 DEF RunInline, PcStates
  <2>4. Begin(c)
    BY <1>11 DEF RunInline
  <2>5. observed' \in [Conts -> Results]
    <3>1. c \in Elements(batch[a]) /\ at[a] \in Payloads
      BY <1>11, AtPayload, HeadOfBatch DEF RunInline
    <3>2. parent[c] \in Payloads
      BY <2>1, <3>1 DEF Carried
    <3> QED BY <2>1, <2>4, <3>2 DEF Begin
  <2>6. runs' \in [Conts -> Nat]
    <3> HIDE DEF c
    <3>1. runs[c] + 1 \in Nat
      BY <2>1
    <3> QED BY <2>4, <3>1 DEF Begin
  <2> QED BY <1>11, <2>2, <2>3, <2>5, <2>6 DEF RunInline
<1>12. ASSUME NEW a \in Actors, InlineReturns(a) PROVE TypeOK'
  BY <1>12 DEF InlineReturns, PcStates
<1>13. ASSUME NEW a \in Actors, QueueRun(a) PROVE TypeOK'
  <2> DEFINE c == Head(batch[a])
  <2>1. c \in Conts /\ Tail(batch[a]) \in Seq(Conts)
    BY <1>13, HeadOfBatch DEF QueueRun
  <2>2. batch' \in [Actors -> Seq(Conts)]
    BY <1>13, <2>1 DEF QueueRun, Rest
  <2>3. pc' \in [Actors -> PcStates]
    BY <1>13, <2>1 DEF QueueRun, PcStates
  <2> QED BY <1>13, <2>2, <2>3 DEF QueueRun
<1>14. ASSUME NEW c \in Conts, StartQueued(c) PROVE TypeOK'
  <2>1. Begin(c) /\ pc' \in [Actors -> PcStates]
    BY <1>14 DEF StartQueued, PcStates
  <2>2. runs' \in [Conts -> Nat]
    BY <2>1 DEF Begin
  <2>3. parent[c] \in Payloads
    BY <1>14 DEF StartQueued, FindsParent
  <2>4. observed' \in [Conts -> Results]
    BY <2>1, <2>3 DEF Begin
  <2> QED BY <1>14, <2>1, <2>2, <2>4 DEF StartQueued
<1>15. ASSUME NEW a \in Actors, CallReturns(a) PROVE TypeOK'
  BY <1>15 DEF CallReturns, PcStates
<1>16. CASE UNCHANGED vars
  BY <1>16 DEF vars, actorVars
<1> HIDE DEF TypeOK
<1> QED
  BY <1>1, <1>2, <1>3, <1>4, <1>5, <1>6, <1>7, <1>8, <1>9, <1>10, <1>11, <1>12, <1>13, <1>14,
     <1>15, <1>16, Steps

-----------------------------------------------------------------------------
(***************************************************************************)
(* One lemma per action.  Each names what its guard gives, then the effect *)
(* of the action on every variable at every index, then shows each conjunct*)
(* of the invariant from these two.                                        *)
(***************************************************************************)
LEMMA ThenKeeps ==
  ASSUME IInv, TypeOK', NEW a \in Actors, NEW c \in Conts, NEW p \in Payloads, NEW inl \in BOOLEAN,
         Then(a, c, p, inl)
  PROVE  IInv'
<1> USE Actor
<1>1. /\ TypeOK /\ NoDuplicates /\ Kept /\ Carried /\ NotLost /\ RunsCounted /\ InCalls
      /\ HasResult /\ FindsParent /\ CompletesItself /\ ClaimsCounted /\ GivenTheWinner
  BY DEF IInv
<1>2. pc[a] \in {"idle", "running"} /\ pc[c] = "unborn" /\ a # c
  BY DEF Then, CanCall
<1>3. Elements(batch[a]) = {} /\ Elements(<<c>>) = {c} /\ OnceEach(<<c>>)
  <2>1. \A d \in Conts : d \notin Elements(batch[a])
    BY <1>1, <1>2 DEF Carried
  <2>2. Elements(batch[a]) \subseteq Conts
    BY <1>1, ElementsOf DEF TypeOK
  <2> QED BY <2>1, <2>2, ElementsOne
<1>4. /\ UNCHANGED <<completed, redirect, conts, result, into, ret, claims, winner, observed, runs>>
      /\ \A x \in Actors : pc'[x] = IF x = a THEN "add" ELSE IF x = c THEN "pending" ELSE pc[x]
      /\ \A x \in Actors : at'[x] = IF x = a THEN p ELSE at[x]
      /\ \A x \in Actors : batch'[x] = IF x = a THEN <<c>> ELSE batch[x]
      /\ \A d \in Conts : parent'[d] = IF d = c THEN p ELSE parent[d]
  <2>1. \A d \in Conts : parent'[d] = IF d = c THEN p ELSE parent[d]
    BY DEF Then, Reparent
  <2>2. \A x \in Actors : pc'[x] = IF x = a THEN "add" ELSE IF x = c THEN "pending" ELSE pc[x]
    BY <1>1, <1>2 DEF Then, TypeOK
  <2>3. /\ \A x \in Actors : at'[x] = IF x = a THEN p ELSE at[x]
        /\ \A x \in Actors : batch'[x] = IF x = a THEN <<c>> ELSE batch[x]
    BY <1>1 DEF Then, TypeOK
  <2> QED BY <2>1, <2>2, <2>3 DEF Then, payloadVars, historyVars
<1>5. NoDuplicates'
  BY <1>1, <1>2, <1>3, <1>4 DEF NoDuplicates
<1>6. Kept'
  BY <1>1, <1>2, <1>3, <1>4 DEF Kept
<1>7. Carried'
  BY <1>1, <1>2, <1>3, <1>4 DEF Carried
<1>8. NotLost'
  BY <1>1, <1>2, <1>3, <1>4 DEF NotLost
<1>9. RunsCounted'
  BY <1>1, <1>2, <1>3, <1>4 DEF RunsCounted
<1>10. InCalls'
  BY <1>1, <1>2, <1>3, <1>4 DEF InCalls
<1>11. HasResult'
  BY <1>1, <1>2, <1>3, <1>4 DEF HasResult
<1>12. FindsParent'
  BY <1>1, <1>2, <1>3, <1>4 DEF FindsParent
<1>13. CompletesItself'
  BY <1>1, <1>2, <1>3, <1>4 DEF CompletesItself
<1>14. ClaimsCounted'
  <2>1. \A x \in Actors, u \in Sources : Claims(x, u)' <=> Claims(x, u)
    BY <1>1, <1>2, <1>3, <1>4 DEF Claims
  <2> QED BY <1>1, <1>2, <1>3, <1>4, <2>1 DEF ClaimsCounted
<1>15. GivenTheWinner'
  <2>1. Contested' = Contested
    BY <1>1, <1>2, <1>3, <1>4 DEF Contested
  <2>2. \A d \in Conts : Started(d)' => d # c /\ Started(d)
    BY <1>1, <1>2, <1>3, <1>4 DEF RunsCounted, Started
  <2> QED BY <1>1, <1>2, <1>3, <1>4, <2>1, <2>2 DEF GivenTheWinner
<1> QED BY <1>5, <1>6, <1>7, <1>8, <1>9, <1>10, <1>11, <1>12, <1>13, <1>14, <1>15 DEF IInv

LEMMA CompleteKeeps ==
  ASSUME IInv, TypeOK', NEW a \in Actors, NEW s \in Sources,
         Complete(a, s)
  PROVE  IInv'
<1> USE Actor
<1>1. /\ TypeOK /\ NoDuplicates /\ Kept /\ Carried /\ NotLost /\ RunsCounted /\ InCalls
      /\ HasResult /\ FindsParent /\ CompletesItself /\ ClaimsCounted /\ GivenTheWinner
  BY DEF IInv
<1>2. pc[a] \in {"idle", "running"} /\ claims[s] < MaxClaims
  BY DEF Complete, CanCall
<1>3. /\ UNCHANGED <<completed, redirect, conts, parent, into, batch, ret, winner, observed, runs>>
      /\ \A x \in Actors : pc'[x] = IF x = a THEN "cannibalize" ELSE pc[x]
      /\ \A x \in Actors : at'[x] = IF x = a THEN s ELSE at[x]
      /\ \A u \in Sources : claims'[u] = IF u = s THEN claims[s] + 1 ELSE claims[u]
      /\ \A q \in Payloads : result'[q] = IF q = s THEN <<a, s>> ELSE result[q]
  BY <1>1, <1>2 DEF Complete, TypeOK, payloadVars, contVars, actorVars, historyVars
<1>4. NoDuplicates'
  BY <1>1, <1>2, <1>3 DEF NoDuplicates
<1>5. Kept'
  BY <1>1, <1>2, <1>3 DEF Kept
<1>6. Carried'
  BY <1>1, <1>2, <1>3 DEF Carried
<1>7. NotLost'
  BY <1>1, <1>2, <1>3 DEF NotLost
<1>8. RunsCounted'
  BY <1>1, <1>2, <1>3 DEF RunsCounted
<1>9. InCalls'
  <2>1. \A q \in Payloads : q = s \/ result[q] # NoResult => result'[q] # NoResult
    BY <1>1, <1>2, <1>3
  <2>2. a \in Actors /\ s \in Payloads /\ pc'[a] = "cannibalize" /\ at'[a] = s
    BY <1>1, <1>2, <1>3
  <2>3. \A x \in Actors : x # a => pc'[x] = pc[x] /\ at'[x] = at[x]
    BY <1>1, <1>2, <1>3
  <2>4. ASSUME NEW x \in Actors, pc'[x] = "cannibalize" PROVE result'[at'[x]] # NoResult
    <3>1. CASE x = a
      BY <2>1, <2>2, <3>1
    <3>2. CASE x # a
      BY <1>1, <2>1, <2>3, <2>4, <3>2 DEF InCalls
    <3> QED BY <3>1, <3>2
  <2> QED BY <1>1, <1>2, <1>3, <2>4 DEF InCalls
<1>10. HasResult'
  BY <1>1, <1>2, <1>3 DEF HasResult
<1>11. FindsParent'
  BY <1>1, <1>2, <1>3 DEF FindsParent
<1>12. CompletesItself'
  <2>1. \A d \in Conts : result'[d] = result[d]
    BY <1>3
  <2>2. \A x \in Actors : pc'[x] = "cannibalize" /\ at'[x] \in Conts =>
          pc[x] = "cannibalize" /\ at'[x] = at[x]
    BY <1>3
  <2>3. \A d \in Conts : ret[d] = "done" => d # a
    BY <1>1, <1>2 DEF CompletesItself
  <2>4. /\ \A x \in Actors : x # a => pc'[x] = pc[x]
        /\ UNCHANGED <<completed, ret, winner>>
    BY <1>3
  <2> QED BY <1>1, <2>1, <2>2, <2>3, <2>4 DEF CompletesItself
<1>13. ClaimsCounted'
  <2>1. \A x \in Actors, u \in Sources :
          Claims(x, u)' <=> \/ x = a /\ u = s
                            \/ x # a /\ Claims(x, u)
    BY <1>1, <1>2, <1>3 DEF Claims
  <2>2. claims'[s] # 0 /\ (claims'[s] = 1 => claims[s] = 0)
    BY <1>1, <1>2, <1>3 DEF TypeOK
  <2>3. claims[s] = 0 => ~completed[s] /\ \A x \in Actors : ~Claims(x, s)
    BY <1>1, <1>2, <1>3 DEF ClaimsCounted
  <2>4. \A u \in Sources : u # s => claims'[u] = claims[u] /\ result'[u] = result[u]
    BY <1>1, <1>2, <1>3
  <2> QED BY <1>1, <1>2, <1>3, <2>1, <2>2, <2>3, <2>4 DEF ClaimsCounted
<1>14. GivenTheWinner'
  <2>1. \A u \in Contested : u \in Contested'
    BY <1>1, <1>2, <1>3 DEF Contested, TypeOK
  <2> QED BY <1>1, <1>2, <1>3, <2>1 DEF GivenTheWinner, Started
<1> QED BY <1>4, <1>5, <1>6, <1>7, <1>8, <1>9, <1>10, <1>11, <1>12, <1>13, <1>14 DEF IInv

LEMMA CollapseKeeps ==
  ASSUME IInv, TypeOK', NEW a \in Actors, NEW l \in Sources, NEW r \in Sources,
         Collapse(a, l, r)
  PROVE  IInv'
<1> USE Actor
<1>1. /\ TypeOK /\ NoDuplicates /\ Kept /\ Carried /\ NotLost /\ RunsCounted /\ InCalls
      /\ HasResult /\ FindsParent /\ CompletesItself /\ ClaimsCounted /\ GivenTheWinner
  BY DEF IInv
<1>2. pc[a] \in {"idle", "running"} /\ claims[l] = 0 /\ MaxClaims # 0
  BY DEF Collapse, CanCall
<1>3. /\ UNCHANGED <<completed, redirect, conts, result, parent, batch, ret, winner, observed,
                     runs>>
      /\ \A x \in Actors : pc'[x] = IF x = a THEN "collapse" ELSE pc[x]
      /\ \A x \in Actors : at'[x] = IF x = a THEN l ELSE at[x]
      /\ \A x \in Actors : into'[x] = IF x = a THEN r ELSE into[x]
      /\ \A u \in Sources : claims'[u] = IF u = l THEN MaxClaims ELSE claims[u]
  BY <1>1, <1>2 DEF Collapse, TypeOK, payloadVars, contVars, actorVars, historyVars
<1>4. NoDuplicates'
  BY <1>1, <1>2, <1>3 DEF NoDuplicates
<1>5. Kept'
  BY <1>1, <1>2, <1>3 DEF Kept
<1>6. Carried'
  BY <1>1, <1>2, <1>3 DEF Carried
<1>7. NotLost'
  BY <1>1, <1>2, <1>3 DEF NotLost
<1>8. RunsCounted'
  BY <1>1, <1>2, <1>3 DEF RunsCounted
<1>9. InCalls'
  BY <1>1, <1>2, <1>3 DEF InCalls
<1>10. HasResult'
  BY <1>1, <1>2, <1>3 DEF HasResult
<1>11. FindsParent'
  BY <1>1, <1>2, <1>3 DEF FindsParent
<1>12. CompletesItself'
  BY <1>1, <1>2, <1>3 DEF CompletesItself
<1>13. ClaimsCounted'
  <2>1. \A x \in Actors, u \in Sources :
          Claims(x, u)' <=> \/ x = a /\ u = l
                            \/ x # a /\ Claims(x, u)
    BY <1>1, <1>2, <1>3 DEF Claims
  <2>2. ~completed[l] /\ (\A x \in Actors : ~Claims(x, l)) /\ claims'[l] # 0
    BY <1>1, <1>2, <1>3 DEF ClaimsCounted
  <2>3. \A u \in Sources : u # l => claims'[u] = claims[u]
    BY <1>1, <1>2, <1>3
  <2> QED BY <1>1, <1>2, <1>3, <2>1, <2>2, <2>3 DEF ClaimsCounted
<1>14. GivenTheWinner'
  <2>1. \A u \in Contested : u \in Contested'
    BY <1>1, <1>2, <1>3 DEF Contested, TypeOK
  <2> QED BY <1>1, <1>2, <1>3, <2>1 DEF GivenTheWinner, Started
<1> QED BY <1>4, <1>5, <1>6, <1>7, <1>8, <1>9, <1>10, <1>11, <1>12, <1>13, <1>14 DEF IInv

LEMMA FinishKeeps ==
  ASSUME IInv, TypeOK', NEW c \in Conts,
         Finish(c)
  PROVE  IInv'
<1> USE Actor
<1>1. /\ TypeOK /\ NoDuplicates /\ Kept /\ Carried /\ NotLost /\ RunsCounted /\ InCalls
      /\ HasResult /\ FindsParent /\ CompletesItself /\ ClaimsCounted /\ GivenTheWinner
  BY DEF IInv
<1>2. pc[c] \in {"running", "finishing"}
  BY DEF Finish
<1>3. /\ UNCHANGED <<completed, redirect, conts, parent, into, batch, claims, winner, observed,
                     runs>>
      /\ \A x \in Actors : pc'[x] = IF x = c THEN "cannibalize" ELSE pc[x]
      /\ \A x \in Actors : at'[x] = IF x = c THEN c ELSE at[x]
      /\ \A x \in Actors : ret'[x] = IF x = c THEN "done" ELSE ret[x]
      /\ \A q \in Payloads : result'[q] = IF q = c THEN <<c, c>> ELSE result[q]
  BY <1>1, <1>2 DEF Finish, TypeOK, payloadVars, contVars, actorVars, historyVars
<1>4. NoDuplicates'
  BY <1>1, <1>2, <1>3 DEF NoDuplicates
<1>5. Kept'
  BY <1>1, <1>2, <1>3 DEF Kept
<1>6. Carried'
  BY <1>1, <1>2, <1>3 DEF Carried
<1>7. NotLost'
  BY <1>1, <1>2, <1>3 DEF NotLost
<1>8. RunsCounted'
  BY <1>1, <1>2, <1>3 DEF RunsCounted
<1>9. InCalls'
  <2>1. \A q \in Payloads : q = c \/ result[q] # NoResult => result'[q] # NoResult
    BY <1>1, <1>2, <1>3
  <2>2. c \in Actors /\ c \in Payloads /\ pc'[c] = "cannibalize" /\ at'[c] = c
    BY <1>1, <1>2, <1>3
  <2>3. \A x \in Actors : x # c => pc'[x] = pc[x] /\ at'[x] = at[x]
    BY <1>1, <1>2, <1>3
  <2>4. ASSUME NEW x \in Actors, pc'[x] = "cannibalize" PROVE result'[at'[x]] # NoResult
    <3>1. CASE x = c
      BY <2>1, <2>2, <3>1
    <3>2. CASE x # c
      BY <1>1, <2>1, <2>3, <2>4, <3>2 DEF InCalls
    <3> QED BY <3>1, <3>2
  <2> QED BY <1>1, <1>2, <1>3, <2>4 DEF InCalls
<1>10. HasResult'
  BY <1>1, <1>2, <1>3 DEF HasResult
<1>11. FindsParent'
  BY <1>1, <1>2, <1>3 DEF FindsParent
<1>12. CompletesItself'
  BY <1>1, <1>2, <1>3 DEF CompletesItself
<1>13. ClaimsCounted'
  <2>1. \A x \in Actors, u \in Sources : Claims(x, u)' => x # c /\ Claims(x, u)
    BY <1>1, <1>2, <1>3 DEF Claims
  <2>2. \A u \in Sources : result'[u] = result[u]
    BY <1>1, <1>2, <1>3
  <2> QED BY <1>1, <1>2, <1>3, <2>1, <2>2 DEF ClaimsCounted, Claims
<1>14. GivenTheWinner'
  <2>1. Contested' = Contested
    BY <1>1, <1>2, <1>3 DEF Contested
  <2> QED BY <1>1, <1>2, <1>3, <2>1 DEF GivenTheWinner, Started
<1> QED BY <1>4, <1>5, <1>6, <1>7, <1>8, <1>9, <1>10, <1>11, <1>12, <1>13, <1>14 DEF IInv

LEMMA ForwardKeeps ==
  ASSUME IInv, TypeOK', NEW a \in Actors,
         Forward(a)
  PROVE  IInv'
<1> USE Actor
<1>1. /\ TypeOK /\ NoDuplicates /\ Kept /\ Carried /\ NotLost /\ RunsCounted /\ InCalls
      /\ HasResult /\ FindsParent /\ CompletesItself /\ ClaimsCounted /\ GivenTheWinner
  BY DEF IInv
<1>2. pc[a] = "add" /\ at[a] \in Payloads /\ redirect[at[a]] \in Sources
  BY <1>1, AtPayload DEF Forward
<1>3. /\ UNCHANGED <<completed, redirect, conts, result, pc, into, batch, ret, claims, winner,
                     observed, runs>>
      /\ \A x \in Actors : at'[x] = IF x = a THEN redirect[at[a]] ELSE at[x]
      /\ \A d \in Conts :
           parent'[d] = IF d \in Elements(batch[a]) THEN redirect[at[a]] ELSE parent[d]
  BY <1>1, <1>2 DEF Forward, Reparent, TypeOK, payloadVars, contVars, actorVars, historyVars
<1>4. NoDuplicates'
  BY <1>1, <1>2, <1>3 DEF NoDuplicates
<1>5. Kept'
  BY <1>1, <1>2, <1>3 DEF Kept
<1>6. Carried'
  BY <1>1, <1>2, <1>3 DEF Carried
<1>7. NotLost'
  BY <1>1, <1>2, <1>3 DEF NotLost
<1>8. RunsCounted'
  BY <1>1, <1>2, <1>3 DEF RunsCounted
<1>9. InCalls'
  BY <1>1, <1>2, <1>3 DEF InCalls
<1>10. HasResult'
  BY <1>1, <1>2, <1>3 DEF HasResult
<1>11. FindsParent'
  <2>1. \A d \in Conts : pc'[d] # "pending" => parent'[d] = parent[d]
    BY <1>1, <1>2, <1>3 DEF Carried
  <2> QED BY <1>1, <1>2, <1>3, <2>1 DEF FindsParent
<1>12. CompletesItself'
  BY <1>1, <1>2, <1>3 DEF CompletesItself
<1>13. ClaimsCounted'
  <2>1. \A x \in Actors, u \in Sources : Claims(x, u)' <=> Claims(x, u)
    BY <1>1, <1>2, <1>3 DEF Claims
  <2> QED BY <1>1, <1>2, <1>3, <2>1 DEF ClaimsCounted
<1>14. GivenTheWinner'
  <2>1. Contested' = Contested
    BY <1>1, <1>2, <1>3 DEF Contested
  <2>2. \A d \in Conts : Started(d)' => Started(d) /\ parent'[d] = parent[d]
    BY <1>1, <1>2, <1>3 DEF RunsCounted, Started, Carried
  <2> QED BY <1>1, <1>2, <1>3, <2>1, <2>2 DEF GivenTheWinner
<1> QED BY <1>4, <1>5, <1>6, <1>7, <1>8, <1>9, <1>10, <1>11, <1>12, <1>13, <1>14 DEF IInv

LEMMA StoreKeeps ==
  ASSUME IInv, TypeOK', NEW a \in Actors,
         Store(a)
  PROVE  IInv'
<1> USE Actor
<1>1. /\ TypeOK /\ NoDuplicates /\ Kept /\ Carried /\ NotLost /\ RunsCounted /\ InCalls
      /\ HasResult /\ FindsParent /\ CompletesItself /\ ClaimsCounted /\ GivenTheWinner
  BY DEF IInv
<1>2. pc[a] = "add" /\ at[a] \in Payloads /\ ~completed[at[a]]
  BY <1>1, AtPayload DEF Store
<1>3. /\ Elements(conts[at[a]] \o batch[a]) = Elements(conts[at[a]]) \cup Elements(batch[a])
      /\ OnceEach(conts[at[a]] \o batch[a]) /\ Elements(<<>>) = {} /\ OnceEach(<<>>)
  <2>1. /\ conts[at[a]] \in Seq(Conts) /\ batch[a] \in Seq(Conts)
        /\ OnceEach(conts[at[a]]) /\ OnceEach(batch[a])
    BY <1>1, <1>2 DEF TypeOK, NoDuplicates
  <2>2. Elements(batch[a]) \subseteq Conts
    BY <2>1, ElementsOf
  <2>3. Elements(conts[at[a]]) \cap Elements(batch[a]) = {}
    BY <1>1, <1>2, <2>2 DEF Kept
  <2> QED BY <2>1, <2>3, ElementsBoth, ElementsNone
<1>4. /\ UNCHANGED <<completed, redirect, result, parent, at, into, ret, claims, winner,
                     observed, runs>>
      /\ \A x \in Actors : pc'[x] = IF x = a THEN "dispatch" ELSE pc[x]
      /\ \A x \in Actors : batch'[x] = IF x = a THEN <<>> ELSE batch[x]
      /\ \A q \in Payloads : conts'[q] = IF q = at[a] THEN conts[at[a]] \o batch[a] ELSE conts[q]
  BY <1>1, <1>2, <1>3 DEF Store, TypeOK, payloadVars, contVars, actorVars, historyVars
<1>5. NoDuplicates'
  BY <1>1, <1>2, <1>3, <1>4 DEF NoDuplicates
<1>6. Kept'
  <2>1. \A d \in Conts, q \in Payloads : d \in Elements(conts'[q]) =>
          \/ d \in Elements(conts[q])
          \/ q = at[a] /\ d \in Elements(batch[a])
    BY <1>1, <1>2, <1>3, <1>4
  <2>2. \A d \in Conts, x \in Actors : d \in Elements(batch'[x]) => x # a
          /\ d \in Elements(batch[x])
    BY <1>1, <1>2, <1>3, <1>4
  <2>3. \A d \in Conts : pc[d] = "pending" => pc'[d] = "pending"
    BY <1>1, <1>2, <1>3, <1>4
  <2>4. \A d \in Conts : d \in Elements(batch[a]) =>
          /\ pc[d] = "pending" /\ parent[d] = at[a]
          /\ \A x \in Actors \ {a} : d \notin Elements(batch[x])
    BY <1>1, <1>2, <1>3, <1>4 DEF Carried
  <2> QED BY <1>1, <1>2, <1>3, <1>4, <2>1, <2>2, <2>3, <2>4 DEF Kept
<1>7. Carried'
  BY <1>1, <1>2, <1>3, <1>4 DEF Carried
<1>8. NotLost'
  <2>1. \A d \in Conts, q \in Payloads : d \in Elements(conts[q]) => d \in Elements(conts'[q])
    BY <1>1, <1>2, <1>3, <1>4
  <2>2. \A d \in Conts : d \in Elements(batch[a]) => d \in Elements(conts'[at[a]])
    BY <1>1, <1>2, <1>3, <1>4
  <2>3. \A d \in Conts, x \in Actors : x # a /\ d \in Elements(batch[x]) =>
          d \in Elements(batch'[x])
    BY <1>1, <1>2, <1>3, <1>4
  <2>4. \A d \in Conts : pc'[d] = "pending" => pc[d] = "pending"
    BY <1>1, <1>2, <1>3, <1>4
  <2> QED BY <1>1, <1>2, <2>1, <2>2, <2>3, <2>4 DEF NotLost
<1>9. RunsCounted'
  BY <1>1, <1>2, <1>3, <1>4 DEF RunsCounted
<1>10. InCalls'
  BY <1>1, <1>2, <1>3, <1>4 DEF InCalls
<1>11. HasResult'
  BY <1>1, <1>2, <1>3, <1>4 DEF HasResult
<1>12. FindsParent'
  BY <1>1, <1>2, <1>3, <1>4 DEF FindsParent
<1>13. CompletesItself'
  BY <1>1, <1>2, <1>3, <1>4 DEF CompletesItself
<1>14. ClaimsCounted'
  <2>1. \A x \in Actors, u \in Sources : Claims(x, u)' <=> Claims(x, u)
    BY <1>1, <1>2, <1>3, <1>4 DEF Claims
  <2> QED BY <1>1, <1>2, <1>3, <1>4, <2>1 DEF ClaimsCounted
<1>15. GivenTheWinner'
  <2>1. Contested' = Contested
    BY <1>1, <1>2, <1>3, <1>4 DEF Contested
  <2> QED BY <1>1, <1>2, <1>3, <1>4, <2>1 DEF GivenTheWinner, Started
<1> QED BY <1>5, <1>6, <1>7, <1>8, <1>9, <1>10, <1>11, <1>12, <1>13, <1>14, <1>15 DEF IInv

LEMMA RunItKeeps ==
  ASSUME IInv, TypeOK', NEW a \in Actors,
         RunIt(a)
  PROVE  IInv'
<1> USE Actor
<1>1. /\ TypeOK /\ NoDuplicates /\ Kept /\ Carried /\ NotLost /\ RunsCounted /\ InCalls
      /\ HasResult /\ FindsParent /\ CompletesItself /\ ClaimsCounted /\ GivenTheWinner
  BY DEF IInv
<1>2. pc[a] = "add" /\ at[a] \in Payloads /\ completed[at[a]] /\ redirect[at[a]] = NoTask
  BY <1>1, AtPayload DEF RunIt
<1>3. /\ UNCHANGED <<completed, redirect, conts, result, parent, at, into, batch, ret, claims,
                     winner, observed, runs>>
      /\ \A x \in Actors : pc'[x] = IF x = a THEN "dispatch" ELSE pc[x]
  BY <1>1, <1>2 DEF RunIt, TypeOK, payloadVars, contVars, actorVars, historyVars
<1>4. NoDuplicates'
  BY <1>1, <1>2, <1>3 DEF NoDuplicates
<1>5. Kept'
  BY <1>1, <1>2, <1>3 DEF Kept
<1>6. Carried'
  BY <1>1, <1>2, <1>3 DEF Carried
<1>7. NotLost'
  BY <1>1, <1>2, <1>3 DEF NotLost
<1>8. RunsCounted'
  BY <1>1, <1>2, <1>3 DEF RunsCounted
<1>9. InCalls'
  BY <1>1, <1>2, <1>3 DEF InCalls
<1>10. HasResult'
  BY <1>1, <1>2, <1>3 DEF HasResult
<1>11. FindsParent'
  BY <1>1, <1>2, <1>3 DEF FindsParent
<1>12. CompletesItself'
  BY <1>1, <1>2, <1>3 DEF CompletesItself
<1>13. ClaimsCounted'
  <2>1. \A x \in Actors, u \in Sources : Claims(x, u)' <=> Claims(x, u)
    BY <1>1, <1>2, <1>3 DEF Claims
  <2> QED BY <1>1, <1>2, <1>3, <2>1 DEF ClaimsCounted
<1>14. GivenTheWinner'
  <2>1. Contested' = Contested
    BY <1>1, <1>2, <1>3 DEF Contested
  <2> QED BY <1>1, <1>2, <1>3, <2>1 DEF GivenTheWinner, Started
<1> QED BY <1>4, <1>5, <1>6, <1>7, <1>8, <1>9, <1>10, <1>11, <1>12, <1>13, <1>14 DEF IInv

LEMMA InlineReturnsKeeps ==
  ASSUME IInv, TypeOK', NEW a \in Actors,
         InlineReturns(a)
  PROVE  IInv'
<1> USE Actor
<1>1. /\ TypeOK /\ NoDuplicates /\ Kept /\ Carried /\ NotLost /\ RunsCounted /\ InCalls
      /\ HasResult /\ FindsParent /\ CompletesItself /\ ClaimsCounted /\ GivenTheWinner
  BY DEF IInv
<1>2. pc[a] = "await"
  BY DEF InlineReturns
<1>3. /\ UNCHANGED <<completed, redirect, conts, result, parent, at, into, batch, ret, claims,
                     winner, observed, runs>>
      /\ \A x \in Actors : pc'[x] = IF x = a THEN "dispatch" ELSE pc[x]
  BY <1>1, <1>2 DEF InlineReturns, TypeOK, payloadVars, contVars, actorVars, historyVars
<1>4. NoDuplicates'
  BY <1>1, <1>2, <1>3 DEF NoDuplicates
<1>5. Kept'
  BY <1>1, <1>2, <1>3 DEF Kept
<1>6. Carried'
  BY <1>1, <1>2, <1>3 DEF Carried
<1>7. NotLost'
  BY <1>1, <1>2, <1>3 DEF NotLost
<1>8. RunsCounted'
  BY <1>1, <1>2, <1>3 DEF RunsCounted
<1>9. InCalls'
  BY <1>1, <1>2, <1>3 DEF InCalls
<1>10. HasResult'
  BY <1>1, <1>2, <1>3 DEF HasResult
<1>11. FindsParent'
  BY <1>1, <1>2, <1>3 DEF FindsParent
<1>12. CompletesItself'
  BY <1>1, <1>2, <1>3 DEF CompletesItself
<1>13. ClaimsCounted'
  <2>1. \A x \in Actors, u \in Sources : Claims(x, u)' <=> Claims(x, u)
    BY <1>1, <1>2, <1>3 DEF Claims
  <2> QED BY <1>1, <1>2, <1>3, <2>1 DEF ClaimsCounted
<1>14. GivenTheWinner'
  <2>1. Contested' = Contested
    BY <1>1, <1>2, <1>3 DEF Contested
  <2> QED BY <1>1, <1>2, <1>3, <2>1 DEF GivenTheWinner, Started
<1> QED BY <1>4, <1>5, <1>6, <1>7, <1>8, <1>9, <1>10, <1>11, <1>12, <1>13, <1>14 DEF IInv

LEMMA RejectKeeps ==
  ASSUME IInv, TypeOK', NEW a \in Actors,
         Reject(a)
  PROVE  IInv'
<1> USE Actor
<1>1. /\ TypeOK /\ NoDuplicates /\ Kept /\ Carried /\ NotLost /\ RunsCounted /\ InCalls
      /\ HasResult /\ FindsParent /\ CompletesItself /\ ClaimsCounted /\ GivenTheWinner
  BY DEF IInv
<1>2. pc[a] \in {"cannibalize", "collapse"} /\ ret[a] \in {"idle", "finishing", "done"}
  BY <1>1 DEF Reject, TypeOK
<1>3. /\ UNCHANGED <<completed, redirect, conts, result, parent, batch, ret, claims, winner,
                     observed, runs>>
      /\ \A x \in Actors : pc'[x] = IF x = a THEN ret[a] ELSE pc[x]
      /\ \A x \in Actors : at'[x] = IF x = a THEN NoTask ELSE at[x]
      /\ \A x \in Actors : into'[x] = IF x = a THEN NoTask ELSE into[x]
  BY <1>1, <1>2 DEF Reject, TypeOK, payloadVars, contVars, actorVars, historyVars
<1>4. NoDuplicates'
  BY <1>1, <1>2, <1>3 DEF NoDuplicates
<1>5. Kept'
  BY <1>1, <1>2, <1>3 DEF Kept
<1>6. Carried'
  BY <1>1, <1>2, <1>3 DEF Carried
<1>7. NotLost'
  BY <1>1, <1>2, <1>3 DEF NotLost
<1>8. RunsCounted'
  BY <1>1, <1>2, <1>3 DEF RunsCounted
<1>9. InCalls'
  BY <1>1, <1>2, <1>3 DEF InCalls
<1>10. HasResult'
  BY <1>1, <1>2, <1>3 DEF HasResult
<1>11. FindsParent'
  BY <1>1, <1>2, <1>3 DEF FindsParent
<1>12. CompletesItself'
  BY <1>1, <1>2, <1>3 DEF CompletesItself
<1>13. ClaimsCounted'
  <2>1. \A x \in Actors, u \in Sources : Claims(x, u)' => Claims(x, u) /\ pc'[x] = pc[x]
    BY <1>1, <1>2, <1>3 DEF Claims
  <2> QED BY <1>1, <1>2, <1>3, <2>1 DEF ClaimsCounted
<1>14. GivenTheWinner'
  <2>1. Contested' = Contested
    BY <1>1, <1>2, <1>3 DEF Contested
  <2> QED BY <1>1, <1>2, <1>3, <2>1 DEF GivenTheWinner, Started
<1> QED BY <1>4, <1>5, <1>6, <1>7, <1>8, <1>9, <1>10, <1>11, <1>12, <1>13, <1>14 DEF IInv

LEMMA CallReturnsKeeps ==
  ASSUME IInv, TypeOK', NEW a \in Actors,
         CallReturns(a)
  PROVE  IInv'
<1> USE Actor
<1>1. /\ TypeOK /\ NoDuplicates /\ Kept /\ Carried /\ NotLost /\ RunsCounted /\ InCalls
      /\ HasResult /\ FindsParent /\ CompletesItself /\ ClaimsCounted /\ GivenTheWinner
  BY DEF IInv
<1>2. pc[a] = "dispatch" /\ batch[a] = <<>> /\ ret[a] \in {"idle", "finishing", "done"}
  BY <1>1 DEF CallReturns, TypeOK
<1>3. Elements(batch[a]) = {}
  BY <1>2, ElementsNone
<1>4. /\ UNCHANGED <<completed, redirect, conts, result, parent, batch, ret, claims, winner,
                     observed, runs>>
      /\ \A x \in Actors : pc'[x] = IF x = a THEN ret[a] ELSE pc[x]
      /\ \A x \in Actors : at'[x] = IF x = a THEN NoTask ELSE at[x]
      /\ \A x \in Actors : into'[x] = IF x = a THEN NoTask ELSE into[x]
  BY <1>1, <1>2, <1>3 DEF CallReturns, TypeOK, payloadVars, contVars, actorVars, historyVars
<1>5. NoDuplicates'
  BY <1>1, <1>2, <1>3, <1>4 DEF NoDuplicates
<1>6. Kept'
  BY <1>1, <1>2, <1>3, <1>4 DEF Kept
<1>7. Carried'
  BY <1>1, <1>2, <1>3, <1>4 DEF Carried
<1>8. NotLost'
  BY <1>1, <1>2, <1>3, <1>4 DEF NotLost
<1>9. RunsCounted'
  BY <1>1, <1>2, <1>3, <1>4 DEF RunsCounted
<1>10. InCalls'
  BY <1>1, <1>2, <1>3, <1>4 DEF InCalls
<1>11. HasResult'
  BY <1>1, <1>2, <1>3, <1>4 DEF HasResult
<1>12. FindsParent'
  BY <1>1, <1>2, <1>3, <1>4 DEF FindsParent
<1>13. CompletesItself'
  BY <1>1, <1>2, <1>3, <1>4 DEF CompletesItself
<1>14. ClaimsCounted'
  <2>1. \A x \in Actors, u \in Sources : Claims(x, u)' => Claims(x, u) /\ pc'[x] = pc[x]
    BY <1>1, <1>2, <1>3, <1>4 DEF Claims
  <2> QED BY <1>1, <1>2, <1>3, <1>4, <2>1 DEF ClaimsCounted
<1>15. GivenTheWinner'
  <2>1. Contested' = Contested
    BY <1>1, <1>2, <1>3, <1>4 DEF Contested
  <2> QED BY <1>1, <1>2, <1>3, <1>4, <2>1 DEF GivenTheWinner, Started
<1> QED BY <1>5, <1>6, <1>7, <1>8, <1>9, <1>10, <1>11, <1>12, <1>13, <1>14, <1>15 DEF IInv

LEMMA CannibalizeKeeps ==
  ASSUME IInv, TypeOK', NEW a \in Actors,
         Cannibalize(a)
  PROVE  IInv'
<1> USE Actor
<1>1. /\ TypeOK /\ NoDuplicates /\ Kept /\ Carried /\ NotLost /\ RunsCounted /\ InCalls
      /\ HasResult /\ FindsParent /\ CompletesItself /\ ClaimsCounted /\ GivenTheWinner
  BY DEF IInv
<1>2. /\ pc[a] = "cannibalize" /\ at[a] \in Payloads /\ ~completed[at[a]]
      /\ redirect[at[a]] = NoTask /\ result[at[a]] # NoResult
  BY <1>1, AtPayload DEF Cannibalize, InCalls, HasResult
<1>3. /\ Elements(<<>>) = {} /\ OnceEach(<<>>)
      /\ \A d \in Conts : d \notin Elements(batch[a])
  BY <1>1, <1>2, ElementsNone DEF Carried
<1>4. /\ UNCHANGED <<redirect, result, parent, at, into, ret, claims, observed, runs>>
      /\ \A x \in Actors : pc'[x] = IF x = a THEN "dispatch" ELSE pc[x]
      /\ \A q \in Payloads : completed'[q] = IF q = at[a] THEN TRUE ELSE completed[q]
      /\ \A q \in Payloads : conts'[q] = IF q = at[a] THEN <<>> ELSE conts[q]
      /\ \A x \in Actors : batch'[x] = IF x = a THEN conts[at[a]] ELSE batch[x]
      /\ \A q \in Payloads : winner'[q] = IF q = at[a] THEN <<a, at[a]>> ELSE winner[q]
  BY <1>1, <1>2, <1>3 DEF Cannibalize, TakeContinuations, TypeOK, payloadVars, contVars,
     actorVars, historyVars
<1>5. NoDuplicates'
  BY <1>1, <1>2, <1>3, <1>4 DEF NoDuplicates
<1>6. Kept'
  <2>1. \A d \in Conts, q \in Payloads :
          d \in Elements(conts'[q]) <=> q # at[a] /\ d \in Elements(conts[q])
    BY <1>1, <1>2, <1>3, <1>4
  <2>2. \A d \in Conts, x \in Actors :
          d \in Elements(batch'[x]) <=> \/ x = a /\ d \in Elements(conts[at[a]])
                                        \/ x # a /\ d \in Elements(batch[x])
    BY <1>1, <1>2, <1>3, <1>4
  <2>3. \A d \in Conts : pc'[d] = "pending" <=> pc[d] = "pending"
    BY <1>1, <1>2, <1>3, <1>4
  <2>4. \A d \in Conts, q \in Payloads : d \in Elements(conts[q]) =>
          pc[d] = "pending" /\ parent[d] = q /\ ~completed[q]
            /\ \A x \in Actors : d \notin Elements(batch[x])
    BY <1>1 DEF Kept
  <2>5. \A q \in Payloads : q # at[a] => completed'[q] = completed[q]
    BY <1>4
  <2>6. \A d \in Conts, q \in Payloads : q # at[a] /\ d \in Elements(conts[q]) =>
          parent'[d] = parent[d]
    BY <1>1, <1>2, <1>4, <2>4
  <2>7. ASSUME NEW d \in Conts, NEW q \in Payloads, d \in Elements(conts'[q])
        PROVE  /\ pc'[d] = "pending" /\ ~completed'[q] /\ parent'[d] = q
               /\ \A x \in Actors : d \notin Elements(batch'[x])
    <3>1. q # at[a] /\ d \in Elements(conts[q])
      BY <2>1, <2>7
    <3>2. pc[d] = "pending" /\ parent[d] = q /\ ~completed[q]
            /\ \A x \in Actors : d \notin Elements(batch[x])
      BY <2>4, <3>1
    <3>3. d \notin Elements(conts[at[a]])
      BY <1>2, <2>4, <3>1, <3>2
    <3> QED BY <2>2, <2>3, <2>5, <2>6, <3>1, <3>2, <3>3
  <2> QED BY <2>7 DEF Kept
<1>7. Carried'
  <2>1. \A d \in Conts, q \in Payloads :
          d \in Elements(conts'[q]) <=> q # at[a] /\ d \in Elements(conts[q])
    BY <1>1, <1>2, <1>3, <1>4
  <2>2. \A d \in Conts, x \in Actors :
          d \in Elements(batch'[x]) <=> \/ x = a /\ d \in Elements(conts[at[a]])
                                        \/ x # a /\ d \in Elements(batch[x])
    BY <1>1, <1>2, <1>3, <1>4
  <2>3. \A d \in Conts : pc'[d] = "pending" <=> pc[d] = "pending"
    BY <1>1, <1>2, <1>3, <1>4
  <2>4. \A d \in Conts : d \in Elements(conts[at[a]]) =>
          pc[d] = "pending" /\ parent[d] = at[a] /\ \A x \in Actors : d \notin Elements(batch[x])
    BY <1>1, <1>2 DEF Kept
  <2>5. \A d \in Conts, x \in Actors : d \in Elements(batch[x]) =>
          /\ x # a /\ pc[d] = "pending" /\ pc[x] \in {"add", "dispatch", "await"}
               /\ parent[d] = at[x]
          /\ \A y \in Actors \ {x} : d \notin Elements(batch[y])
    BY <1>1, <1>3 DEF Carried
  <2>6. pc'[a] \in {"add", "dispatch"} /\ \A x \in Actors : x # a => pc'[x] = pc[x]
          /\ at'[x] = at[x]
    BY <1>4
  <2>7. \A d \in Conts : d \in Elements(conts[at[a]]) => parent'[d] = at'[a]
    BY <1>4, <2>4
  <2>8. \A d \in Conts : d \notin Elements(conts[at[a]]) => parent'[d] = parent[d]
    BY <1>4
  <2> QED BY <2>2, <2>3, <2>4, <2>5, <2>6, <2>7, <2>8 DEF Carried
<1>8. NotLost'
  <2>1. \A d \in Conts, q \in Payloads :
          d \in Elements(conts'[q]) <=> q # at[a] /\ d \in Elements(conts[q])
    BY <1>1, <1>2, <1>3, <1>4
  <2>2. \A d \in Conts, x \in Actors :
          d \in Elements(batch'[x]) <=> \/ x = a /\ d \in Elements(conts[at[a]])
                                        \/ x # a /\ d \in Elements(batch[x])
    BY <1>1, <1>2, <1>3, <1>4
  <2>3. \A d \in Conts : pc'[d] = "pending" <=> pc[d] = "pending"
    BY <1>1, <1>2, <1>3, <1>4
  <2> QED BY <1>1, <1>2, <1>3, <2>1, <2>2, <2>3 DEF NotLost
<1>9. RunsCounted'
  BY <1>1, <1>2, <1>3, <1>4 DEF RunsCounted
<1>10. InCalls'
  <2>1. \A q \in Payloads : completed[q] => completed'[q]
    BY <1>4
  <2>2. completed'[at'[a]] /\ redirect'[at'[a]] = NoTask /\ at'[a] \in Payloads
          /\ pc'[a] = "dispatch"
    BY <1>2, <1>4
  <2>3. \A x \in Actors : x # a => pc'[x] = pc[x] /\ batch'[x] = batch[x]
    BY <1>4
  <2>4. at' = at /\ into' = into /\ redirect' = redirect /\ result' = result
    BY <1>4
  <2>5. \A x \in Actors :
          pc'[x] \in {"add", "dispatch", "await", "cannibalize", "collapse"} => at'[x] \in Payloads
    BY <1>1, <2>2, <2>3, <2>4 DEF InCalls
  <2>6. \A x \in Actors : pc'[x] = "collapse" => at'[x] \in Sources /\ into'[x] \in Sources
    BY <1>1, <2>2, <2>3, <2>4 DEF InCalls
  <2>7. ASSUME NEW x \in Actors, pc'[x] \in {"dispatch", "await"}, batch'[x] # <<>>
        PROVE  completed'[at'[x]] /\ redirect'[at'[x]] = NoTask
    <3>1. CASE x = a
      BY <1>2, <2>2, <2>7, <3>1
    <3>2. CASE x # a
      <4>1. pc[x] \in {"dispatch", "await"} /\ batch[x] # <<>> /\ at'[x] = at[x]
        BY <2>3, <2>4, <2>7, <3>2
      <4>2. at[x] \in Payloads /\ completed[at[x]] /\ redirect[at[x]] = NoTask
        BY <1>1, <4>1 DEF InCalls
      <4> QED BY <1>2, <2>1, <2>4, <4>1, <4>2
    <3> QED BY <3>1, <3>2
  <2>8. \A x \in Actors : pc'[x] = "cannibalize" => result'[at'[x]] # NoResult
    BY <1>1, <2>2, <2>3, <2>4 DEF InCalls
  <2> QED BY <2>5, <2>6, <2>7, <2>8 DEF InCalls
<1>11. HasResult'
  BY <1>1, <1>2, <1>3, <1>4 DEF HasResult
<1>12. FindsParent'
  <2>1. \A d \in Conts : pc'[d] \notin {"unborn", "pending"} => pc[d] \notin {"unborn", "pending"}
    BY <1>2, <1>4
  <2>2. \A q \in Payloads : completed[q] => completed'[q]
    BY <1>4
  <2>3. UNCHANGED <<parent, redirect>>
    BY <1>4
  <2> QED BY <1>1, <2>1, <2>2, <2>3 DEF FindsParent
<1>13. CompletesItself'
  <2>1. \A x \in Actors : x # a => pc'[x] = pc[x]
    BY <1>4
  <2>2. pc'[a] = "dispatch" /\ ret' = ret /\ result' = result /\ at' = at
    BY <1>4
  <2>3. at[a] \in Conts => a = at[a] /\ ret[a] = "done" /\ result[a] = <<a, a>>
    BY <1>1, <1>2 DEF CompletesItself
  <2>4. \A d \in Conts : d # at[a] => completed'[d] = completed[d] /\ winner'[d] = winner[d]
    BY <1>4
  <2>5. winner'[at[a]] = <<a, at[a]>>
    BY <1>2, <1>4
  <2>6. \A d \in Conts : completed'[d] => ret[d] = "done" /\ result[d] = winner'[d]
    BY <1>1, <2>3, <2>4, <2>5 DEF CompletesItself
  <2> QED BY <1>1, <2>1, <2>2, <2>6 DEF CompletesItself
<1>14. ClaimsCounted'
  <2>1. \A x \in Actors, u \in Sources : Claims(x, u)' <=> x # a /\ Claims(x, u)
    BY <1>1, <1>2, <1>3, <1>4 DEF Claims
  <2>2. \A u \in Sources : u = at[a] => Claims(a, u) /\ claims[u] # 0
    BY <1>1, <1>2, <1>3, <1>4 DEF Claims, ClaimsCounted
  <2>3. \A u \in Sources : u # at[a] => completed'[u] = completed[u] /\ winner'[u] = winner[u]
    BY <1>1, <1>2, <1>3, <1>4
  <2>4. \A u \in Sources : u = at[a] /\ claims[u] = 1 =>
          /\ result[u] = winner'[u]
          /\ \A x \in Actors : Claims(x, u) => x = a
    BY <1>1, <1>2, <1>3, <1>4, <2>2 DEF ClaimsCounted
  <2> QED BY <1>1, <1>2, <1>3, <1>4, <2>1, <2>2, <2>3, <2>4 DEF ClaimsCounted
<1>15. GivenTheWinner'
  <2>1. Contested' = Contested
    BY <1>1, <1>2, <1>3, <1>4 DEF Contested
  <2>2. \A d \in Conts : Started(d) => pc[d] \notin {"unborn", "pending"}
    BY <1>1, <1>2, <1>3, <1>4 DEF RunsCounted, Started
  <2>3. \A d \in Conts : Started(d) => parent[d] \in Payloads /\ parent[d] # at[a]
    BY <1>1, <1>2, <1>3, <1>4, <2>2 DEF FindsParent
  <2> QED BY <1>1, <1>2, <1>3, <1>4, <2>1, <2>3 DEF GivenTheWinner, Started
<1> QED BY <1>5, <1>6, <1>7, <1>8, <1>9, <1>10, <1>11, <1>12, <1>13, <1>14, <1>15 DEF IInv

LEMMA CollapseLeftKeeps ==
  ASSUME IInv, TypeOK', NEW a \in Actors,
         CollapseLeft(a)
  PROVE  IInv'
<1> USE Actor
<1>1. /\ TypeOK /\ NoDuplicates /\ Kept /\ Carried /\ NotLost /\ RunsCounted /\ InCalls
      /\ HasResult /\ FindsParent /\ CompletesItself /\ ClaimsCounted /\ GivenTheWinner
  BY DEF IInv
<1>2. pc[a] = "collapse" /\ at[a] \in Sources /\ into[a] \in Sources /\ ~completed[at[a]]
  BY <1>1, AtPayload DEF CollapseLeft
<1>3. /\ Elements(<<>>) = {} /\ OnceEach(<<>>)
      /\ \A d \in Conts : d \notin Elements(batch[a])
  BY <1>1, <1>2, ElementsNone DEF Carried
<1>4. /\ UNCHANGED <<result, into, ret, claims, winner, observed, runs>>
      /\ \A q \in Payloads : completed'[q] = IF q = at[a] THEN TRUE ELSE completed[q]
      /\ \A q \in Payloads : redirect'[q] = IF q = at[a] THEN into[a] ELSE redirect[q]
      /\ \A q \in Payloads : conts'[q] = IF q = at[a] THEN <<>> ELSE conts[q]
      /\ \A x \in Actors : batch'[x] = IF x = a THEN conts[at[a]] ELSE batch[x]
      /\ \A x \in Actors : at'[x] = IF x = a THEN into[a] ELSE at[x]
      /\ pc'[a] \in {"dispatch", "add"} /\ (conts[at[a]] # <<>> => pc'[a] = "add")
      /\ \A x \in Actors : x # a => pc'[x] = pc[x]
      /\ \A d \in Conts : parent'[d] = IF d \in Elements(conts[at[a]]) THEN into[a] ELSE parent[d]
  BY <1>1, <1>2, <1>3 DEF CollapseLeft, TakeContinuations, Reparent, TypeOK, payloadVars,
     contVars, actorVars, historyVars
<1>5. NoDuplicates'
  BY <1>1, <1>2, <1>3, <1>4 DEF NoDuplicates
<1>6. Kept'
  <2>1. \A d \in Conts, q \in Payloads :
          d \in Elements(conts'[q]) <=> q # at[a] /\ d \in Elements(conts[q])
    BY <1>1, <1>2, <1>3, <1>4
  <2>2. \A d \in Conts, x \in Actors :
          d \in Elements(batch'[x]) <=> \/ x = a /\ d \in Elements(conts[at[a]])
                                        \/ x # a /\ d \in Elements(batch[x])
    BY <1>1, <1>2, <1>3, <1>4
  <2>3. \A d \in Conts : pc'[d] = "pending" <=> pc[d] = "pending"
    BY <1>1, <1>2, <1>3, <1>4
  <2>4. \A d \in Conts, q \in Payloads : d \in Elements(conts[q]) =>
          pc[d] = "pending" /\ parent[d] = q /\ ~completed[q]
            /\ \A x \in Actors : d \notin Elements(batch[x])
    BY <1>1 DEF Kept
  <2>5. \A q \in Payloads : q # at[a] => completed'[q] = completed[q]
    BY <1>4
  <2>6. \A d \in Conts, q \in Payloads : q # at[a] /\ d \in Elements(conts[q]) =>
          parent'[d] = parent[d]
    BY <1>1, <1>2, <1>4, <2>4
  <2>7. ASSUME NEW d \in Conts, NEW q \in Payloads, d \in Elements(conts'[q])
        PROVE  /\ pc'[d] = "pending" /\ ~completed'[q] /\ parent'[d] = q
               /\ \A x \in Actors : d \notin Elements(batch'[x])
    <3>1. q # at[a] /\ d \in Elements(conts[q])
      BY <2>1, <2>7
    <3>2. pc[d] = "pending" /\ parent[d] = q /\ ~completed[q]
            /\ \A x \in Actors : d \notin Elements(batch[x])
      BY <2>4, <3>1
    <3>3. d \notin Elements(conts[at[a]])
      BY <1>2, <2>4, <3>1, <3>2
    <3> QED BY <2>2, <2>3, <2>5, <2>6, <3>1, <3>2, <3>3
  <2> QED BY <2>7 DEF Kept
<1>7. Carried'
  <2>1. \A d \in Conts, q \in Payloads :
          d \in Elements(conts'[q]) <=> q # at[a] /\ d \in Elements(conts[q])
    BY <1>1, <1>2, <1>3, <1>4
  <2>2. \A d \in Conts, x \in Actors :
          d \in Elements(batch'[x]) <=> \/ x = a /\ d \in Elements(conts[at[a]])
                                        \/ x # a /\ d \in Elements(batch[x])
    BY <1>1, <1>2, <1>3, <1>4
  <2>3. \A d \in Conts : pc'[d] = "pending" <=> pc[d] = "pending"
    BY <1>1, <1>2, <1>3, <1>4
  <2>4. \A d \in Conts : d \in Elements(conts[at[a]]) =>
          pc[d] = "pending" /\ parent[d] = at[a] /\ \A x \in Actors : d \notin Elements(batch[x])
    BY <1>1, <1>2 DEF Kept
  <2>5. \A d \in Conts, x \in Actors : d \in Elements(batch[x]) =>
          /\ x # a /\ pc[d] = "pending" /\ pc[x] \in {"add", "dispatch", "await"}
               /\ parent[d] = at[x]
          /\ \A y \in Actors \ {x} : d \notin Elements(batch[y])
    BY <1>1, <1>3 DEF Carried
  <2>6. pc'[a] \in {"add", "dispatch"} /\ \A x \in Actors : x # a => pc'[x] = pc[x]
          /\ at'[x] = at[x]
    BY <1>4
  <2>7. \A d \in Conts : d \in Elements(conts[at[a]]) => parent'[d] = at'[a]
    BY <1>4, <2>4
  <2>8. \A d \in Conts : d \notin Elements(conts[at[a]]) => parent'[d] = parent[d]
    BY <1>4
  <2> QED BY <2>2, <2>3, <2>4, <2>5, <2>6, <2>7, <2>8 DEF Carried
<1>8. NotLost'
  <2>1. \A d \in Conts, q \in Payloads :
          d \in Elements(conts'[q]) <=> q # at[a] /\ d \in Elements(conts[q])
    BY <1>1, <1>2, <1>3, <1>4
  <2>2. \A d \in Conts, x \in Actors :
          d \in Elements(batch'[x]) <=> \/ x = a /\ d \in Elements(conts[at[a]])
                                        \/ x # a /\ d \in Elements(batch[x])
    BY <1>1, <1>2, <1>3, <1>4
  <2>3. \A d \in Conts : pc'[d] = "pending" <=> pc[d] = "pending"
    BY <1>1, <1>2, <1>3, <1>4
  <2> QED BY <1>1, <1>2, <1>3, <2>1, <2>2, <2>3 DEF NotLost
<1>9. RunsCounted'
  BY <1>1, <1>2, <1>3, <1>4 DEF RunsCounted
<1>10. InCalls'
  <2>1. \A q \in Payloads : q # at[a] => completed'[q] = completed[q] /\ redirect'[q] = redirect[q]
    BY <1>4
  <2>2. /\ at'[a] \in Payloads /\ pc'[a] \in {"dispatch", "add"}
        /\ pc'[a] = "dispatch" => batch'[a] = <<>>
    BY <1>2, <1>4
  <2>3. \A x \in Actors : x # a => pc'[x] = pc[x] /\ batch'[x] = batch[x] /\ at'[x] = at[x]
    BY <1>4
  <2>4. into' = into /\ result' = result
    BY <1>4
  <2>5. \A x \in Actors :
          pc'[x] \in {"add", "dispatch", "await", "cannibalize", "collapse"} => at'[x] \in Payloads
    BY <1>1, <2>2, <2>3, <2>4 DEF InCalls
  <2>6. \A x \in Actors : pc'[x] = "collapse" => at'[x] \in Sources /\ into'[x] \in Sources
    BY <1>1, <2>2, <2>3, <2>4 DEF InCalls
  <2>7. ASSUME NEW x \in Actors, pc'[x] \in {"dispatch", "await"}, batch'[x] # <<>>
        PROVE  completed'[at'[x]] /\ redirect'[at'[x]] = NoTask
    <3>1. CASE x = a
      BY <1>2, <2>2, <2>7, <3>1
    <3>2. CASE x # a
      <4>1. pc[x] \in {"dispatch", "await"} /\ batch[x] # <<>> /\ at'[x] = at[x]
        BY <2>3, <2>4, <2>7, <3>2
      <4>2. at[x] \in Payloads /\ completed[at[x]] /\ redirect[at[x]] = NoTask
        BY <1>1, <4>1 DEF InCalls
      <4> QED BY <1>2, <2>1, <2>4, <4>1, <4>2
    <3> QED BY <3>1, <3>2
  <2>8. \A x \in Actors : pc'[x] = "cannibalize" => result'[at'[x]] # NoResult
    BY <1>1, <2>2, <2>3, <2>4 DEF InCalls
  <2> QED BY <2>5, <2>6, <2>7, <2>8 DEF InCalls
<1>11. HasResult'
  <2>1. \A q \in Payloads : q # at[a] => completed'[q] = completed[q] /\ redirect'[q] = redirect[q]
    BY <1>4
  <2>2. into[a] # NoTask /\ at[a] \in Payloads
    BY <1>2
  <2>3. completed'[at[a]] /\ redirect'[at[a]] = into[a] /\ result' = result
    BY <1>4, <2>2
  <2> QED BY <1>1, <2>1, <2>2, <2>3 DEF HasResult
<1>12. FindsParent'
  <2>1. \A d \in Conts : pc'[d] \notin {"unborn", "pending"} =>
          pc[d] \notin {"unborn", "pending"} /\ parent'[d] = parent[d]
    <3>1. \A d \in Conts : d \in Elements(conts[at[a]]) => pc[d] = "pending" /\ d # a
      BY <1>1, <1>2 DEF Kept
    <3>2. \A d \in Conts : pc'[d] = pc[d] \/ d = a
      BY <1>4
    <3> QED BY <1>2, <1>4, <3>1, <3>2
  <2>2. \A q \in Payloads : q # at[a] => completed'[q] = completed[q] /\ redirect'[q] = redirect[q]
    BY <1>4
  <2> QED BY <1>1, <1>2, <2>1, <2>2 DEF FindsParent
<1>13. CompletesItself'
  <2>1. \A x \in Actors : x # a => pc'[x] = pc[x] /\ at'[x] = at[x]
    BY <1>4
  <2>2. pc'[a] \in {"dispatch", "add"} /\ ret' = ret /\ result' = result /\ winner' = winner
    BY <1>4
  <2>3. a \in Conts => ret[a] # "done"
    BY <1>1, <1>2 DEF CompletesItself
  <2>4. \A d \in Conts : completed'[d] = completed[d]
    <3>1. \A d \in Conts : d # at[a]
      BY <1>2
    <3> QED BY <1>4, <3>1
  <2> QED BY <1>1, <2>1, <2>2, <2>3, <2>4 DEF CompletesItself
<1>14. ClaimsCounted'
  <2>1. \A x \in Actors, u \in Sources : Claims(x, u)' <=> x # a /\ Claims(x, u)
    BY <1>1, <1>2, <1>3, <1>4 DEF Claims
  <2>2. Claims(a, at[a]) /\ claims[at[a]] # 0
    BY <1>1, <1>2, <1>3, <1>4 DEF Claims, ClaimsCounted
  <2>3. claims[at[a]] = 1 => \A x \in Actors : Claims(x, at[a]) => x = a
    <3>1. at[a] \in Sources
      BY <1>2
    <3>2. claims[at[a]] = 1 => \A x, b \in Actors : Claims(x, at[a]) /\ Claims(b, at[a]) => b = x
      BY <1>1, <3>1 DEF ClaimsCounted
    <3> QED BY <2>2, <3>2
  <2>4. \A u \in Sources : u # at[a] => completed'[u] = completed[u] /\ redirect'[u] = redirect[u]
    BY <1>1, <1>2, <1>3, <1>4
  <2> QED BY <1>1, <1>2, <1>3, <1>4, <2>1, <2>2, <2>3, <2>4 DEF ClaimsCounted
<1>15. GivenTheWinner'
  <2>1. \A u \in Contested : u # at[a] => u \in Contested'
    BY <1>1, <1>2, <1>3, <1>4 DEF Contested
  <2>2. \A d \in Conts : Started(d) => pc[d] \notin {"unborn", "pending"}
    BY <1>1, <1>2, <1>3, <1>4 DEF RunsCounted, Started
  <2>3. \A d \in Conts : Started(d) =>
          parent[d] \in Payloads /\ parent[d] # at[a] /\ parent'[d] = parent[d]
    BY <1>1, <1>2, <1>3, <1>4, <2>2 DEF FindsParent, Kept
  <2> QED BY <1>1, <1>2, <1>3, <1>4, <2>1, <2>3 DEF GivenTheWinner, Started
<1> QED BY <1>5, <1>6, <1>7, <1>8, <1>9, <1>10, <1>11, <1>12, <1>13, <1>14, <1>15 DEF IInv

LEMMA RunInlineKeeps ==
  ASSUME IInv, TypeOK', NEW a \in Actors,
         RunInline(a)
  PROVE  IInv'
<1> USE Actor
<1>1. /\ TypeOK /\ NoDuplicates /\ Kept /\ Carried /\ NotLost /\ RunsCounted /\ InCalls
      /\ HasResult /\ FindsParent /\ CompletesItself /\ ClaimsCounted /\ GivenTheWinner
  BY DEF IInv
<1>2. pc[a] = "dispatch" /\ batch[a] # <<>> /\ Head(batch[a]) \in Conts
  BY <1>1, HeadOfBatch DEF RunInline
<1>3. Elements(Tail(batch[a])) = Elements(batch[a]) \ {Head(batch[a])} /\ OnceEach(Tail(batch[a]))
  BY <1>1, <1>2, HeadOfBatch
<1>4. PICK c \in Conts : c = Head(batch[a])
  BY <1>2
<1>5. /\ pc[c] = "pending" /\ parent[c] = at[a] /\ c # a /\ at[a] \in Payloads
      /\ completed[at[a]] /\ redirect[at[a]] = NoTask /\ runs[c] = 0
      /\ \A q \in Payloads : c \notin Elements(conts[q])
      /\ \A x \in Actors \ {a} : c \notin Elements(batch[x])
  <2>1. c \in Elements(batch[a])
    BY <1>1, <1>2, <1>4, HeadOfBatch
  <2>2. pc[c] = "pending" /\ parent[c] = at[a]
          /\ \A x \in Actors \ {a} : c \notin Elements(batch[x])
    BY <1>1, <2>1 DEF Carried
  <2>3. \A q \in Payloads : c \notin Elements(conts[q])
    BY <1>1, <2>1 DEF Kept
  <2>4. at[a] \in Payloads /\ completed[at[a]] /\ redirect[at[a]] = NoTask
    BY <1>1, <1>2 DEF InCalls
  <2>5. runs[c] = 0
    BY <1>1, <2>2 DEF RunsCounted
  <2> QED BY <1>2, <2>2, <2>3, <2>4, <2>5
<1>6. /\ UNCHANGED <<completed, redirect, conts, result, parent, at, into, ret, claims, winner>>
      /\ \A x \in Actors : pc'[x] = IF x = a THEN "await" ELSE IF x = c THEN "running" ELSE pc[x]
      /\ \A x \in Actors : batch'[x] = IF x = a THEN Tail(batch[a]) ELSE batch[x]
      /\ \A d \in Conts : observed'[d] = IF d = c THEN result[parent[c]] ELSE observed[d]
      /\ \A d \in Conts : runs'[d] = IF d = c THEN 1 ELSE runs[d]
  BY <1>1, <1>2, <1>3, <1>4, <1>5 DEF RunInline, Begin, Rest, TypeOK, payloadVars, contVars,
     actorVars, historyVars
<1>7. NoDuplicates'
  BY <1>1, <1>2, <1>3, <1>4, <1>5, <1>6 DEF NoDuplicates
<1>8. Kept'
  <2>1. \A d \in Conts, x \in Actors :
          d \in Elements(batch'[x]) <=> d \in Elements(batch[x]) /\ (d # c \/ x # a)
    BY <1>1, <1>2, <1>3, <1>4, <1>5, <1>6
  <2>2. \A d \in Conts : pc'[d] = "pending" <=> pc[d] = "pending" /\ d # c
    BY <1>1, <1>2, <1>3, <1>4, <1>5, <1>6
  <2>3. \A d \in Conts, q \in Payloads : d \in Elements(conts[q]) => d # c
    BY <1>5
  <2> QED BY <1>1, <1>6, <2>1, <2>2, <2>3 DEF Kept
<1>9. Carried'
  <2>1. \A d \in Conts, x \in Actors :
          d \in Elements(batch'[x]) <=> d \in Elements(batch[x]) /\ (d # c \/ x # a)
    BY <1>1, <1>2, <1>3, <1>4, <1>5, <1>6
  <2>2. \A d \in Conts : pc'[d] = "pending" <=> pc[d] = "pending" /\ d # c
    BY <1>1, <1>2, <1>3, <1>4, <1>5, <1>6
  <2> QED BY <1>1, <1>2, <1>3, <1>4, <1>5, <1>6, <2>1, <2>2 DEF Carried
<1>10. NotLost'
  <2>1. \A d \in Conts, x \in Actors :
          d \in Elements(batch'[x]) <=> d \in Elements(batch[x]) /\ (d # c \/ x # a)
    BY <1>1, <1>2, <1>3, <1>4, <1>5, <1>6
  <2>2. \A d \in Conts : pc'[d] = "pending" <=> pc[d] = "pending" /\ d # c
    BY <1>1, <1>2, <1>3, <1>4, <1>5, <1>6
  <2> QED BY <1>1, <1>2, <1>3, <1>4, <1>5, <1>6, <2>1, <2>2 DEF NotLost
<1>11. RunsCounted'
  BY <1>1, <1>2, <1>3, <1>4, <1>5, <1>6 DEF RunsCounted
<1>12. InCalls'
  BY <1>1, <1>2, <1>3, <1>4, <1>5, <1>6 DEF InCalls
<1>13. HasResult'
  BY <1>1, <1>2, <1>3, <1>4, <1>5, <1>6 DEF HasResult
<1>14. FindsParent'
  BY <1>1, <1>2, <1>3, <1>4, <1>5, <1>6 DEF FindsParent
<1>15. CompletesItself'
  BY <1>1, <1>2, <1>3, <1>4, <1>5, <1>6 DEF CompletesItself
<1>16. ClaimsCounted'
  <2>1. \A x \in Actors, u \in Sources : Claims(x, u)' <=> Claims(x, u)
    BY <1>1, <1>2, <1>3, <1>4, <1>5, <1>6 DEF Claims
  <2> QED BY <1>1, <1>2, <1>3, <1>4, <1>5, <1>6, <2>1 DEF ClaimsCounted
<1>17. GivenTheWinner'
  <2>1. Contested' = Contested
    BY <1>1, <1>2, <1>3, <1>4, <1>5, <1>6 DEF Contested
  <2>2. result[parent[c]] # NoResult
    BY <1>1, <1>2, <1>3, <1>4, <1>5, <1>6 DEF HasResult
  <2>3. parent[c] \notin Contested => result[parent[c]] = winner[parent[c]]
    <3>1. CASE parent[c] \in Conts
      BY <1>1, <1>2, <1>3, <1>4, <1>5, <1>6, <3>1 DEF CompletesItself
    <3>2. CASE parent[c] \in Sources
      <4>1. claims[parent[c]] # 0
        BY <1>1, <1>2, <1>3, <1>4, <1>5, <1>6, <3>2 DEF ClaimsCounted
      <4>2. parent[c] \notin Contested => claims[parent[c]] = 1
        <5>1. claims[parent[c]] \in 0 .. MaxClaims
          BY <1>1, <3>2 DEF TypeOK
        <5>2. redirect[parent[c]] = NoTask
          BY <1>1, <1>2, <1>3, <1>4, <1>5, <1>6
        <5> QED BY <3>2, <4>1, <5>1, <5>2 DEF Contested
      <4> QED BY <1>1, <1>2, <1>3, <1>4, <1>5, <1>6, <3>2, <4>2 DEF ClaimsCounted
    <3> QED BY <1>1, <1>2, <1>3, <1>4, <1>5, <1>6, <3>1, <3>2
  <2>4. \A d \in Conts : d # c /\ Started(d)' => Started(d) /\ observed'[d] = observed[d]
    BY <1>1, <1>2, <1>3, <1>4, <1>5, <1>6 DEF Started
  <2> QED BY <1>1, <1>2, <1>3, <1>4, <1>5, <1>6, <2>1, <2>2, <2>3, <2>4 DEF GivenTheWinner
<1> QED BY <1>7, <1>8, <1>9, <1>10, <1>11, <1>12, <1>13, <1>14, <1>15, <1>16, <1>17 DEF IInv

LEMMA QueueRunKeeps ==
  ASSUME IInv, TypeOK', NEW a \in Actors,
         QueueRun(a)
  PROVE  IInv'
<1> USE Actor
<1>1. /\ TypeOK /\ NoDuplicates /\ Kept /\ Carried /\ NotLost /\ RunsCounted /\ InCalls
      /\ HasResult /\ FindsParent /\ CompletesItself /\ ClaimsCounted /\ GivenTheWinner
  BY DEF IInv
<1>2. pc[a] = "dispatch" /\ batch[a] # <<>> /\ Head(batch[a]) \in Conts
  BY <1>1, HeadOfBatch DEF QueueRun
<1>3. Elements(Tail(batch[a])) = Elements(batch[a]) \ {Head(batch[a])} /\ OnceEach(Tail(batch[a]))
  BY <1>1, <1>2, HeadOfBatch
<1>4. PICK c \in Conts : c = Head(batch[a])
  BY <1>2
<1>5. /\ pc[c] = "pending" /\ parent[c] = at[a] /\ c # a /\ at[a] \in Payloads
      /\ completed[at[a]] /\ redirect[at[a]] = NoTask /\ runs[c] = 0
      /\ \A q \in Payloads : c \notin Elements(conts[q])
      /\ \A x \in Actors \ {a} : c \notin Elements(batch[x])
  <2>1. c \in Elements(batch[a])
    BY <1>1, <1>2, <1>4, HeadOfBatch
  <2>2. pc[c] = "pending" /\ parent[c] = at[a]
          /\ \A x \in Actors \ {a} : c \notin Elements(batch[x])
    BY <1>1, <2>1 DEF Carried
  <2>3. \A q \in Payloads : c \notin Elements(conts[q])
    BY <1>1, <2>1 DEF Kept
  <2>4. at[a] \in Payloads /\ completed[at[a]] /\ redirect[at[a]] = NoTask
    BY <1>1, <1>2 DEF InCalls
  <2>5. runs[c] = 0
    BY <1>1, <2>2 DEF RunsCounted
  <2> QED BY <1>2, <2>2, <2>3, <2>4, <2>5
<1>6. /\ UNCHANGED <<completed, redirect, conts, result, parent, at, into, ret, claims, winner,
                     observed, runs>>
      /\ \A x \in Actors : pc'[x] = IF x = c THEN "queued" ELSE pc[x]
      /\ \A x \in Actors : batch'[x] = IF x = a THEN Tail(batch[a]) ELSE batch[x]
  BY <1>1, <1>2, <1>3, <1>4, <1>5 DEF QueueRun, Rest, TypeOK, payloadVars, contVars, actorVars,
     historyVars
<1>7. NoDuplicates'
  BY <1>1, <1>2, <1>3, <1>4, <1>5, <1>6 DEF NoDuplicates
<1>8. Kept'
  <2>1. \A d \in Conts, x \in Actors :
          d \in Elements(batch'[x]) <=> d \in Elements(batch[x]) /\ (d # c \/ x # a)
    BY <1>1, <1>2, <1>3, <1>4, <1>5, <1>6
  <2>2. \A d \in Conts : pc'[d] = "pending" <=> pc[d] = "pending" /\ d # c
    BY <1>1, <1>2, <1>3, <1>4, <1>5, <1>6
  <2>3. \A d \in Conts, q \in Payloads : d \in Elements(conts[q]) => d # c
    BY <1>5
  <2> QED BY <1>1, <1>6, <2>1, <2>2, <2>3 DEF Kept
<1>9. Carried'
  <2>1. \A d \in Conts, x \in Actors :
          d \in Elements(batch'[x]) <=> d \in Elements(batch[x]) /\ (d # c \/ x # a)
    BY <1>1, <1>2, <1>3, <1>4, <1>5, <1>6
  <2>2. \A d \in Conts : pc'[d] = "pending" <=> pc[d] = "pending" /\ d # c
    BY <1>1, <1>2, <1>3, <1>4, <1>5, <1>6
  <2> QED BY <1>1, <1>2, <1>3, <1>4, <1>5, <1>6, <2>1, <2>2 DEF Carried
<1>10. NotLost'
  <2>1. \A d \in Conts, x \in Actors :
          d \in Elements(batch'[x]) <=> d \in Elements(batch[x]) /\ (d # c \/ x # a)
    BY <1>1, <1>2, <1>3, <1>4, <1>5, <1>6
  <2>2. \A d \in Conts : pc'[d] = "pending" <=> pc[d] = "pending" /\ d # c
    BY <1>1, <1>2, <1>3, <1>4, <1>5, <1>6
  <2> QED BY <1>1, <1>2, <1>3, <1>4, <1>5, <1>6, <2>1, <2>2 DEF NotLost
<1>11. RunsCounted'
  BY <1>1, <1>2, <1>3, <1>4, <1>5, <1>6 DEF RunsCounted
<1>12. InCalls'
  BY <1>1, <1>2, <1>3, <1>4, <1>5, <1>6 DEF InCalls
<1>13. HasResult'
  BY <1>1, <1>2, <1>3, <1>4, <1>5, <1>6 DEF HasResult
<1>14. FindsParent'
  BY <1>1, <1>2, <1>3, <1>4, <1>5, <1>6 DEF FindsParent
<1>15. CompletesItself'
  BY <1>1, <1>2, <1>3, <1>4, <1>5, <1>6 DEF CompletesItself
<1>16. ClaimsCounted'
  <2>1. \A x \in Actors, u \in Sources : Claims(x, u)' <=> Claims(x, u)
    BY <1>1, <1>2, <1>3, <1>4, <1>5, <1>6 DEF Claims
  <2> QED BY <1>1, <1>2, <1>3, <1>4, <1>5, <1>6, <2>1 DEF ClaimsCounted
<1>17. GivenTheWinner'
  <2>1. Contested' = Contested
    BY <1>1, <1>2, <1>3, <1>4, <1>5, <1>6 DEF Contested
  <2> QED BY <1>1, <1>2, <1>3, <1>4, <1>5, <1>6, <2>1 DEF GivenTheWinner, Started
<1> QED BY <1>7, <1>8, <1>9, <1>10, <1>11, <1>12, <1>13, <1>14, <1>15, <1>16, <1>17 DEF IInv

LEMMA StartQueuedKeeps ==
  ASSUME IInv, TypeOK', NEW c \in Conts,
         StartQueued(c)
  PROVE  IInv'
<1> USE Actor
<1>1. /\ TypeOK /\ NoDuplicates /\ Kept /\ Carried /\ NotLost /\ RunsCounted /\ InCalls
      /\ HasResult /\ FindsParent /\ CompletesItself /\ ClaimsCounted /\ GivenTheWinner
  BY DEF IInv
<1>2. /\ pc[c] = "queued" /\ runs[c] = 0 /\ parent[c] \in Payloads
      /\ completed[parent[c]] /\ redirect[parent[c]] = NoTask
  BY <1>1 DEF StartQueued, RunsCounted, FindsParent
<1>3. /\ UNCHANGED <<completed, redirect, conts, result, parent, at, into, batch, ret, claims,
                     winner>>
      /\ \A x \in Actors : pc'[x] = IF x = c THEN "running" ELSE pc[x]
      /\ \A d \in Conts : observed'[d] = IF d = c THEN result[parent[c]] ELSE observed[d]
      /\ \A d \in Conts : runs'[d] = IF d = c THEN 1 ELSE runs[d]
  BY <1>1, <1>2 DEF StartQueued, Begin, TypeOK, payloadVars, contVars, actorVars, historyVars
<1>4. NoDuplicates'
  BY <1>1, <1>2, <1>3 DEF NoDuplicates
<1>5. Kept'
  BY <1>1, <1>2, <1>3 DEF Kept
<1>6. Carried'
  BY <1>1, <1>2, <1>3 DEF Carried
<1>7. NotLost'
  BY <1>1, <1>2, <1>3 DEF NotLost
<1>8. RunsCounted'
  <2>1. runs'[c] = 1 /\ pc'[c] = "running"
    BY <1>3
  <2>2. \A d \in Conts : d # c => runs'[d] = runs[d] /\ pc'[d] = pc[d]
    BY <1>3
  <2> QED BY <1>1, <2>1, <2>2 DEF RunsCounted
<1>9. InCalls'
  BY <1>1, <1>2, <1>3 DEF InCalls
<1>10. HasResult'
  BY <1>1, <1>2, <1>3 DEF HasResult
<1>11. FindsParent'
  BY <1>1, <1>2, <1>3 DEF FindsParent
<1>12. CompletesItself'
  BY <1>1, <1>2, <1>3 DEF CompletesItself
<1>13. ClaimsCounted'
  <2>1. \A x \in Actors, u \in Sources : Claims(x, u)' <=> Claims(x, u)
    BY <1>1, <1>2, <1>3 DEF Claims
  <2> QED BY <1>1, <1>2, <1>3, <2>1 DEF ClaimsCounted
<1>14. GivenTheWinner'
  <2>1. Contested' = Contested
    BY <1>1, <1>2, <1>3 DEF Contested
  <2>2. result[parent[c]] # NoResult
    BY <1>1, <1>2, <1>3 DEF HasResult
  <2>3. parent[c] \notin Contested => result[parent[c]] = winner[parent[c]]
    <3>1. CASE parent[c] \in Conts
      BY <1>1, <1>2, <1>3, <3>1 DEF CompletesItself
    <3>2. CASE parent[c] \in Sources
      <4>1. claims[parent[c]] # 0
        BY <1>1, <1>2, <1>3, <3>2 DEF ClaimsCounted
      <4>2. parent[c] \notin Contested => claims[parent[c]] = 1
        <5>1. claims[parent[c]] \in 0 .. MaxClaims
          BY <1>1, <3>2 DEF TypeOK
        <5>2. redirect[parent[c]] = NoTask
          BY <1>1, <1>2, <1>3
        <5> QED BY <3>2, <4>1, <5>1, <5>2 DEF Contested
      <4> QED BY <1>1, <1>2, <1>3, <3>2, <4>2 DEF ClaimsCounted
    <3> QED BY <1>1, <1>2, <1>3, <3>1, <3>2
  <2>4. \A d \in Conts : d # c /\ Started(d)' => Started(d) /\ observed'[d] = observed[d]
    BY <1>1, <1>2, <1>3 DEF Started
  <2> QED BY <1>1, <1>2, <1>3, <2>1, <2>2, <2>3, <2>4 DEF GivenTheWinner
<1> QED BY <1>4, <1>5, <1>6, <1>7, <1>8, <1>9, <1>10, <1>11, <1>12, <1>13, <1>14 DEF IInv

-----------------------------------------------------------------------------
THEOREM Invariant == Spec => []IInv
<1>1. Init => IInv
  BY InitInv
<1>2. IInv /\ [Next]_vars => IInv'
  <2> SUFFICES ASSUME IInv, [Next]_vars PROVE IInv'
    OBVIOUS
  <2>1. TypeOK'
    BY TypeStep DEF IInv
  <2>2. CASE UNCHANGED vars
    BY <2>2 DEF vars, payloadVars, contVars, actorVars, historyVars, IInv, TypeOK, NoDuplicates,
                Kept, Carried, NotLost, RunsCounted, InCalls, HasResult, FindsParent,
                CompletesItself, ClaimsCounted, Claims, GivenTheWinner, Started, Contested
  <2>3. ASSUME NEW a \in Actors, NEW c \in Conts, NEW p \in Payloads, NEW inl \in BOOLEAN,
               Then(a, c, p, inl)
        PROVE  IInv'
    BY <2>1, <2>3, ThenKeeps
  <2>4. ASSUME NEW a \in Actors, NEW s \in Sources, Complete(a, s) PROVE IInv'
    BY <2>1, <2>4, CompleteKeeps
  <2>5. ASSUME NEW a \in Actors, NEW l \in Sources, NEW r \in Sources, Collapse(a, l, r) PROVE IInv'
    BY <2>1, <2>5, CollapseKeeps
  <2>6. ASSUME NEW a \in Actors,
               Forward(a) \/ Store(a) \/ RunIt(a) \/ Cannibalize(a) \/ Reject(a) \/ CollapseLeft(a)
        PROVE  IInv'
    BY <2>1, <2>6, ForwardKeeps, StoreKeeps, RunItKeeps, CannibalizeKeeps, RejectKeeps,
       CollapseLeftKeeps
  <2>7. ASSUME NEW a \in Actors, RunInline(a) \/ InlineReturns(a) \/ QueueRun(a) \/ CallReturns(a)
        PROVE  IInv'
    BY <2>1, <2>7, RunInlineKeeps, InlineReturnsKeeps, QueueRunKeeps, CallReturnsKeeps
  <2>8. ASSUME NEW c \in Conts, StartQueued(c) \/ Finish(c) PROVE IInv'
    BY <2>1, <2>8, StartQueuedKeeps, FinishKeeps
  <2> QED BY <2>2, <2>3, <2>4, <2>5, <2>6, <2>7, <2>8, Steps
<1> QED BY <1>1, <1>2, PTL DEF Spec

(* Whatever calls race, the variables keep to their types.                  *)
THEOREM TypeCorrect == Spec => []TypeOK
<1>1. IInv => TypeOK
  BY DEF IInv
<1> QED BY <1>1, Invariant, PTL

(* Whatever completions, unwrappings and additions race, a continuation     *)
(* runs once at most, and until it does it is in one place: a payload that  *)
(* is incomplete and its parent, or the hands of one actor.                 *)
THEOREM OnceAndNotLost == Spec => []RunsOnce
<1>1. IInv => RunsOnce
  <2> SUFFICES ASSUME IInv, NEW c \in Conts
               PROVE  /\ runs[c] <= 1
                      /\ pc[c] = "pending" =>
                           \/ \E p \in Payloads :
                                /\ Holders(c) = {p} /\ Carriers(c) = {}
                                /\ ~completed[p] /\ parent[c] = p
                           \/ \E a \in Actors : Carriers(c) = {a} /\ Holders(c) = {}
                      /\ pc[c] # "pending" => Holders(c) = {} /\ Carriers(c) = {}
    BY DEF RunsOnce
  <2> USE Actor
  <2>1. Kept /\ Carried /\ NotLost /\ RunsCounted
    BY DEF IInv
  <2>2. runs[c] <= 1
    BY <2>1 DEF RunsCounted
  <2>3. ASSUME NEW p \in Payloads, c \in Elements(conts[p])
        PROVE  Holders(c) = {p} /\ Carriers(c) = {} /\ ~completed[p] /\ parent[c] = p
    <3>1. ~completed[p] /\ parent[c] = p /\ \A a \in Actors : c \notin Elements(batch[a])
      BY <2>1, <2>3 DEF Kept
    <3>2. \A q \in Payloads : c \in Elements(conts[q]) => parent[c] = q
      BY <2>1 DEF Kept
    <3> QED BY <2>3, <3>1, <3>2 DEF Holders, Carriers
  <2>4. ASSUME NEW a \in Actors, c \in Elements(batch[a])
        PROVE  Carriers(c) = {a} /\ Holders(c) = {}
    <3>1. \A b \in Actors \ {a} : c \notin Elements(batch[b])
      BY <2>1, <2>4 DEF Carried
    <3>2. \A q \in Payloads : c \notin Elements(conts[q])
      BY <2>1, <2>4 DEF Kept
    <3> QED BY <2>4, <3>1, <3>2 DEF Holders, Carriers
  <2>5. ASSUME pc[c] # "pending" PROVE Holders(c) = {} /\ Carriers(c) = {}
    BY <2>1, <2>5 DEF Kept, Carried, Holders, Carriers
  <2>6. pc[c] = "pending" =>
          \/ \E p \in Payloads : c \in Elements(conts[p])
          \/ \E a \in Actors : c \in Elements(batch[a])
    BY <2>1 DEF NotLost
  <2> QED BY <2>2, <2>3, <2>4, <2>5, <2>6
<1> QED BY <1>1, Invariant, PTL

(* A continuation that is queued or started finds its parent complete, with *)
(* a result, and no stand-in; unless another call competed to complete that *)
(* source, what it is given is the result of the accepted completion.       *)
THEOREM GivenWhatWasAccepted == Spec => []ObservesWinner
<1>1. IInv => ObservesWinner
  <2> SUFFICES ASSUME IInv, NEW c \in Conts
               PROVE  /\ Started(c) \/ pc[c] = "queued" => ResultIsThere(c)
                      /\ Started(c) /\ parent[c] \notin Contested =>
                           observed[c] = winner[parent[c]] /\ observed[c] # NoResult
    BY DEF ObservesWinner
  <2> USE Actor
  <2>1. RunsCounted /\ FindsParent /\ HasResult /\ GivenTheWinner
    BY DEF IInv
  <2>2. Started(c) \/ pc[c] = "queued" => pc[c] \notin {"unborn", "pending"}
    BY <2>1 DEF RunsCounted, Started
  <2>3. Started(c) \/ pc[c] = "queued" => ResultIsThere(c)
    BY <2>1, <2>2 DEF FindsParent, HasResult, ResultIsThere
  <2> QED BY <2>1, <2>3 DEF GivenTheWinner
<1> QED BY <1>1, Invariant, PTL

-----------------------------------------------------------------------------
(* The payloads keep the promise of a task.                                  *)

(* A task is only ever unwrapped into another one. *)
Ahead == \A a \in Actors : pc[a] = "collapse" => at[a] # into[a]

LEMMA AheadStep ==
  ASSUME TypeOK, Ahead, [Next]_vars
  PROVE  Ahead'
<1> USE Actor
<1>1. SUFFICES ASSUME NEW a \in Actors, pc'[a] = "collapse" PROVE at'[a] # into'[a]
  BY DEF Ahead
<1>2. pc[a] = "collapse" => at[a] # into[a]
  BY DEF Ahead
<1>3. ASSUME NEW b \in Actors, NEW c \in Conts, NEW p \in Payloads, NEW inl \in BOOLEAN,
             Then(b, c, p, inl)
      PROVE  at'[a] # into'[a]
  BY <1>1, <1>2, <1>3 DEF Then, TypeOK
<1>4. ASSUME NEW b \in Actors, NEW s \in Sources, Complete(b, s) PROVE at'[a] # into'[a]
  BY <1>1, <1>2, <1>4 DEF Complete, TypeOK
<1>5. ASSUME NEW b \in Actors, NEW l \in Sources, NEW r \in Sources, Collapse(b, l, r)
      PROVE  at'[a] # into'[a]
  BY <1>1, <1>2, <1>5 DEF Collapse, TypeOK
<1>6. ASSUME NEW b \in Actors, Forward(b) \/ Store(b) \/ RunIt(b) PROVE at'[a] # into'[a]
  BY <1>1, <1>2, <1>6 DEF Forward, Store, RunIt, TypeOK, payloadVars, actorVars
<1>7. ASSUME NEW b \in Actors, Cannibalize(b) \/ Reject(b) \/ CollapseLeft(b) \/ CallReturns(b)
      PROVE  at'[a] # into'[a]
  BY <1>1, <1>2, <1>7 DEF Cannibalize, Reject, CollapseLeft, CallReturns, TypeOK
<1>8. ASSUME NEW b \in Actors, RunInline(b) \/ InlineReturns(b) \/ QueueRun(b)
      PROVE  at'[a] # into'[a]
  BY <1>1, <1>2, <1>8 DEF RunInline, InlineReturns, QueueRun, TypeOK
<1>9. ASSUME NEW c \in Conts, StartQueued(c) \/ Finish(c) PROVE at'[a] # into'[a]
  BY <1>1, <1>2, <1>9 DEF StartQueued, Finish, TypeOK
<1>10. CASE UNCHANGED vars
  BY <1>1, <1>2, <1>10 DEF vars, actorVars
<1> QED BY <1>3, <1>4, <1>5, <1>6, <1>7, <1>8, <1>9, <1>10, Steps

LEMMA Stutters ==
  ASSUME parent' = parent, redirect' = redirect, completed' = completed, runs' = runs,
         \A c \in Conts : pc'[c] = "unborn" <=> pc[c] = "unborn"
  PROVE  UNCHANGED Promise!vars
BY DEF Promise!vars, Existing, Started

LEMMA CallsStutter ==
  ASSUME IInv, NEW a \in Actors,
         \/ \E s \in Sources : Complete(a, s)
         \/ \E l, r \in Sources : Collapse(a, l, r)
         \/ Store(a) \/ RunIt(a) \/ Reject(a) \/ InlineReturns(a) \/ QueueRun(a) \/ CallReturns(a)
         \/ a \in Conts /\ Finish(a)
  PROVE  UNCHANGED Promise!vars
<1> USE Actor
<1>1. pc \in [Actors -> PcStates] /\ ret[a] # "unborn" /\ batch[a] \in Seq(Conts)
  BY DEF IInv, TypeOK
<1>2. /\ UNCHANGED <<parent, redirect, completed, runs>>
      /\ \A c \in Conts : pc'[c] = "unborn" <=> pc[c] = "unborn"
  <2>1. ASSUME NEW s \in Sources, Complete(a, s) PROVE <1>2
    BY <1>1, <2>1 DEF Complete, CanCall, contVars
  <2>2. ASSUME NEW l \in Sources, NEW r \in Sources, Collapse(a, l, r) PROVE <1>2
    BY <1>1, <2>2 DEF Collapse, CanCall, contVars, payloadVars
  <2>3. CASE Store(a) \/ RunIt(a) \/ Reject(a)
    BY <1>1, <2>3 DEF Store, RunIt, Reject, contVars, payloadVars, historyVars
  <2>4. CASE InlineReturns(a) \/ CallReturns(a)
    BY <1>1, <2>4 DEF InlineReturns, CallReturns, contVars, payloadVars, historyVars
  <2>5. CASE a \in Conts /\ Finish(a)
    BY <1>1, <2>5 DEF Finish, contVars, historyVars
  <2>6. CASE QueueRun(a)
    <3>1. Head(batch[a]) \in Conts /\ pc[Head(batch[a])] = "pending"
      BY <2>6, HeadOfBatch, AtPayload DEF QueueRun, Carried, IInv
    <3> QED BY <1>1, <2>6, <3>1 DEF QueueRun, contVars, payloadVars, historyVars
  <2> QED BY <2>1, <2>2, <2>3, <2>4, <2>5, <2>6
<1> QED BY <1>2, Stutters

LEMMA ThenContinues ==
  ASSUME IInv, NEW a \in Actors, NEW c \in Conts, NEW p \in Payloads, NEW inl \in BOOLEAN,
         Then(a, c, p, inl)
  PROVE  Promise!Continue(c, p)
<1> USE Actor
<1>1. TypeOK /\ pc[a] # "unborn" /\ pc[c] = "unborn" /\ p \in Existing
  BY DEF IInv, Then, CanCall
<1>2. /\ UNCHANGED <<redirect, completed, runs>>
      /\ parent' = [d \in Conts |-> IF d = c THEN p ELSE parent[d]]
      /\ \A d \in Conts : pc'[d] = "unborn" <=> d # c /\ pc[d] = "unborn"
  BY <1>1 DEF Then, Reparent, TypeOK, payloadVars, historyVars
<1>3. c \notin Existing /\ Existing' = Existing \cup {c}
  BY <1>1, <1>2 DEF Existing
<1>4. {d \in Conts : Started(d)}' = {d \in Conts : Started(d)}
  BY <1>2 DEF Started
<1> QED BY <1>1, <1>2, <1>3, <1>4 DEF Promise!Continue

LEMMA BeginRuns ==
  ASSUME IInv, NEW c \in Conts, Begin(c), UNCHANGED <<parent, redirect, completed>>,
         pc[c] \in {"pending", "queued"}, parent[c] \in Payloads,
         completed[parent[c]], redirect[parent[c]] = NoTask,
         \A d \in Conts : pc'[d] = "unborn" <=> pc[d] = "unborn"
  PROVE  Promise!Run(c)
<1> USE Actor
<1>1. runs \in [Conts -> Nat] /\ runs[c] = 0
  BY DEF IInv, TypeOK, RunsCounted
<1>2. \A d \in Conts : runs'[d] = IF d = c THEN 1 ELSE runs[d]
  BY <1>1 DEF Begin
<1>3. ~Started(c) /\ \A d \in Conts : Started(d)' <=> Started(d) \/ d = c
  BY <1>1, <1>2 DEF Started
<1>4. {d \in Conts : Started(d)}' = {d \in Conts : Started(d)} \cup {c}
  BY <1>3
<1>5. c \in Existing \ {d \in Conts : Started(d)} /\ Existing' = Existing
  BY <1>3 DEF Existing
<1> QED BY <1>4, <1>5 DEF Promise!Run

LEMMA RunInlineRuns ==
  ASSUME IInv, NEW a \in Actors, RunInline(a)
  PROVE  \E c \in Payloads : Promise!Run(c)
<1> USE Actor
<1> DEFINE c == Head(batch[a])
<1>1. pc \in [Actors -> PcStates]
  BY DEF IInv, TypeOK
<1>2. /\ pc[a] = "dispatch" /\ batch[a] # <<>>
      /\ c \in Conts /\ c \in Elements(batch[a])
  BY HeadOfBatch DEF RunInline, IInv
<1>3. /\ pc[c] = "pending" /\ parent[c] = at[a] /\ at[a] \in Payloads
      /\ completed[at[a]] /\ redirect[at[a]] = NoTask
  BY <1>2 DEF IInv, Carried, InCalls
<1>4. /\ Begin(c) /\ UNCHANGED <<parent, redirect, completed>>
      /\ pc' = [pc EXCEPT ![a] = "await", ![c] = "running"]
  BY DEF RunInline, contVars, payloadVars
<1> HIDE DEF c
<1>5. \A d \in Conts : pc'[d] = "unborn" <=> pc[d] = "unborn"
  BY <1>1, <1>2, <1>3, <1>4
<1>6. PICK d \in Conts : d = c
  BY <1>2
<1>7. Promise!Run(d)
  BY <1>3, <1>4, <1>5, <1>6, BeginRuns
<1> QED BY <1>7

LEMMA StartQueuedRuns ==
  ASSUME IInv, NEW c \in Conts, StartQueued(c)
  PROVE  Promise!Run(c)
<1> USE Actor
<1>1. /\ pc[c] = "queued" /\ Begin(c) /\ UNCHANGED <<parent, redirect, completed>>
      /\ \A d \in Conts : pc'[d] = "unborn" <=> pc[d] = "unborn"
  BY DEF IInv, TypeOK, StartQueued, contVars, payloadVars
<1>2. parent[c] \in Payloads /\ completed[parent[c]] /\ redirect[parent[c]] = NoTask
  BY <1>1 DEF IInv, FindsParent
<1> QED BY <1>1, <1>2, BeginRuns

LEMMA CannibalizeCompletes ==
  ASSUME IInv, NEW a \in Actors, Cannibalize(a)
  PROVE  \E p \in Payloads : Promise!Complete(p)
<1> USE Actor
<1>1. TypeOK /\ at[a] \in Payloads /\ pc[a] = "cannibalize" /\ ~completed[at[a]]
  BY DEF IInv, Cannibalize, InCalls
<1>2. redirect[at[a]] = NoTask
  BY <1>1 DEF IInv, HasResult
<1>3. at[a] \in Conts => at[a] = a /\ runs[a] = 1
  BY <1>1 DEF IInv, CompletesItself, RunsCounted
<1>4. /\ UNCHANGED <<redirect, parent, runs>>
      /\ \A q \in Payloads : completed'[q] = (q = at[a] \/ completed[q])
      /\ \A c \in Conts : pc'[c] = "unborn" <=> pc[c] = "unborn"
  BY <1>1 DEF Cannibalize, TakeContinuations, TypeOK, contVars
<1>5. Existing' = Existing /\ {c \in Conts : Started(c)}' = {c \in Conts : Started(c)}
  BY <1>4 DEF Existing, Started
<1>6. {p \in Payloads : completed[p] /\ redirect[p] = NoTask}'
        = {p \in Payloads : completed[p] /\ redirect[p] = NoTask} \cup {at[a]}
  BY <1>1, <1>2, <1>4
<1>7. at[a] \in Existing /\ at[a] \in Sources \cup {c \in Conts : Started(c)}
  BY <1>1, <1>3 DEF Existing, Started
<1>8. PICK p \in Payloads : p = at[a]
  BY <1>1
<1>9. Promise!Complete(p)
  BY <1>1, <1>2, <1>4, <1>5, <1>6, <1>7, <1>8 DEF Promise!Complete, Promise!Open
<1> QED BY <1>9

(* Continuations that change their parent are not yet running.              *)
LEMMA ReparentHandsOn ==
  ASSUME IInv, NEW S \in SUBSET Conts, NEW t \in Payloads, NEW other \in Payloads,
         \A c \in S : pc[c] = "pending" /\ parent[c] = t,
         Reparent(S, other)
  PROVE  Promise!HandOn(t, other)
<1> USE Actor
<1>1. \A c \in S : c \in Existing \ {d \in Conts : Started(d)}
  BY DEF IInv, RunsCounted, Existing, Started
<1>2. S \in SUBSET {c \in Existing \ {d \in Conts : Started(d)} :
                     [p \in Payloads |-> IF p \in Conts THEN parent[p] ELSE NoTask][c] = t}
  BY <1>1
<1>3. [p \in Payloads |-> IF p \in Conts THEN parent[p] ELSE NoTask]'
        = [c \in Payloads |-> IF c \in S THEN other
             ELSE [p \in Payloads |-> IF p \in Conts THEN parent[p] ELSE NoTask][c]]
  BY DEF Reparent
<1> QED BY <1>2, <1>3 DEF Promise!HandOn

LEMMA ForwardRedirects ==
  ASSUME IInv, NEW a \in Actors, Forward(a)
  PROVE  \E t \in Payloads : Promise!Redirect(t)
<1> USE Actor
<1>1. /\ at[a] \in Payloads /\ redirect[at[a]] \in Payloads
      /\ batch[a] \in Seq(Conts) /\ Elements(batch[a]) \subseteq Conts
  BY AtPayload, ElementsOf DEF IInv, Forward
<1>2. PICK t \in Payloads, S \in SUBSET Conts, other \in Payloads :
        t = at[a] /\ S = Elements(batch[a]) /\ other = redirect[at[a]]
  BY <1>1
<1>3. \A c \in S : pc[c] = "pending" /\ parent[c] = t
  BY <1>2 DEF IInv, Carried, Forward
<1>4. Promise!HandOn(t, other)
  BY <1>2, <1>3, ReparentHandsOn DEF Forward
<1>5. UNCHANGED <<redirect, completed, runs, pc>>
  BY DEF Forward, historyVars
<1>6. Existing' = Existing /\ {c \in Conts : Started(c)}' = {c \in Conts : Started(c)}
  BY <1>5 DEF Existing, Started
<1>7. {p \in Payloads : completed[p] /\ redirect[p] = NoTask}'
        = {p \in Payloads : completed[p] /\ redirect[p] = NoTask}
  BY <1>5
<1>8. other \in Sources /\ redirect[t] = other
  BY <1>2 DEF IInv, TypeOK, Forward
<1>9. Promise!Redirect(t)
  BY <1>4, <1>5, <1>6, <1>7, <1>8 DEF Promise!Redirect
<1> QED BY <1>9

LEMMA CollapseStandsIn ==
  ASSUME IInv, Ahead, NEW a \in Actors, CollapseLeft(a)
  PROVE  \E t, other \in Payloads : Promise!StandIn(t, other)
<1> USE Actor
<1>1. /\ TypeOK /\ pc[a] = "collapse" /\ at[a] \in Sources /\ into[a] \in Sources
      /\ at[a] # into[a] /\ ~completed[at[a]]
  BY AtPayload DEF IInv, Ahead, CollapseLeft
<1>2. redirect[at[a]] = NoTask
  BY <1>1 DEF IInv, HasResult
<1>3. PICK t \in Sources, S \in SUBSET Conts, other \in Sources :
        t = at[a] /\ S = Elements(conts[at[a]]) /\ other = into[a]
  <2>1. conts[at[a]] \in Seq(Conts)
    BY <1>1 DEF TypeOK
  <2>2. Elements(conts[at[a]]) \subseteq Conts
    BY <2>1, ElementsOf
  <2> QED BY <1>1, <2>2
<1>4. \A c \in S : pc[c] = "pending" /\ parent[c] = t
  BY <1>3 DEF IInv, Kept
<1>5. Promise!HandOn(t, other)
  BY <1>3, <1>4, ReparentHandsOn DEF CollapseLeft
<1>6. /\ redirect' = [redirect EXCEPT ![t] = other] /\ runs' = runs
      /\ \A p \in Payloads : redirect'[p] = IF p = t THEN other ELSE redirect[p]
      /\ \A p \in Payloads : completed'[p] = (p = t \/ completed[p])
      /\ \A c \in Conts : pc'[c] = "unborn" <=> pc[c] = "unborn"
  BY <1>1, <1>3 DEF CollapseLeft, TakeContinuations, TypeOK, historyVars
<1>7. Existing' = Existing /\ {c \in Conts : Started(c)}' = {c \in Conts : Started(c)}
  BY <1>6 DEF Existing, Started
<1>8. \A p \in Payloads : (completed[p] /\ redirect[p] = NoTask)' <=> completed[p] /\ redirect[p] = NoTask
  BY <1>1, <1>2, <1>3, <1>6
<1>9. {p \in Payloads : completed[p] /\ redirect[p] = NoTask}'
        = {p \in Payloads : completed[p] /\ redirect[p] = NoTask}
  BY <1>8
<1>10. Promise!StandIn(t, other)
  BY <1>1, <1>2, <1>3, <1>5, <1>6, <1>7, <1>9 DEF Promise!StandIn, Promise!Open, Existing
<1> QED BY <1>10

(* Whoever adds, completes and unwraps in which order, a continuation runs   *)
(* once, behind the completion of the task it follows at last, and completes *)
(* after it; a task that stands for another one never completes itself, and  *)
(* hands on only what has not run.                                           *)
THEOREM PromiseKept == Spec => Promise!SafeSpec
<1> USE Actor
<1>1. Init => Promise!Init /\ Ahead
  <2> SUFFICES ASSUME Init PROVE Promise!Init /\ Ahead
    OBVIOUS
  <2>1. \A c \in Conts : pc[c] = "unborn" /\ ~Started(c)
    BY DEF Init, Started
  <2>0. Existing = Sources /\ {c \in Conts : Started(c)} = {}
    BY <2>1 DEF Existing
  <2>2. {p \in Payloads : completed[p] /\ redirect[p] = NoTask} = {}
    BY DEF Init
  <2>3. [p \in Payloads |-> IF p \in Conts THEN parent[p] ELSE NoTask] = [p \in Payloads |-> NoTask]
    BY DEF Init
  <2> QED BY <2>0, <2>2, <2>3 DEF Init, Promise!Init, Ahead
<1>2. IInv /\ Ahead /\ [Next]_vars => Ahead' /\ [Promise!Next]_(Promise!vars)
  <2> DEFINE Kind == Promise!Next \/ UNCHANGED Promise!vars
  <2> SUFFICES ASSUME IInv, Ahead, [Next]_vars PROVE Kind
    BY AheadStep DEF IInv
  <2>1. ASSUME NEW a \in Actors, NEW c \in Conts, NEW p \in Payloads, NEW inl \in BOOLEAN,
               Then(a, c, p, inl)
        PROVE  Kind
    BY <2>1, ThenContinues DEF Promise!Next
  <2>2. ASSUME NEW a \in Actors, Cannibalize(a) \/ Forward(a) \/ CollapseLeft(a) \/ RunInline(a)
        PROVE  Kind
    <3>1. CASE Cannibalize(a)
      BY <3>1, CannibalizeCompletes DEF Promise!Next
    <3>2. CASE Forward(a)
      BY <3>2, ForwardRedirects DEF Promise!Next
    <3>3. CASE CollapseLeft(a)
      BY <3>3, CollapseStandsIn DEF Promise!Next
    <3>4. CASE RunInline(a)
      BY <3>4, RunInlineRuns DEF Promise!Next
    <3> QED BY <2>2, <3>1, <3>2, <3>3, <3>4
  <2>3. ASSUME NEW a \in Actors,
               \/ \E s \in Sources : Complete(a, s)
               \/ \E l, r \in Sources : Collapse(a, l, r)
               \/ Store(a) \/ RunIt(a) \/ Reject(a)
               \/ InlineReturns(a) \/ QueueRun(a) \/ CallReturns(a)
        PROVE  Kind
    BY <2>3, CallsStutter
  <2>4. ASSUME NEW c \in Conts, StartQueued(c) \/ Finish(c) PROVE Kind
    BY <2>4, CallsStutter, StartQueuedRuns DEF Promise!Next
  <2>5. CASE UNCHANGED vars
    BY <2>5, Stutters DEF vars, payloadVars, contVars, actorVars, historyVars
  <2> HIDE DEF Kind
  <2> QED BY <2>1, <2>2, <2>3, <2>4, <2>5, Steps
<1> QED BY <1>1, <1>2, Invariant, PTL DEF Spec, Promise!SafeSpec
=============================================================================
