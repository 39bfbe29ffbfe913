------------------------ MODULE GroupsAndChainsProofs ------------------------
(***************************************************************************)
(* Proofs about what is built of tasks: groups and chains of them.         *)
(*                                                                         *)
(* TaskGroups, for any inputs, tasks, errors and callers of when_all.  A   *)
(* step is one of when_all, of the scope or of the rest; what each part    *)
(* needs of the others is that a complete task stays as it is, and that    *)
(* only the part that owns it completes Group or Completed.                *)
(*                                                                         *)
(* TaskChain, for any works, coroutines, tokens and errors.  A step is one *)
(* of a work or of a coroutine; what the others need of it is that a task  *)
(* goes on giving what it gave.                                            *)
(***************************************************************************)
EXTENDS TaskGroups, TaskChain, FiniteSetTheorems, SequenceTheorems, TLAPS

USE TaskGroupsAssumption

(* A task that is complete keeps its outcome. *)
Grows ==
    /\ outcome' \in [AllTasks -> W!Outcomes]
    /\ \A t \in AllTasks : outcome[t] # "pending" => outcome'[t] = outcome[t]

(* The names that the modules of the parts have for the tasks. *)
LEMMA Names ==
  /\ W!Tasks \subseteq AllTasks
  /\ Others \cup {Group} \subseteq AllTasks
  /\ Plain \subseteq AllTasks
  /\ Group \in AllTasks /\ Group \notin W!Tasks /\ Group # Completed
  /\ Completed \in AllTasks /\ Completed \notin W!Tasks /\ Completed \notin Others \cup {Group}
  /\ \A i \in DOMAIN Inputs : Inputs[i] \in W!Tasks
  /\ \A t \in W!Tasks : \E i \in DOMAIN Inputs : t = Inputs[i]
BY DEF AllTasks, Plain, W!Tasks

LEMMA Domain == Len(Inputs) \in Nat /\ DOMAIN Inputs = 1 .. Len(Inputs)
OBVIOUS

(* As many inputs as positions: they are distinct. *)
LEMMA CountOfInputs == IsFiniteSet(W!Tasks) /\ Cardinality(W!Tasks) = Len(Inputs)
<1> DEFINE f == [i \in 1 .. Len(Inputs) |-> Inputs[i]]
<1>1. f \in Bijection(1 .. Len(Inputs), W!Tasks)
  BY Domain DEF Bijection, Injection, IsInjective, Surjection, W!Tasks
<1>2. ExistsBijection(1 .. Len(Inputs), W!Tasks)
  BY <1>1 DEF ExistsBijection
<1>3. IsFiniteSet(1 .. Len(Inputs)) /\ Cardinality(1 .. Len(Inputs)) = Len(Inputs)
  BY Domain, FS_Interval
<1> QED BY <1>2, <1>3, FS_Bijection

(* The two groups count with these. *)
LEMMA OneLess ==
  ASSUME NEW A, NEW t \in A, IsFiniteSet(A)
  PROVE  /\ IsFiniteSet(A \ {t}) /\ Cardinality(A) \in Nat \ {0}
         /\ Cardinality(A \ {t}) = Cardinality(A) - 1
         /\ Cardinality(A \ {t}) = 0 <=> A = {t}
<1>1. IsFiniteSet(A \ {t}) /\ Cardinality(A \ {t}) = Cardinality(A) - 1
  BY FS_RemoveElement
<1>2. Cardinality(A \ {t}) = 0 <=> A \ {t} = {}
  BY <1>1, FS_EmptySet
<1>3. Cardinality(A) \in Nat /\ Cardinality(A) # 0
  BY FS_CardinalityType, FS_EmptySet
<1> QED BY <1>1, <1>2, <1>3

LEMMA OneMore ==
  ASSUME NEW A, NEW t, t \notin A, IsFiniteSet(A)
  PROVE  IsFiniteSet(A \cup {t}) /\ Cardinality(A \cup {t}) = Cardinality(A) + 1
BY FS_AddElement

-----------------------------------------------------------------------------
LEMMA InitInv == Init => IInv
<1> SUFFICES ASSUME Init PROVE IInv
  OBVIOUS
<1> USE DEF Init, W!Init, S!Init
<1>1. TypeOK
  <2>1. W!TypeOK
    BY Domain DEF W!TypeOK, W!CallbackStates
  <2>2. S!TypeOK
    BY DEF S!TypeOK, S!CallbackStates
  <2>3. outcome \in [AllTasks -> W!Outcomes]
    BY DEF W!Outcomes
  <2> QED BY <2>1, <2>2, <2>3 DEF TypeOK
<1>2. W!Waiting = W!Tasks /\ S!Live = {} /\ S!Counted = {}
  BY DEF W!Waiting, S!Live, S!Counted
<1>3. W!IInv
  <2>1. W!AddedInOrder
    BY Names DEF W!AddedInOrder
  <2>2. W!InTime /\ W!KeepsOutcomes
    BY <1>2, Names DEF W!InTime, W!KeepsOutcomes
  <2>3. W!LastCompletes /\ W!TellsOutcome
    BY Names DEF W!LastCompletes, W!TellsOutcome
  <2> QED BY <2>1, <2>2, <2>3 DEF W!IInv
<1>4. S!IInv
  <2>1. S!TakenOnce /\ S!KeepsError
    BY <1>2, Names DEF S!TakenOnce, S!KeepsError
  <2>2. S!LastCompletes /\ S!TellsOutcome
    BY Names DEF S!LastCompletes, S!TellsOutcome
  <2> QED BY <2>1, <2>2 DEF S!IInv
<1>5. InputsCounted /\ LiveCounted
  BY <1>2, FS_EmptySet DEF InputsCounted, LiveCounted
<1> QED BY <1>1, <1>3, <1>4, <1>5 DEF IInv

-----------------------------------------------------------------------------
(* The parts of IInv that are about one of the two groups. *)
OutcomeType == outcome \in [AllTasks -> W!Outcomes]
GroupInv == W!TypeOK /\ InputsCounted /\ W!IInv
ScopeInv == S!TypeOK /\ LiveCounted /\ S!IInv

(* when_all's data does not mind what else completes. *)
LEMMA GroupKept ==
  ASSUME OutcomeType, GroupInv, Grows, outcome'[Group] = outcome[Group], UNCHANGED groupVars
  PROVE  GroupInv'
<1> USE DEF groupVars
<1>1. W!Waiting' = W!Waiting
  BY DEF W!Waiting
<1>2. \A t \in W!Tasks \ W!Waiting : outcome[t] # "pending" /\ outcome'[t] = outcome[t]
  BY Names DEF GroupInv, W!IInv, W!InTime, Grows
<1>3. W!TypeOK' /\ InputsCounted'
  BY <1>1 DEF GroupInv, W!TypeOK, InputsCounted
<1>4. W!AddedInOrder' /\ W!InTime'
  BY <1>1, <1>2 DEF GroupInv, W!IInv, W!AddedInOrder, W!InTime
<1>5. W!KeepsOutcomes'
  <2>1. \A i \in DOMAIN Inputs : Inputs[i] \in W!Tasks
    BY Names
  <2> QED BY <1>1, <1>2, <2>1 DEF GroupInv, W!IInv, W!KeepsOutcomes
<1>6. W!LastCompletes'
  BY DEF GroupInv, W!IInv, W!LastCompletes
<1>7. W!TellsOutcome'
  <2>1. \A t \in W!Tasks : outcome[t] # "pending" => outcome'[t] = outcome[t]
    BY Names DEF Grows
  <2>2. "pending" # "ok" /\ "pending" \notin Errors
    OBVIOUS
  <2> QED BY <2>1, <2>2 DEF GroupInv, W!IInv, W!TellsOutcome
<1> QED BY <1>3, <1>4, <1>5, <1>6, <1>7 DEF GroupInv, W!IInv

(* Nor does the scope's. *)
LEMMA ScopeKept ==
  ASSUME OutcomeType, ScopeInv, Grows, outcome'[Completed] = outcome[Completed],
         UNCHANGED scopeVars
  PROVE  ScopeInv'
<1> USE DEF scopeVars
<1>1. S!Live' = S!Live /\ S!Counted' = S!Counted /\ S!Counted \subseteq AllTasks
  BY Names DEF S!Live, S!Counted
<1>2. \A t \in S!Counted \ S!Live : outcome[t] # "pending" /\ outcome'[t] = outcome[t]
  BY <1>1 DEF ScopeInv, S!IInv, S!KeepsError, Grows
<1>3. S!TypeOK' /\ LiveCounted'
  BY <1>1 DEF ScopeInv, S!TypeOK, LiveCounted
<1>4. S!TakenOnce'
  BY DEF ScopeInv, S!IInv, S!TakenOnce
<1>5. S!KeepsError'
  BY <1>1, <1>2 DEF ScopeInv, S!IInv, S!KeepsError
<1>6. S!LastCompletes'
  BY <1>1 DEF ScopeInv, S!IInv, S!LastCompletes
<1>7. S!TellsOutcome'
  <2>1. \A t \in S!Counted : outcome[t] # "pending" => outcome'[t] = outcome[t]
    BY <1>1 DEF Grows
  <2>2. "pending" # "ok" /\ "pending" \notin Errors
    OBVIOUS
  <2> QED BY <1>1, <2>1, <2>2 DEF ScopeInv, S!IInv, S!TellsOutcome
<1> QED BY <1>3, <1>4, <1>5, <1>6, <1>7 DEF ScopeInv, S!IInv

-----------------------------------------------------------------------------
(* What a step of one group does to the tasks of the other. *)
GroupMoves == Grows /\ outcome'[Completed] = outcome[Completed]
ScopeMoves == Grows /\ outcome'[Group] = outcome[Group]

LEMMA BeginStep == OutcomeType /\ GroupInv /\ W!Begin => GroupInv' /\ GroupMoves
<1> SUFFICES ASSUME OutcomeType, GroupInv, W!Begin PROVE GroupInv' /\ GroupMoves
  OBVIOUS
<1> USE DEF W!Begin, W!Complete
<1>1. W!Waiting' = W!Tasks /\ W!Waiting = W!Tasks
  BY Names, Domain DEF GroupInv, W!IInv, W!AddedInOrder, W!Waiting
<1>2. \A t \in W!Tasks : input[t] = "none"
  BY Names, Domain DEF GroupInv, W!IInv, W!AddedInOrder
<1>3. Inputs = <<>> => W!Tasks = {}
  BY DEF W!Tasks
<1>4. GroupMoves
  BY Names DEF GroupMoves, Grows, OutcomeType, W!Outcomes, GroupInv, W!IInv, W!InTime
<1>5. W!TypeOK' /\ InputsCounted'
  BY <1>1, Domain, CountOfInputs DEF GroupInv, W!TypeOK, InputsCounted
<1>6. W!AddedInOrder' /\ W!InTime'
  BY <1>1, <1>2, Names DEF W!AddedInOrder, W!InTime
<1>7. W!KeepsOutcomes'
  BY <1>1, Names DEF GroupInv, W!IInv, W!KeepsOutcomes
<1>8. W!LastCompletes' /\ W!TellsOutcome'
  <2>1. CASE Inputs = <<>>
    <3>1. outcome'[Group] = "ok" /\ DOMAIN Inputs = {} /\ results' = {}
      BY <2>1, Names DEF OutcomeType, GroupInv, W!TypeOK
    <3> QED BY <3>1, <2>1, <1>3 DEF W!LastCompletes, W!TellsOutcome
  <2>2. CASE Inputs # <<>>
    BY <2>2 DEF GroupInv, W!IInv, W!LastCompletes, W!TellsOutcome
  <2> QED BY <2>1, <2>2
<1> QED BY <1>4, <1>5, <1>6, <1>7, <1>8 DEF GroupInv, W!IInv

LEMMA AddStep == OutcomeType /\ GroupInv /\ W!AddContinuation => GroupInv' /\ GroupMoves
<1> SUFFICES ASSUME OutcomeType, GroupInv, W!AddContinuation PROVE GroupInv' /\ GroupMoves
  OBVIOUS
<1> USE DEF W!AddContinuation
<1>1. input[Inputs[at]] = "none" /\ Inputs[at] \in W!Tasks
  BY Names, Domain DEF GroupInv, W!IInv, W!AddedInOrder
<1>2. W!Waiting' = W!Waiting
  BY <1>1 DEF W!Waiting, GroupInv, W!TypeOK, W!CallbackStates
<1>3. GroupMoves
  BY DEF GroupMoves, Grows, OutcomeType
<1>4. W!TypeOK' /\ InputsCounted'
  BY <1>1, <1>2, Domain DEF GroupInv, W!TypeOK, W!CallbackStates, InputsCounted
<1>5. W!AddedInOrder'
  <2> SUFFICES ASSUME NEW i \in DOMAIN Inputs, i >= at' PROVE input'[Inputs[i]] = "none"
    BY DEF W!AddedInOrder
  <2>1. i # at /\ i >= at /\ Inputs[i] # Inputs[at]
    BY Domain
  <2> QED BY <2>1, Names DEF GroupInv, W!IInv, W!TypeOK, W!AddedInOrder
<1>6. W!InTime' /\ W!KeepsOutcomes'
  BY <1>2, Domain DEF GroupInv, W!IInv, W!InTime, W!KeepsOutcomes
<1>7. W!LastCompletes' /\ W!TellsOutcome'
  BY <1>1 DEF GroupInv, W!IInv, W!TypeOK, W!LastCompletes, W!TellsOutcome
<1> QED BY <1>3, <1>4, <1>5, <1>6, <1>7 DEF GroupInv, W!IInv

(* The last is the one that finds the count at zero: nobody else waits, or *)
(* has been last before.                                                   *)
LEMMA ContinuationStep ==
  ASSUME OutcomeType, GroupInv, NEW i \in DOMAIN Inputs, W!Continuation(i)
  PROVE  GroupInv' /\ GroupMoves
<1> DEFINE t == Inputs[i]
<1> USE DEF W!Continuation
<1>1. t \in W!Tasks /\ t \in W!Waiting
  BY Names DEF W!Waiting
<1>2. /\ input' = [input EXCEPT ![t] = IF pendingCount' = 0 THEN "last" ELSE "done"]
      /\ outcome' = outcome /\ at' = at
  OBVIOUS
<1>3. W!Waiting' = W!Waiting \ {t}
  BY <1>1, <1>2 DEF W!Waiting, GroupInv, W!TypeOK
<1>4. at # 0
  BY <1>1, Names, Domain DEF GroupInv, W!IInv, W!AddedInOrder
<1>5. IsFiniteSet(W!Waiting) /\ pendingCount = Cardinality(W!Waiting)
  <2>1. W!Waiting \subseteq W!Tasks
    BY DEF W!Waiting
  <2> QED BY <1>4, <2>1, CountOfInputs, FS_Subset DEF GroupInv, InputsCounted
<1>6. /\ pendingCount' = Cardinality(W!Waiting') /\ pendingCount \in Nat \ {0}
      /\ pendingCount' = 0 <=> W!Waiting = {t}
  BY <1>1, <1>3, <1>5, OneLess
<1>7. outcome[t] \in {"ok"} \cup Errors
  BY <1>1, Names DEF OutcomeType, W!Outcomes
<1>8. GroupMoves
  BY <1>2 DEF GroupMoves, Grows, OutcomeType
<1>9. W!TypeOK' /\ InputsCounted'
  <2>1. results' \subseteq DOMAIN Inputs
    BY DEF W!Filled, GroupInv, W!TypeOK
  <2>2. groupError' \in Errors \cup {NoError}
    BY <1>7 DEF W!FirstError, GroupInv, W!TypeOK
  <2>3. pendingCount' \in 0 .. Len(Inputs)
    BY <1>6, Domain DEF GroupInv, W!TypeOK
  <2>4. input' \in [W!Tasks -> W!CallbackStates]
    BY <1>2 DEF GroupInv, W!TypeOK, W!CallbackStates
  <2> QED BY <1>2, <1>4, <1>6, <2>1, <2>2, <2>3, <2>4 DEF GroupInv, W!TypeOK, InputsCounted
<1>10. W!AddedInOrder'
  <2> SUFFICES ASSUME NEW j \in DOMAIN Inputs, j >= at PROVE input'[Inputs[j]] = "none"
    BY <1>2 DEF W!AddedInOrder
  <2>1. input[Inputs[j]] = "none" /\ Inputs[j] \in W!Tasks
    BY Names DEF GroupInv, W!IInv, W!AddedInOrder
  <2> QED BY <1>2, <2>1 DEF GroupInv, W!TypeOK
<1>11. W!InTime'
  BY <1>2, <1>3, <1>4 DEF GroupInv, W!IInv, W!InTime
<1>12. W!KeepsOutcomes'
  <2>1. W!Tasks \ W!Waiting' = (W!Tasks \ W!Waiting) \cup {t}
    BY <1>1, <1>3
  <2>2. groupError' = NoError => \A u \in W!Tasks \ W!Waiting' : outcome'[u] = "ok"
    BY <1>2, <1>7, <2>1 DEF GroupInv, W!IInv, W!KeepsOutcomes, W!FirstError
  <2>3. groupError' # NoError => \E u \in W!Tasks \ W!Waiting' : outcome'[u] = groupError'
    BY <1>2, <2>1 DEF GroupInv, W!IInv, W!KeepsOutcomes, W!FirstError
  <2>4. results' = {j \in DOMAIN Inputs : Inputs[j] \notin W!Waiting' /\ outcome'[Inputs[j]] = "ok"}
    <3>1. results = {j \in DOMAIN Inputs : Inputs[j] \notin W!Waiting /\ outcome[Inputs[j]] = "ok"}
      BY DEF GroupInv, W!IInv, W!KeepsOutcomes
    <3>2. results' = IF outcome[t] = "ok" THEN results \cup {i} ELSE results
      BY DEF W!Filled
    <3>3. \A j \in DOMAIN Inputs : Inputs[j] = t => j = i
      OBVIOUS
    <3>4. t = Inputs[i]
      OBVIOUS
    <3> HIDE DEF t
    <3> QED BY <1>2, <1>3, <3>1, <3>2, <3>3, <3>4
  <2> QED BY <2>2, <2>3, <2>4 DEF W!KeepsOutcomes
<1>13. W!LastCompletes'
  <2>1. outcome[Group] = "pending" /\ \A u \in W!Tasks : input[u] # "last"
    BY <1>1 DEF GroupInv, W!IInv, W!LastCompletes, W!Waiting
  <2>2. \A u \in W!Tasks \ {t} : input'[u] = input[u] /\ (u \notin W!Waiting => input[u] = "done")
    BY <1>2, <2>1 DEF GroupInv, W!TypeOK, W!CallbackStates, W!Waiting
  <2>3. input'[t] = "last" => \A u \in W!Tasks \ {t} : input'[u] = "done"
    BY <1>1, <1>2, <1>6, <2>2 DEF GroupInv, W!TypeOK
  <2> QED BY <1>2, <2>1, <2>2, <2>3 DEF W!LastCompletes
<1>14. W!TellsOutcome'
  <2>1. outcome[Group] = "pending"
    BY <1>1 DEF GroupInv, W!IInv, W!LastCompletes, W!Waiting
  <2> QED BY <1>2, <2>1 DEF W!TellsOutcome
<1> QED BY <1>8, <1>9, <1>10, <1>11, <1>12, <1>13, <1>14 DEF GroupInv, W!IInv

(* Outside of the mutex, the last one reads what nobody writes any more. *)
LEMMA CompleteStep ==
  ASSUME OutcomeType, GroupInv, NEW t \in W!Tasks, W!CompleteResult(t)
  PROVE  GroupInv' /\ GroupMoves
<1> USE DEF W!CompleteResult, W!Complete
<1>1. outcome[Group] = "pending" /\ \A u \in W!Tasks \ {t} : input[u] = "done"
  BY DEF GroupInv, W!IInv, W!LastCompletes
<1>2. \A u \in W!Tasks : input'[u] = "done"
  BY <1>1 DEF GroupInv, W!TypeOK
<1>3. W!Waiting = {} /\ W!Waiting' = {}
  BY <1>1, <1>2 DEF W!Waiting
<1>4. /\ outcome' \in [AllTasks -> W!Outcomes]
      /\ outcome'[Group] = IF groupError # NoError THEN groupError ELSE "ok"
      /\ \A u \in AllTasks \ {Group} : outcome'[u] = outcome[u]
  BY Names DEF OutcomeType, W!Outcomes, GroupInv, W!TypeOK
<1>5. GroupMoves
  BY <1>1, <1>4, Names DEF GroupMoves, Grows
<1>6. W!TypeOK' /\ InputsCounted'
  BY <1>3 DEF GroupInv, W!TypeOK, W!CallbackStates, InputsCounted
<1>7. at # 0 /\ W!AddedInOrder'
  BY <1>1, Names, Domain DEF GroupInv, W!IInv, W!AddedInOrder, W!TypeOK
<1>8. \A u \in W!Tasks : outcome'[u] = outcome[u]
  BY <1>4, Names
<1>9. W!InTime'
  BY <1>3, <1>7, <1>8 DEF GroupInv, W!IInv, W!InTime
<1>10. W!KeepsOutcomes'
  BY <1>3, <1>8, Names DEF GroupInv, W!IInv, W!KeepsOutcomes
<1>11. W!LastCompletes'
  BY <1>2 DEF W!LastCompletes
<1>12. W!TellsOutcome'
  <2>1. groupError = NoError =>
          results = DOMAIN Inputs /\ \A u \in W!Tasks : outcome'[u] = "ok"
    <3> SUFFICES ASSUME groupError = NoError
                 PROVE  results = DOMAIN Inputs /\ \A u \in W!Tasks : outcome[u] = "ok"
      BY <1>8
    <3>1. \A u \in W!Tasks : outcome[u] = "ok"
      BY <1>3 DEF GroupInv, W!IInv, W!KeepsOutcomes
    <3>2. \A i \in DOMAIN Inputs : Inputs[i] \notin W!Waiting /\ outcome[Inputs[i]] = "ok"
      BY <1>3, <3>1, Names
    <3>3. results = {i \in DOMAIN Inputs : Inputs[i] \notin W!Waiting /\ outcome[Inputs[i]] = "ok"}
      BY DEF GroupInv, W!IInv, W!KeepsOutcomes
    <3> QED BY <3>1, <3>2, <3>3
  <2>2. groupError # NoError => groupError \in Errors /\ \E u \in W!Tasks : outcome'[u] = groupError
    BY <1>3, <1>8 DEF GroupInv, W!IInv, W!KeepsOutcomes, W!TypeOK
  <2>3. "ok" \notin Errors
    OBVIOUS
  <2> QED BY <1>4, <2>1, <2>2, <2>3 DEF W!TellsOutcome
<1> QED BY <1>5, <1>6, <1>7, <1>9, <1>10, <1>11, <1>12 DEF GroupInv, W!IInv

-----------------------------------------------------------------------------
LEMMA CountInStep ==
  ASSUME OutcomeType, ScopeInv, NEW t \in Others \cup {Group}, S!CountIn(t)
  PROVE  ScopeInv' /\ ScopeMoves
<1> USE DEF S!CountIn
<1>1. ScopeMoves
  BY DEF ScopeMoves, Grows, OutcomeType
<1>2. CASE disposing
  <2>1. S!Live' = S!Live /\ S!Counted' = S!Counted
    BY <1>2 DEF S!Live, S!Counted, ScopeInv, S!TypeOK
  <2>2. S!TypeOK' /\ LiveCounted'
    BY <1>2, <2>1 DEF ScopeInv, S!TypeOK, S!CallbackStates, LiveCounted
  <2>3. S!TakenOnce' /\ S!KeepsError'
    BY <1>2, <2>1 DEF ScopeInv, S!TypeOK, S!IInv, S!TakenOnce, S!KeepsError
  <2>4. S!LastCompletes' /\ S!TellsOutcome'
    BY <1>2, <2>1 DEF ScopeInv, S!TypeOK, S!IInv, S!LastCompletes, S!TellsOutcome, S!Counted
  <2> QED BY <1>1, <2>2, <2>3, <2>4 DEF ScopeInv, S!IInv
<1>3. CASE ~disposing
  <2>1. /\ t \notin S!Live /\ t \notin S!Counted
        /\ S!Live' = S!Live \cup {t} /\ S!Counted' = S!Counted \cup {t}
    BY <1>3 DEF S!Live, S!Counted, ScopeInv, S!TypeOK
  <2>2. /\ IsFiniteSet(S!Live') /\ pending' = Cardinality(S!Live')
        /\ pending' = pending + 1 /\ pending \in Nat
    BY <1>3, <2>1, OneMore DEF ScopeInv, LiveCounted, S!TypeOK
  <2>3. S!TypeOK' /\ LiveCounted'
    BY <1>3, <2>2 DEF ScopeInv, S!TypeOK, S!CallbackStates, LiveCounted
  <2>4. ~setcompletion /\ outcome[Completed] = "pending"
          /\ \A u \in Others \cup {Group} : member[u] # "last"
    BY <1>3 DEF ScopeInv, S!IInv, S!TakenOnce
  <2>5. S!TakenOnce'
    BY <1>3, <2>4 DEF ScopeInv, S!IInv, S!TypeOK, S!TakenOnce
  <2>6. S!KeepsError'
    BY <1>3, <2>1 DEF ScopeInv, S!IInv, S!KeepsError
  <2>7. S!LastCompletes' /\ S!TellsOutcome'
    BY <1>3, <2>4 DEF ScopeInv, S!TypeOK, S!LastCompletes, S!TellsOutcome
  <2> QED BY <1>1, <2>3, <2>5, <2>6, <2>7 DEF ScopeInv, S!IInv
<1> QED BY <1>2, <1>3

LEMMA MemberAddStep ==
  ASSUME OutcomeType, ScopeInv, NEW t \in Others \cup {Group}, S!AddContinuation(t)
  PROVE  ScopeInv' /\ ScopeMoves
<1> USE DEF S!AddContinuation
<1>1. ScopeMoves
  BY DEF ScopeMoves, Grows, OutcomeType
<1>2. S!Live' = S!Live /\ S!Counted' = S!Counted
  BY DEF S!Live, S!Counted, ScopeInv, S!TypeOK
<1>3. S!TypeOK' /\ LiveCounted'
  BY <1>2 DEF ScopeInv, S!TypeOK, S!CallbackStates, LiveCounted
<1>4. S!TakenOnce' /\ S!KeepsError'
  BY <1>2 DEF ScopeInv, S!TypeOK, S!IInv, S!TakenOnce, S!KeepsError
<1>5. S!LastCompletes'
  <2>1. t \in S!Counted /\ member[t] # "done" /\ member[t] # "last"
    BY DEF S!Counted
  <2>2. outcome[Completed] = "pending" /\ \A u \in Others \cup {Group} : member[u] # "last"
    BY <2>1 DEF ScopeInv, S!IInv, S!LastCompletes
  <2> QED BY <2>2 DEF ScopeInv, S!TypeOK, S!LastCompletes
<1>6. S!TellsOutcome'
  BY <1>2 DEF ScopeInv, S!IInv, S!TellsOutcome
<1> QED BY <1>1, <1>3, <1>4, <1>5, <1>6 DEF ScopeInv, S!IInv

(* Who counts down to zero after when_all takes the right to complete, and *)
(* everybody else is done by then.                                         *)
LEMMA CountOffStep ==
  ASSUME OutcomeType, ScopeInv, NEW t \in Others \cup {Group}, S!Continuation(t)
  PROVE  ScopeInv' /\ ScopeMoves
<1> USE DEF S!Continuation, S!IsLast
<1>1. t \in S!Live /\ t \in S!Counted /\ t \in AllTasks
  BY Names DEF S!Live, S!Counted
<1>2. /\ member' = [member EXCEPT ![t] = IF disposing /\ pending' = 0 THEN "last" ELSE "done"]
      /\ setcompletion' = (setcompletion \/ (disposing /\ pending' = 0))
      /\ outcome' = outcome /\ disposing' = disposing /\ closer' = closer
      /\ pending' = pending - 1
  OBVIOUS
<1>3. S!Live' = S!Live \ {t} /\ S!Counted' = S!Counted
  BY <1>1, <1>2 DEF S!Live, S!Counted, ScopeInv, S!TypeOK
<1>4. /\ IsFiniteSet(S!Live') /\ pending' = Cardinality(S!Live') /\ pending \in Nat \ {0}
      /\ pending' = 0 <=> S!Live = {t}
  BY <1>1, <1>2, <1>3, OneLess DEF ScopeInv, LiveCounted
<1>5. outcome[t] \in {"ok"} \cup Errors
  BY <1>1 DEF OutcomeType, W!Outcomes
<1>6. ScopeMoves
  BY <1>2 DEF ScopeMoves, Grows, OutcomeType
<1>7. S!TypeOK' /\ LiveCounted'
  <2>1. scopeError' \in Errors \cup {NoError}
    BY <1>5 DEF ScopeInv, S!TypeOK
  <2>2. pending' \in Nat
    BY <1>2, <1>4
  <2>3. setcompletion' \in BOOLEAN
    BY <1>2 DEF ScopeInv, S!TypeOK
  <2>4. member' \in [Others \cup {Group} -> S!CallbackStates]
    BY <1>2 DEF ScopeInv, S!TypeOK, S!CallbackStates
  <2> QED BY <1>2, <1>4, <2>1, <2>2, <2>3, <2>4 DEF ScopeInv, S!TypeOK, LiveCounted
<1>8. /\ ~setcompletion /\ outcome[Completed] = "pending"
      /\ \A u \in Others \cup {Group} : member[u] # "last"
  BY <1>4 DEF ScopeInv, S!IInv, S!TakenOnce
<1>9. S!TakenOnce'
  <2>1. setcompletion' <=> disposing' /\ pending' = 0
    <3>1. setcompletion \in BOOLEAN /\ disposing \in BOOLEAN
      BY DEF ScopeInv, S!TypeOK
    <3>2. CASE disposing /\ pending' = 0
      BY <1>2, <3>2
    <3>3. CASE ~(disposing /\ pending' = 0)
      BY <1>2, <1>8, <3>1, <3>3
    <3> QED BY <3>2, <3>3
  <2>2. ~setcompletion' => \A u \in Others \cup {Group} : member'[u] # "last"
    BY <1>2, <1>8 DEF ScopeInv, S!TypeOK
  <2> QED BY <1>2, <1>8, <2>1, <2>2 DEF ScopeInv, S!IInv, S!TakenOnce
<1>10. S!KeepsError'
  <2>1. S!Counted' \ S!Live' = (S!Counted \ S!Live) \cup {t}
    BY <1>1, <1>3
  <2>2. \A u \in S!Counted' \ S!Live' : outcome'[u] # "pending"
    BY <1>2, <2>1 DEF ScopeInv, S!IInv, S!KeepsError
  <2>3. scopeError' = NoError => \A u \in S!Counted' \ S!Live' : outcome'[u] = "ok"
    BY <1>2, <1>5, <2>1 DEF ScopeInv, S!IInv, S!KeepsError
  <2>4. scopeError' # NoError => \E u \in S!Counted' \ S!Live' : outcome'[u] = scopeError'
    BY <1>2, <2>1 DEF ScopeInv, S!IInv, S!KeepsError
  <2> QED BY <2>2, <2>3, <2>4 DEF S!KeepsError
<1>11. S!LastCompletes'
  <2>1. \A u \in S!Counted \ {t} : member'[u] = member[u] /\ (u \notin S!Live => member[u] = "done")
    BY <1>2, <1>8 DEF ScopeInv, S!TypeOK, S!CallbackStates, S!Counted, S!Live
  <2>2. member'[t] = "last" => \A u \in S!Counted \ {t} : member'[u] = "done"
    BY <1>1, <1>2, <1>4, <2>1 DEF ScopeInv, S!TypeOK
  <2>3. \A u \in (Others \cup {Group}) \ {t} : member'[u] # "last"
    BY <1>2, <1>8 DEF ScopeInv, S!TypeOK
  <2> QED BY <1>2, <1>3, <1>8, <2>2, <2>3 DEF S!LastCompletes
<1>12. S!TellsOutcome'
  BY <1>2, <1>8 DEF S!TellsOutcome
<1> QED BY <1>6, <1>7, <1>9, <1>10, <1>11, <1>12 DEF ScopeInv, S!IInv

(* Both ways to complete the scope find every task counted off. *)
LEMMA Completes ==
  ASSUME OutcomeType, ScopeInv, S!CompleteInternal, outcome[Completed] = "pending",
         S!Live = {}
  PROVE  /\ ScopeMoves /\ outcome'[Completed] # "pending"
         /\ \A t \in S!Counted : outcome'[t] = outcome[t] /\ outcome[t] # "pending"
         /\ outcome'[Completed] = "ok" => \A t \in S!Counted : outcome'[t] = "ok"
         /\ outcome'[Completed] \in Errors =>
              \E t \in S!Counted : outcome'[t] = outcome'[Completed]
<1>1. /\ outcome' \in [AllTasks -> W!Outcomes]
      /\ outcome'[Completed] = IF scopeError # NoError THEN scopeError ELSE "ok"
      /\ \A u \in AllTasks \ {Completed} : outcome'[u] = outcome[u]
  BY Names DEF S!CompleteInternal, OutcomeType, W!Outcomes, ScopeInv, S!TypeOK
<1>2. ScopeMoves
  BY <1>1, Names DEF ScopeMoves, Grows
<1>3. S!Counted \subseteq AllTasks \ {Completed}
  BY Names DEF S!Counted
<1>4. \A t \in S!Counted : outcome'[t] = outcome[t] /\ outcome[t] # "pending"
  BY <1>1, <1>3 DEF ScopeInv, S!IInv, S!KeepsError
<1>5. scopeError = NoError => \A t \in S!Counted : outcome'[t] = "ok"
  BY <1>4 DEF ScopeInv, S!IInv, S!KeepsError
<1>6. scopeError # NoError => scopeError \in Errors /\ \E t \in S!Counted : outcome'[t] = scopeError
  BY <1>4 DEF ScopeInv, S!IInv, S!KeepsError, S!TypeOK
<1>7. "ok" \notin Errors /\ "pending" \notin Errors
  OBVIOUS
<1> QED BY <1>1, <1>2, <1>4, <1>5, <1>6, <1>7

LEMMA CompleteScopeStep ==
  ASSUME OutcomeType, ScopeInv, NEW t \in Others \cup {Group}, S!CompleteScope(t)
  PROVE  ScopeInv' /\ ScopeMoves
<1> USE DEF S!CompleteScope
<1>1. outcome[Completed] = "pending" /\ \A u \in S!Counted \ {t} : member[u] = "done"
  BY DEF ScopeInv, S!IInv, S!LastCompletes
<1>2. S!Counted' = S!Counted /\ \A u \in S!Counted : member'[u] = "done"
  BY <1>1 DEF ScopeInv, S!TypeOK, S!Counted
<1>3. S!Live = {} /\ S!Live' = {}
  BY <1>1, <1>2 DEF S!Live, S!Counted
<1>4. setcompletion
  BY DEF ScopeInv, S!IInv, S!TakenOnce
<1>5. /\ ScopeMoves /\ outcome'[Completed] # "pending"
      /\ \A u \in S!Counted : outcome'[u] = outcome[u] /\ outcome[u] # "pending"
      /\ outcome'[Completed] = "ok" => \A u \in S!Counted : outcome'[u] = "ok"
      /\ outcome'[Completed] \in Errors =>
           \E u \in S!Counted : outcome'[u] = outcome'[Completed]
  BY <1>1, <1>3, Completes
<1>6. S!TypeOK' /\ LiveCounted'
  BY <1>3 DEF ScopeInv, S!TypeOK, S!CallbackStates, LiveCounted
<1>7. S!TakenOnce'
  BY <1>4 DEF ScopeInv, S!IInv, S!TakenOnce
<1>8. S!KeepsError'
  BY <1>2, <1>3, <1>5 DEF ScopeInv, S!IInv, S!KeepsError
<1>9. S!LastCompletes'
  <2>1. \A u \in Others \cup {Group} : member'[u] # "last"
    BY <1>2, <1>3 DEF S!Counted
  <2> QED BY <1>2, <1>4, <2>1 DEF S!LastCompletes, ScopeInv, S!IInv, S!TakenOnce
<1>10. S!TellsOutcome'
  BY <1>2, <1>5 DEF S!TellsOutcome
<1> QED BY <1>5, <1>6, <1>7, <1>8, <1>9, <1>10 DEF ScopeInv, S!IInv

LEMMA WhenAllStep ==
  ASSUME OutcomeType, ScopeInv, NEW k \in Closers, S!WhenAll(k)
  PROVE  /\ ScopeInv' /\ ScopeMoves
         /\ outcome'[Completed] # outcome[Completed] => \A j \in Closers : closer[j] # "returned"
<1> USE DEF S!WhenAll
<1>1. S!Live' = S!Live /\ S!Counted' = S!Counted
  BY DEF S!Live, S!Counted
<1>2. closer' \in [Closers -> {"idle", "leaving", "returned"}] /\ S!TypeOK' /\ LiveCounted'
  BY <1>1 DEF ScopeInv, S!TypeOK, LiveCounted
<1>3. CASE pending = 0 /\ ~setcompletion
  <2>1. S!Live = {}
    BY <1>3, FS_EmptySet DEF ScopeInv, LiveCounted
  <2>2. ~disposing /\ outcome[Completed] = "pending"
          /\ \A t \in Others \cup {Group} : member[t] # "last"
    BY <1>3 DEF ScopeInv, S!IInv, S!TakenOnce
  <2>3. /\ ScopeMoves /\ outcome'[Completed] # "pending"
        /\ \A u \in S!Counted : outcome'[u] = outcome[u] /\ outcome[u] # "pending"
        /\ outcome'[Completed] = "ok" => \A u \in S!Counted : outcome'[u] = "ok"
        /\ outcome'[Completed] \in Errors =>
             \E u \in S!Counted : outcome'[u] = outcome'[Completed]
    BY <1>3, <2>1, <2>2, Completes
  <2>4. \A t \in S!Counted : member[t] = "done"
    BY <2>1, <2>2 DEF ScopeInv, S!TypeOK, S!CallbackStates, S!Counted, S!Live
  <2>5. S!TakenOnce' /\ S!KeepsError'
    BY <1>1, <1>3, <2>1, <2>3 DEF ScopeInv, S!IInv, S!TakenOnce, S!KeepsError
  <2>6. S!LastCompletes' /\ S!TellsOutcome'
    BY <1>1, <2>2, <2>3, <2>4 DEF S!LastCompletes, S!TellsOutcome
  <2>7. \A j \in Closers : closer[j] = "idle"
    BY <2>2 DEF ScopeInv, S!IInv, S!TakenOnce
  <2> QED BY <1>2, <2>3, <2>5, <2>6, <2>7 DEF ScopeInv, S!IInv
<1>4. CASE ~(pending = 0 /\ ~setcompletion)
  <2>1. UNCHANGED <<setcompletion, outcome>>
    BY <1>4
  <2>2. S!TakenOnce' /\ S!KeepsError'
    BY <1>1, <1>4, <2>1 DEF ScopeInv, S!IInv, S!TypeOK, S!TakenOnce, S!KeepsError
  <2>3. S!LastCompletes' /\ S!TellsOutcome'
    BY <1>1, <2>1 DEF ScopeInv, S!IInv, S!LastCompletes, S!TellsOutcome
  <2>4. ScopeMoves
    BY <2>1 DEF ScopeMoves, Grows, OutcomeType
  <2> QED BY <1>2, <2>1, <2>2, <2>3, <2>4 DEF ScopeInv, S!IInv
<1> QED BY <1>3, <1>4

LEMMA ReturnStep ==
  ASSUME OutcomeType, ScopeInv, NEW k \in Closers, S!WhenAllReturns(k)
  PROVE  ScopeInv' /\ ScopeMoves
<1> USE DEF S!WhenAllReturns
<1>1. S!Live' = S!Live /\ S!Counted' = S!Counted
  BY DEF S!Live, S!Counted
<1>2. S!TypeOK' /\ LiveCounted' /\ ScopeMoves
  BY <1>1 DEF ScopeInv, S!TypeOK, LiveCounted, ScopeMoves, Grows, OutcomeType
<1>3. S!TakenOnce' /\ S!KeepsError'
  BY <1>1 DEF ScopeInv, S!IInv, S!TypeOK, S!TakenOnce, S!KeepsError
<1>4. S!LastCompletes' /\ S!TellsOutcome'
  BY <1>1 DEF ScopeInv, S!IInv, S!LastCompletes, S!TellsOutcome
<1> QED BY <1>2, <1>3, <1>4 DEF ScopeInv, S!IInv

-----------------------------------------------------------------------------
(* A step of the system: one of when_all or of the scope, or neither's. *)
LEMMA GroupActs == OutcomeType /\ GroupInv /\ GroupStep => GroupInv' /\ GroupMoves
                     /\ UNCHANGED scopeVars
BY BeginStep, AddStep, ContinuationStep, CompleteStep DEF GroupStep, W!Step

ScopeStep ==
    \/ \E t \in Others \cup {Group} : CountIn(t) \/ CallbackStep(t)
    \/ \E k \in Closers : Close(k)

LEMMA ScopeActs == OutcomeType /\ ScopeInv /\ ScopeStep => ScopeInv' /\ ScopeMoves
                     /\ UNCHANGED groupVars
BY CountInStep, MemberAddStep, CountOffStep, CompleteScopeStep, WhenAllStep, ReturnStep
   DEF ScopeStep, CountIn, CallbackStep, S!CallbackStep, Close

LEMMA FinishStep ==
  ASSUME OutcomeType, NEW t \in Plain, Finish(t)
  PROVE  GroupMoves /\ ScopeMoves /\ UNCHANGED <<groupVars, scopeVars>>
BY Names DEF Finish, OutcomeType, W!Outcomes, GroupMoves, ScopeMoves, Grows, AllTasks, Plain

LEMMA InvParts ==
  /\ IInv <=> OutcomeType /\ GroupInv /\ ScopeInv
  /\ IInv' <=> OutcomeType' /\ GroupInv' /\ ScopeInv'
BY DEF IInv, TypeOK, OutcomeType, GroupInv, ScopeInv

LEMMA NextInv == IInv /\ [Next]_vars => IInv' /\ Grows
<1> SUFFICES ASSUME IInv, [Next]_vars PROVE IInv' /\ Grows
  OBVIOUS
<1> USE InvParts DEF GroupMoves, ScopeMoves
<1>1. Grows => OutcomeType'
  BY DEF Grows, OutcomeType
<1>2. ASSUME NEW t \in Plain, Finish(t) PROVE IInv' /\ Grows
  BY <1>1, <1>2, FinishStep, GroupKept, ScopeKept
<1>3. CASE GroupStep
  BY <1>1, <1>3, GroupActs, ScopeKept
<1>4. CASE ScopeStep
  BY <1>1, <1>4, ScopeActs, GroupKept
<1>5. CASE UNCHANGED vars
  <2>1. Grows /\ UNCHANGED <<outcome, groupVars, scopeVars>>
    BY <1>5 DEF vars, Grows, OutcomeType
  <2> QED BY <1>1, <2>1, GroupKept, ScopeKept
<1> QED BY <1>2, <1>3, <1>4, <1>5 DEF Next, ScopeStep

LEMMA Invariant == Spec => []IInv
BY InitInv, NextInv, PTL DEF Spec

(* The variables have their types in every reachable state. *)
THEOREM TypeCorrect == Spec => []TypeOK
<1>1. IInv => TypeOK
  BY DEF IInv
<1> QED BY <1>1, Invariant, PTL

(* Each group is completed by exactly one of those that could be the last, *)
(* when everything it waits for is complete.                               *)
THEOREM OneLastCompletes == Spec => []LastCompletes
<1>1. IInv => LastCompletes
  BY DEF IInv, W!IInv, S!IInv, LastCompletes
<1> QED BY <1>1, Invariant, PTL

(* A group succeeds only if all its tasks did, and fails with the error of *)
(* one of them.                                                            *)
THEOREM OutcomeOfTheTasks == Spec => []TellsOutcome
<1>1. IInv => TellsOutcome
  BY DEF IInv, W!IInv, S!IInv, TellsOutcome
<1> QED BY <1>1, Invariant, PTL

(* Nothing that is complete is completed again: no second one of those who *)
(* could be the last, no second call of the scope's when_all.              *)
THEOREM CompletesOnce ==
  Spec => [][\A t \in AllTasks : outcome[t] # "pending" => outcome'[t] = outcome[t]]_vars
<1>1. IInv /\ [Next]_vars =>
        [\A t \in AllTasks : outcome[t] # "pending" => outcome'[t] = outcome[t]]_vars
  BY NextInv DEF Grows
<1> QED BY <1>1, Invariant, PTL DEF Spec

(* when_all of the scope completes its source inside the section only if   *)
(* no caller has the task yet.                                             *)
THEOREM NobodyInside == Spec => NoContinuationInside
<1>1. ASSUME IInv, [Next]_vars PROVE [S!NoContinuationInside]_vars
  <2> SUFFICES ASSUME NEW k \in Closers, closer[k] = "idle", closer'[k] # "idle",
                      outcome'[Completed] # outcome[Completed]
               PROVE  \A j \in Closers : closer[j] # "returned"
    BY DEF S!NoContinuationInside
  <2>1. ScopeStep
    <3>1. ~GroupStep
      BY <1>1, GroupActs, InvParts DEF scopeVars
    <3>2. \A t \in Plain : ~Finish(t)
      BY DEF Finish, scopeVars
    <3>3. ~UNCHANGED vars
      BY DEF vars
    <3> QED BY <1>1, <3>1, <3>2, <3>3 DEF Next, ScopeStep
  <2>2. PICK j \in Closers : S!WhenAll(j)
    <3>1. ASSUME NEW t \in Others \cup {Group}, CountIn(t) \/ CallbackStep(t) PROVE FALSE
      BY <3>1 DEF CountIn, CallbackStep, S!CountIn, S!CallbackStep, S!AddContinuation,
                  S!Continuation, S!CompleteScope
    <3>2. \A j \in Closers : ~S!WhenAllReturns(j)
      BY DEF S!WhenAllReturns
    <3> QED BY <2>1, <3>1, <3>2 DEF ScopeStep, Close
  <2> QED BY <1>1, <2>2, WhenAllStep, InvParts
<1> QED BY <1>1, Invariant, PTL DEF Spec, NoContinuationInside

-----------------------------------------------------------------------------
(* Chains of tasks.                                                          *)
HIDE TaskGroupsAssumption

(***************************************************************************)
(* What each task has given to those who asked, and what holds of one      *)
(* work or one coroutine in terms of it.                                   *)
(***************************************************************************)
Gives == [d \in Tasks |-> Given(d)]

\* What a work depends on, and that nothing it was given was lost on the way:
\* a callable that takes a value runs only behind a success.
WorkInv(w) ==
    /\ state[w] = "unborn" => parent[w] = NoTask
    /\ state[w] \in {"unborn", "waiting", "running"} => inner[w] = NoTask
    /\ state[w] = "unwrapping" => inner[w] # NoTask
    /\ state[w] \in {"running", "unwrapping"} =>
         parent[w] = NoTask \/ takes[w] = "expected" \/ "ok" \in Gives[parent[w]]
    /\ result[w] \in Work!Failures =>
         \/ body[w] = result[w]
         \/ \E d \in {parent[w], inner[w]} \cap Tasks : result[w] \in Gives[d]
         \/ /\ result[w] = "canceled" /\ token[w] \in cancelled
            /\ takes[w] = "value" /\ parent[w] # NoTask => "ok" \in Gives[parent[w]]
    /\ result[w] = "ok" =>
         \A d \in {parent[w], inner[w]} \cap Tasks :
            "ok" \in Gives[d] \/ (d = parent[w] /\ takes[w] = "expected")

\* The i-th result a coroutine was handed is one its task gave.
Handed(c) ==
    \A i \in 1 .. Len(got[c]) :
        IF awaited[c][i] = NoTask THEN got[c][i] = "ok"
                                  ELSE got[c][i] \in Gives[awaited[c][i]]

\* What a coroutine has not looked at it still holds: in its variable, in its
\* hand or in the exception in flight.
Holding(c) ==
    /\ hand[c] <= Len(got[c]) /\ kept[c] <= Len(got[c])
    /\ \A i \in unseen[c] : i \in 1 .. Len(got[c]) /\ got[c][i] \in Work!Failures
    /\ point[c] \in {"unborn", "running", "awaiting", "leaving"} => unseen[c] \subseteq {kept[c]}
    /\ point[c] \in {"resumed", "unobserved", "throwing"} => unseen[c] \subseteq {kept[c], hand[c]}
    /\ point[c] \in {"unobserved", "throwing"} =>
         hand[c] # 0 /\ got[c][hand[c]] \in Work!Failures

Ended(c) ==
    /\ point[c] = "leaving" => result[c] = coroBody[c]
    /\ result[c] \in Work!Failures =>
         \/ coroBody[c] = result[c]
         \/ \E i \in 1 .. Len(got[c]) : awaited[c][i] \in Tasks /\ result[c] \in Gives[awaited[c][i]]
    /\ result[c] = "ok" /\ point[c] = "done" => unseen[c] = {}

CoroInv(c) ==
    /\ point[c] = "awaiting" => Len(awaited[c]) = Len(got[c]) + 1
    /\ point[c] # "awaiting" => Len(awaited[c]) = Len(got[c])
    /\ Handed(c) /\ Holding(c) /\ Ended(c)

ChainInv ==
    /\ ChainTypeOK
    /\ \A w \in Works : WorkInv(w)
    /\ \A c \in Coros : CoroInv(c)

(***************************************************************************)
(* What a step may do to the results others depend on, and to a task that  *)
(* it is not a step of.                                                    *)
(***************************************************************************)
Kept == \A d \in Tasks : result[d] # "none" => Gives[d] \subseteq Gives'[d]

SameWork(w) ==
    /\ result'[w] = result[w] /\ state'[w] = state[w] /\ parent'[w] = parent[w]
    /\ takes'[w] = takes[w] /\ token'[w] = token[w]
    /\ inner'[w] = inner[w] /\ body'[w] = body[w]

SameCoro(c) ==
    /\ result'[c] = result[c] /\ point'[c] = point[c]
    /\ awaited'[c] = awaited[c] /\ got'[c] = got[c]
    /\ hand'[c] = hand[c] /\ kept'[c] = kept[c]
    /\ coroBody'[c] = coroBody[c] /\ unseen'[c] = unseen[c]

LEMMA GivesOfTask ==
  ASSUME NEW d \in Tasks
  PROVE  /\ Gives[d] = {result[d]} \cup
                       (IF d \in Coros /\ point[d] = "broken" THEN {coroBody[d]} ELSE {})
         /\ Gives'[d] = {result'[d]} \cup
                        (IF d \in Coros /\ point'[d] = "broken" THEN {coroBody'[d]} ELSE {})
BY DEF Gives, Given

LEMMA TaskSets ==
  /\ Works \subseteq Tasks /\ Coros \subseteq Tasks /\ NoTask \notin Tasks
  /\ \A t \in Tasks : t \in Works \/ t \in Coros
  /\ \A w \in Works : w \notin Coros
  /\ Work!Tasks = Tasks
BY TaskChainAssumption DEF Tasks, Work!Tasks

LEMMA NotFailures == "none" \notin Work!Failures /\ "ok" \notin Work!Failures
BY TaskChainAssumption DEF Work!Failures

LEMMA SourcesOf ==
  /\ \A w \in Works : Sources(w) = {parent[w], inner[w]} \cap Tasks
  /\ \A c \in Coros : Sources(c) = {awaited[c][i] : i \in DOMAIN awaited[c]} \cap Tasks
<1>1. ASSUME NEW w \in Works
      PROVE  Sources(w) = {parent[w], inner[w]} \cap Tasks
  <2>1. ASSUME NEW d \in Tasks
        PROVE  <<w, d>> \in Work!WorkEdges \cup Coro!CoroEdges <=> d \in {parent[w], inner[w]}
    BY <1>1, <2>1, TaskSets DEF Work!WorkEdges, Coro!CoroEdges
  <2> QED BY <2>1 DEF Sources, Successors, Graph
<1>2. ASSUME NEW c \in Coros
      PROVE  Sources(c) = {awaited[c][i] : i \in DOMAIN awaited[c]} \cap Tasks
  <2>1. ASSUME NEW d \in Tasks
        PROVE  <<c, d>> \in Work!WorkEdges \cup Coro!CoroEdges
                 <=> d \in {awaited[c][i] : i \in DOMAIN awaited[c]}
    BY <1>2, <2>1, TaskSets DEF Work!WorkEdges, Coro!CoroEdges, Coro!ToSet
  <2> QED BY <2>1 DEF Sources, Successors, Graph
<1> QED BY <1>1, <1>2

(* The invariant says of each task what the property asks of it. *)
LEMMA InvTravels == ChainInv => ErrorsTravel
<1> SUFFICES ASSUME ChainInv, NEW t \in Tasks
             PROVE  /\ result[t] \in Work!Failures => HasOrigin(t)
                    /\ result[t] = "ok" => NothingSwallowed(t)
  BY DEF ErrorsTravel
<1>g. \A d \in Tasks : Gives[d] = Given(d)
  BY DEF Gives
<1>1. CASE t \in Works
  <2>1. WorkInv(t) /\ parent[t] \in Tasks \cup {NoTask}
    BY <1>1, TaskSets DEF ChainInv, ChainTypeOK, Work!TypeOK
  <2>2. Sources(t) = {parent[t], inner[t]} \cap Tasks
    BY <1>1, SourcesOf
  <2>3. ASSUME result[t] \in Work!Failures PROVE HasOrigin(t)
    <3>1. CASE body[t] = result[t]
      BY <1>1, <3>1 DEF HasOrigin, Produced
    <3>2. CASE \E d \in {parent[t], inner[t]} \cap Tasks : result[t] \in Gives[d]
      BY <2>2, <3>2, <1>g DEF HasOrigin
    <3>3. CASE /\ result[t] = "canceled" /\ token[t] \in cancelled
               /\ takes[t] = "value" /\ parent[t] # NoTask => "ok" \in Gives[parent[t]]
      BY <1>1, <2>1, <3>3, <1>g DEF HasOrigin
    <3> QED BY <2>1, <2>3, <3>1, <3>2, <3>3 DEF WorkInv
  <2>4. ASSUME result[t] = "ok" PROVE NothingSwallowed(t)
    BY <1>1, <2>1, <2>2, <2>4, <1>g DEF WorkInv, NothingSwallowed
  <2> QED BY <2>3, <2>4
<1>2. CASE t \in Coros
  <2>1. CoroInv(t) /\ t \notin Works
    BY <1>2, TaskSets DEF ChainInv
  <2>2. /\ Len(got[t]) \in Nat /\ Len(got[t]) <= Len(awaited[t])
        /\ DOMAIN awaited[t] = 1 .. Len(awaited[t]) /\ Len(awaited[t]) \in Nat
    BY <1>2 DEF ChainInv, ChainTypeOK, Coro!TypeOK
  <2>3. Sources(t) = {awaited[t][i] : i \in DOMAIN awaited[t]} \cap Tasks
    BY <1>2, SourcesOf
  <2>4. ASSUME result[t] \in Work!Failures PROVE HasOrigin(t)
    <3>1. CASE coroBody[t] = result[t]
      BY <2>1, <3>1 DEF HasOrigin, Produced
    <3>2. ASSUME NEW i \in 1 .. Len(got[t]), awaited[t][i] \in Tasks, result[t] \in Gives[awaited[t][i]]
          PROVE  HasOrigin(t)
      <4>1. awaited[t][i] \in Sources(t)
        BY <2>2, <2>3, <3>2
      <4> QED BY <4>1, <3>2, <1>g DEF HasOrigin
    <3> QED BY <2>1, <2>4, <3>1, <3>2 DEF CoroInv, Ended
  <2>5. ASSUME result[t] = "ok" PROVE NothingSwallowed(t)
    BY <2>1, <2>5 DEF CoroInv, Ended, NothingSwallowed
  <2> QED BY <2>4, <2>5
<1> QED BY <1>1, <1>2, TaskSets

LEMMA StaysGiven ==
  ASSUME ChainTypeOK, Kept, NEW d \in Tasks, NEW r \in Gives[d], r # "none"
  PROVE  r \in Gives'[d]
<1>1. CASE result[d] # "none"
  BY <1>1 DEF Kept
<1>2. CASE result[d] = "none"
  BY <1>2, GivesOfTask DEF ChainTypeOK
<1> QED BY <1>1, <1>2

LEMMA WorkUntouched ==
  ASSUME NEW w \in Works, ChainTypeOK, WorkInv(w), SameWork(w), Kept, cancelled \subseteq cancelled'
  PROVE  WorkInv(w)'
<1>1. parent[w] \in Tasks \cup {NoTask}
  BY TaskSets DEF ChainTypeOK, Work!TypeOK
<1>2. \A d \in Tasks : \A r \in Gives[d] : r # "none" => r \in Gives'[d]
  BY StaysGiven
<1> QED BY <1>1, <1>2, TaskSets, NotFailures DEF WorkInv, SameWork

LEMMA CoroUntouched ==
  ASSUME NEW c \in Coros, ChainTypeOK, CoroInv(c), SameCoro(c), Kept
  PROVE  CoroInv(c)'
<1>1. /\ Len(got[c]) \in Nat
      /\ \A i \in 1 .. Len(got[c]) : got[c][i] = "ok" \/ got[c][i] \in Work!Failures
      /\ \A i \in 1 .. Len(got[c]) : awaited[c][i] \in Tasks \cup {NoTask}
  BY DEF ChainTypeOK, Coro!TypeOK, CoroInv, Work!Tasks, Tasks
<1>2. \A d \in Tasks : \A r \in Gives[d] : r # "none" => r \in Gives'[d]
  BY StaysGiven
<1>3. Handed(c)'
  <2> SUFFICES ASSUME NEW i \in 1 .. Len(got[c])
               PROVE  IF awaited[c][i] = NoTask THEN got[c][i] = "ok"
                                                ELSE got[c][i] \in Gives'[awaited[c][i]]
    BY DEF Handed, SameCoro
  <2> QED BY <1>1, <1>2, NotFailures DEF CoroInv, Handed
<1>4. Holding(c)'
  BY DEF CoroInv, Holding, SameCoro
<1>5. Ended(c)'
  <2>1. result[c] # "none" \/ result[c] \notin Work!Failures
    BY NotFailures
  <2> QED BY <1>1, <1>2, <2>1, NotFailures DEF CoroInv, Ended, SameCoro
<1> QED BY <1>3, <1>4, <1>5 DEF CoroInv, SameCoro

LEMMA ResultsKept ==
  ASSUME ChainTypeOK, NEW t \in Tasks,
         \A d \in Tasks : d # t => result'[d] = result[d],
         \A d \in Coros : d # t => point'[d] = point[d] /\ coroBody'[d] = coroBody[d],
         result[t] # "none" => Gives[t] \subseteq Gives'[t]
  PROVE  Kept
<1> SUFFICES ASSUME NEW d \in Tasks, result[d] # "none", d # t
             PROVE  Gives[d] \subseteq Gives'[d]
  BY DEF Kept
<1> QED BY GivesOfTask, TaskSets

(* What is to be shown of a step of the work w, or of the coroutine c. *)
StepOfWork(w) ==
    /\ \A v \in Works : v # w => SameWork(v)
    /\ \A c \in Coros : SameCoro(c)
    /\ Kept /\ cancelled \subseteq cancelled'

StepOfCoro(c) ==
    /\ \A w \in Works : SameWork(w)
    /\ \A d \in Coros : d # c => SameCoro(d)
    /\ Kept /\ cancelled \subseteq cancelled'

LEMMA RestOfWork ==
  ASSUME NEW w \in Works, ChainInv, StepOfWork(w), ChainTypeOK', WorkInv(w)'
  PROVE  ChainInv' /\ Kept
<1>1. ASSUME NEW v \in Works PROVE WorkInv(v)'
  <2>1. CASE v = w
    BY <2>1
  <2>2. CASE v # w
    BY <2>2, WorkUntouched DEF StepOfWork, ChainInv
  <2> QED BY <2>1, <2>2
<1>2. ASSUME NEW c \in Coros PROVE CoroInv(c)'
  BY CoroUntouched DEF StepOfWork, ChainInv
<1> QED BY <1>1, <1>2 DEF ChainInv, StepOfWork

LEMMA RestOfCoro ==
  ASSUME NEW c \in Coros, ChainInv, StepOfCoro(c), ChainTypeOK', CoroInv(c)'
  PROVE  ChainInv' /\ Kept
<1>1. ASSUME NEW d \in Coros PROVE CoroInv(d)'
  <2>1. CASE d = c
    BY <2>1
  <2>2. CASE d # c
    BY <2>2, CoroUntouched DEF StepOfCoro, ChainInv
  <2> QED BY <2>1, <2>2
<1>2. ASSUME NEW w \in Works PROVE WorkInv(w)'
  BY WorkUntouched DEF StepOfCoro, ChainInv
<1> QED BY <1>1, <1>2 DEF ChainInv, StepOfCoro

LEMMA ChainInitInv == ChainInit => ChainInv
<1> SUFFICES ASSUME ChainInit PROVE ChainInv
  OBVIOUS
<1> USE DEF ChainInit, Work!Init, Coro!Init
<1>1. ChainTypeOK
  <2>1. Work!TypeOK
    BY TaskSets DEF Work!TypeOK, Work!Results
  <2>2. Coro!TypeOK
    BY TaskChainAssumption DEF Coro!TypeOK, Coro!States
  <2> QED BY <2>1, <2>2, TaskSets DEF ChainTypeOK, Work!Results
<1>2. ASSUME NEW w \in Works PROVE WorkInv(w)
  BY <1>2, TaskSets, NotFailures DEF WorkInv
<1>3. ASSUME NEW c \in Coros PROVE CoroInv(c)
  BY <1>3, TaskSets, NotFailures DEF CoroInv, Handed, Holding, Ended
<1> QED BY <1>1, <1>2, <1>3 DEF ChainInv

-----------------------------------------------------------------------------
(* The steps of a work, which has no result before. *)

WorkMoves(w) ==
    /\ UNCHANGED coroVars
    /\ Work!TypeOK' /\ result' \in [Tasks -> Work!Results]
    /\ \A v \in Works : v # w => SameWork(v)
    /\ \A c \in Coros : result'[c] = result[c]
    /\ cancelled \subseteq cancelled'
    /\ result[w] = "none"
    /\ result'[w] # "none" <=> state'[w] = "done"

LEMMA MovesIsStep ==
  ASSUME ChainInv, NEW w \in Works, WorkMoves(w)
  PROVE  ChainTypeOK' /\ StepOfWork(w)
<1>1. \A c \in Coros : SameCoro(c)
  BY DEF WorkMoves, SameCoro, coroVars
<1>2. Coro!TypeOK'
  BY DEF WorkMoves, coroVars, ChainInv, ChainTypeOK, Coro!TypeOK
<1>3. \A v \in Works : result'[v] # "none" <=> state'[v] = "done"
  BY DEF WorkMoves, SameWork, ChainInv, ChainTypeOK
<1>4. ChainTypeOK'
  BY <1>1, <1>2, <1>3 DEF WorkMoves, ChainInv, ChainTypeOK, SameCoro
<1>5. Kept
  <2>1. \A d \in Tasks : d # w => result'[d] = result[d]
    BY TaskSets DEF WorkMoves, SameWork
  <2>2. \A d \in Coros : point'[d] = point[d] /\ coroBody'[d] = coroBody[d]
    BY <1>1 DEF SameCoro
  <2> QED BY <2>1, <2>2, TaskSets, ResultsKept DEF WorkMoves, ChainInv
<1> QED BY <1>1, <1>4, <1>5 DEF StepOfWork, WorkMoves

LEMMA CreateStep ==
  ASSUME ChainInv, NEW w \in Works, NEW p \in Tasks \cup {NoTask}, NEW kind \in {"value", "expected"},
         NEW k \in Tokens \cup {NoToken}, Work!Create(w, p, kind, k), UNCHANGED coroVars
  PROVE  ChainInv' /\ Kept
<1> USE DEF Work!Create, Work!Goto
<1>1. WorkMoves(w)
  <2>1. Work!TypeOK'
    BY TaskSets DEF ChainInv, ChainTypeOK, Work!TypeOK
  <2>2. \A v \in Works : v # w => SameWork(v)
    BY DEF SameWork, ChainInv, ChainTypeOK, Work!TypeOK
  <2> QED BY <2>1, <2>2, TaskSets DEF WorkMoves, ChainInv, ChainTypeOK, Work!TypeOK
<1>2. WorkInv(w)'
  <2>1. /\ state'[w] = "waiting" /\ inner'[w] = NoTask /\ result'[w] = "none"
    BY TaskSets DEF ChainInv, ChainTypeOK, Work!TypeOK, WorkInv
  <2> QED BY <2>1, NotFailures DEF WorkInv
<1> QED BY <1>1, <1>2, MovesIsStep, RestOfWork

LEMMA FromSourceStep ==
  ASSUME ChainInv, NEW w \in Works, NEW r \in {"ok"} \cup Work!Failures,
         Work!FromSource(w, r), UNCHANGED coroVars
  PROVE  ChainInv' /\ Kept
<1> USE DEF Work!FromSource, Work!Goto, Work!Complete
<1>0. r \in Work!Results /\ r # "none"
  BY NotFailures DEF Work!Results
<1>1. WorkMoves(w)
  <2>1. Work!TypeOK'
    BY <1>0, TaskSets DEF ChainInv, ChainTypeOK, Work!TypeOK
  <2>2. \A v \in Works : v # w => SameWork(v)
    BY TaskSets DEF SameWork, ChainInv, ChainTypeOK, Work!TypeOK
  <2> QED BY <1>0, <2>1, <2>2, TaskSets DEF WorkMoves, ChainInv, ChainTypeOK, Work!TypeOK
<1>2. WorkInv(w)'
  <2>1. /\ state'[w] = "done" /\ result'[w] = r /\ body'[w] = r
        /\ parent'[w] = NoTask /\ inner'[w] = NoTask
    BY TaskSets DEF ChainInv, ChainTypeOK, Work!TypeOK, WorkInv
  <2> QED BY <2>1, TaskSets DEF WorkInv
<1> QED BY <1>1, <1>2, MovesIsStep, RestOfWork

LEMMA CancelStep ==
  ASSUME ChainInv, NEW k \in Tokens, Work!Cancel(k), UNCHANGED coroVars
  PROVE  ChainInv' /\ Kept
<1> USE DEF Work!Cancel, Work!workVars
<1>1. ChainTypeOK'
  BY DEF ChainInv, ChainTypeOK, Work!TypeOK, Coro!TypeOK, coroVars
<1>2. Kept
  BY GivesOfTask DEF Kept, coroVars
<1>3. \A w \in Works : WorkInv(w)'
  BY <1>2, WorkUntouched DEF SameWork, ChainInv
<1>4. \A c \in Coros : CoroInv(c)'
  BY <1>2, CoroUntouched DEF SameCoro, ChainInv, coroVars
<1> QED BY <1>1, <1>2, <1>3, <1>4 DEF ChainInv

(* What a work is given is ready when it goes on. *)
LEMMA InputReady ==
  ASSUME ChainInv, NEW w \in Works, Work!Input(w) # "none"
  PROVE  /\ Work!Input(w) \in {"ok"} \cup Work!Failures
         /\ parent[w] = NoTask => Work!Input(w) = "ok"
         /\ parent[w] # NoTask => parent[w] \in Tasks /\ Work!Input(w) \in Gives[parent[w]]
                                  /\ result[parent[w]] # "none"
BY TaskSets, GivesOfTask DEF Work!Input, ChainInv, ChainTypeOK, Work!TypeOK, Work!Results

LEMMA RefuseStep ==
  ASSUME ChainInv, NEW w \in Works, Work!Refuse(w), UNCHANGED coroVars
  PROVE  ChainInv' /\ Kept
<1> DEFINE r == Work!Refusal(w)
<1>a. r \in Work!Failures
  BY InputReady DEF Work!Refuse, Work!Refusal, Work!Failures
<1>b. result' = [result EXCEPT ![w] = r] /\ state' = [state EXCEPT ![w] = "done"]
      /\ UNCHANGED <<cancelled, parent, takes, token, inner, body>> /\ state[w] = "waiting"
      /\ Work!Input(w) # "none"
  BY DEF Work!Refuse, Work!Goto, Work!Complete
<1>c. \/ takes[w] = "value" /\ Work!Input(w) = r
      \/ r = "canceled" /\ token[w] \in cancelled /\ (takes[w] = "value" => Work!Input(w) = "ok")
  BY <1>a, <1>b, InputReady, NotFailures DEF Work!Refusal
<1> HIDE DEF r
<1>0. r \in Work!Results /\ r # "none" /\ r # "ok"
  BY <1>a, NotFailures DEF Work!Results
<1>1. WorkMoves(w)
  <2>1. Work!TypeOK'
    BY <1>b, <1>0, TaskSets DEF ChainInv, ChainTypeOK, Work!TypeOK
  <2>2. \A v \in Works : v # w => SameWork(v)
    BY <1>b, TaskSets DEF SameWork, ChainInv, ChainTypeOK, Work!TypeOK
  <2> QED BY <1>b, <1>0, <2>1, <2>2, TaskSets DEF WorkMoves, ChainInv, ChainTypeOK, Work!TypeOK
<1>2. WorkInv(w)'
  <2>1. /\ state'[w] = "done" /\ result'[w] = r
    BY <1>b, TaskSets DEF ChainInv, ChainTypeOK, Work!TypeOK
  <2>2. Kept
    BY <1>1, MovesIsStep DEF StepOfWork
  <2>3. parent[w] # NoTask => parent[w] \in Tasks /\ Work!Input(w) \in Gives'[parent[w]]
    BY <1>b, <2>2, InputReady DEF Kept
  <2>4. parent[w] = NoTask => Work!Input(w) = "ok"
    BY <1>b, InputReady
  <2> QED BY <1>b, <1>c, <1>0, <2>1, <2>3, <2>4, <1>a, NotFailures DEF WorkInv
<1> QED BY <1>1, <1>2, MovesIsStep, RestOfWork

LEMMA InvokeStep ==
  ASSUME ChainInv, NEW w \in Works, Work!Invoke(w), UNCHANGED coroVars
  PROVE  ChainInv' /\ Kept
<1> USE DEF Work!Invoke, Work!Goto
<1>1. WorkMoves(w)
  <2>1. Work!TypeOK'
    BY TaskSets DEF ChainInv, ChainTypeOK, Work!TypeOK
  <2>2. \A v \in Works : v # w => SameWork(v)
    BY DEF SameWork, ChainInv, ChainTypeOK, Work!TypeOK
  <2> QED BY <2>1, <2>2, TaskSets DEF WorkMoves, ChainInv, ChainTypeOK, Work!TypeOK
<1>2. WorkInv(w)'
  <2>1. /\ state'[w] = "running" /\ inner'[w] = NoTask /\ result'[w] = "none"
        /\ parent'[w] = parent[w] /\ takes'[w] = takes[w] /\ takes[w] \in {"value", "expected"}
    BY TaskSets DEF ChainInv, ChainTypeOK, Work!TypeOK, WorkInv
  <2>2. takes[w] = "value" => Work!Input(w) = "ok"
    BY InputReady, NotFailures DEF Work!Refusal
  <2>3. parent[w] = NoTask \/ takes[w] = "expected" \/ "ok" \in Gives'[parent[w]]
    BY <1>1, <2>1, <2>2, InputReady, MovesIsStep DEF StepOfWork, Kept
  <2> QED BY <2>1, <2>3, NotFailures DEF WorkInv
<1> QED BY <1>1, <1>2, MovesIsStep, RestOfWork

LEMMA WorkReturnStep ==
  ASSUME ChainInv, NEW w \in Works, NEW o \in {"ok"} \cup Work!Failures,
         Work!Return(w, o), UNCHANGED coroVars
  PROVE  ChainInv' /\ Kept
<1> USE DEF Work!Return, Work!Goto, Work!Complete
<1>0. o \in Work!Results /\ o # "none"
  BY NotFailures DEF Work!Results
<1>1. WorkMoves(w)
  <2>1. Work!TypeOK'
    BY <1>0, TaskSets DEF ChainInv, ChainTypeOK, Work!TypeOK
  <2>2. \A v \in Works : v # w => SameWork(v)
    BY TaskSets DEF SameWork, ChainInv, ChainTypeOK, Work!TypeOK
  <2> QED BY <1>0, <2>1, <2>2, TaskSets DEF WorkMoves, ChainInv, ChainTypeOK, Work!TypeOK
<1>2. WorkInv(w)'
  <2>1. /\ state'[w] = "done" /\ result'[w] = o /\ body'[w] = o
        /\ parent'[w] = parent[w] /\ takes'[w] = takes[w]
        /\ inner'[w] = NoTask /\ parent[w] \in Tasks \cup {NoTask}
    BY TaskSets DEF ChainInv, ChainTypeOK, Work!TypeOK, WorkInv
  <2>2. parent[w] = NoTask \/ takes[w] = "expected" \/ "ok" \in Gives[parent[w]]
    BY DEF ChainInv, WorkInv
  <2>3. "ok" \in Gives[parent[w]] /\ parent[w] \in Tasks => "ok" \in Gives'[parent[w]]
    BY <1>1, MovesIsStep, StaysGiven DEF StepOfWork, ChainInv
  <2> QED BY <2>1, <2>2, <2>3, TaskSets DEF WorkInv
<1> QED BY <1>1, <1>2, MovesIsStep, RestOfWork

LEMMA ReturnTaskStep ==
  ASSUME ChainInv, NEW w \in Works, NEW t \in Tasks, Work!ReturnTask(w, t), UNCHANGED coroVars
  PROVE  ChainInv' /\ Kept
<1> USE DEF Work!ReturnTask, Work!Goto
<1>1. WorkMoves(w)
  <2>1. Work!TypeOK'
    BY TaskSets DEF ChainInv, ChainTypeOK, Work!TypeOK, Work!Results
  <2>2. \A v \in Works : v # w => SameWork(v)
    BY DEF SameWork, ChainInv, ChainTypeOK, Work!TypeOK
  <2> QED BY <2>1, <2>2, TaskSets DEF WorkMoves, ChainInv, ChainTypeOK, Work!TypeOK
<1>2. WorkInv(w)'
  <2>1. /\ state'[w] = "unwrapping" /\ result'[w] = "none" /\ inner'[w] = t
        /\ parent'[w] = parent[w] /\ takes'[w] = takes[w]
        /\ parent[w] \in Tasks \cup {NoTask}
    BY TaskSets DEF ChainInv, ChainTypeOK, Work!TypeOK, WorkInv
  <2>2. parent[w] = NoTask \/ takes[w] = "expected" \/ "ok" \in Gives[parent[w]]
    BY DEF ChainInv, WorkInv
  <2>3. "ok" \in Gives[parent[w]] /\ parent[w] \in Tasks => "ok" \in Gives'[parent[w]]
    BY <1>1, MovesIsStep, StaysGiven DEF StepOfWork, ChainInv
  <2> QED BY <2>1, <2>2, <2>3, TaskSets, NotFailures DEF WorkInv
<1> QED BY <1>1, <1>2, MovesIsStep, RestOfWork

LEMMA UnwrapStep ==
  ASSUME ChainInv, NEW w \in Works, Work!Unwrap(w), UNCHANGED coroVars
  PROVE  ChainInv' /\ Kept
<1> DEFINE r == result[inner[w]]
<1>a. inner[w] \in Tasks
  BY TaskSets DEF Work!Unwrap, ChainInv, ChainTypeOK, Work!TypeOK, WorkInv
<1>b. result' = [result EXCEPT ![w] = r] /\ state' = [state EXCEPT ![w] = "done"]
      /\ UNCHANGED <<cancelled, parent, takes, token, inner, body>> /\ state[w] = "unwrapping"
  BY DEF Work!Unwrap, Work!Goto, Work!Complete
<1>0. r \in Work!Results /\ r # "none" /\ r \in Gives[inner[w]]
  BY <1>a, GivesOfTask DEF ChainInv, ChainTypeOK, Work!Unwrap
<1>c. result[inner[w]] # "none"
  BY DEF Work!Unwrap
<1> HIDE DEF r
<1>1. WorkMoves(w)
  <2>1. Work!TypeOK'
    BY <1>b, <1>0, TaskSets DEF ChainInv, ChainTypeOK, Work!TypeOK
  <2>2. \A v \in Works : v # w => SameWork(v)
    BY <1>b, TaskSets DEF SameWork, ChainInv, ChainTypeOK, Work!TypeOK
  <2> QED BY <1>b, <1>0, <2>1, <2>2, TaskSets DEF WorkMoves, ChainInv, ChainTypeOK, Work!TypeOK
<1>2. WorkInv(w)'
  <2>1. /\ state'[w] = "done" /\ result'[w] = r /\ parent[w] \in Tasks \cup {NoTask}
    BY <1>b, TaskSets DEF ChainInv, ChainTypeOK, Work!TypeOK
  <2>2. Kept
    BY <1>1, MovesIsStep DEF StepOfWork
  <2>3. r \in Gives'[inner[w]]
    BY <1>a, <1>0, <1>c, <2>2 DEF Kept
  <2>4. parent[w] = NoTask \/ takes[w] = "expected" \/ "ok" \in Gives[parent[w]]
    BY <1>b DEF ChainInv, WorkInv
  <2>5. "ok" \in Gives[parent[w]] /\ parent[w] \in Tasks => "ok" \in Gives'[parent[w]]
    BY <2>2, StaysGiven DEF ChainInv
  <2> QED BY <1>a, <1>b, <1>0, <2>1, <2>3, <2>4, <2>5, TaskSets, NotFailures DEF WorkInv
<1> QED BY <1>1, <1>2, MovesIsStep, RestOfWork

-----------------------------------------------------------------------------
(* The steps of a coroutine.  Only leaving one replaces a result. *)

CoroMoves(c) ==
    /\ UNCHANGED <<cancelled, workVars>>
    /\ Coro!TypeOK' /\ result' \in [Tasks -> Work!Results]
    /\ \A d \in Coros : d # c => SameCoro(d)
    /\ \A w \in Works : result'[w] = result[w]
    /\ result'[c] # "none" <=> point'[c] \in {"leaving", "done", "broken"}
    /\ result[c] # "none" => Gives[c] \subseteq Gives'[c]

LEMMA CoroMovesIsStep ==
  ASSUME ChainInv, NEW c \in Coros, CoroMoves(c)
  PROVE  ChainTypeOK' /\ StepOfCoro(c)
<1>1. \A w \in Works : SameWork(w)
  BY DEF CoroMoves, SameWork, workVars
<1>2. Work!TypeOK'
  BY DEF CoroMoves, workVars, ChainInv, ChainTypeOK, Work!TypeOK
<1>3. \A d \in Coros : result'[d] # "none" <=> point'[d] \in {"leaving", "done", "broken"}
  BY DEF CoroMoves, SameCoro, ChainInv, ChainTypeOK
<1>4. ChainTypeOK'
  BY <1>1, <1>2, <1>3 DEF CoroMoves, ChainInv, ChainTypeOK, SameWork
<1>5. Kept
  <2>1. \A d \in Tasks : d # c => result'[d] = result[d]
    BY TaskSets DEF CoroMoves, SameCoro
  <2>2. \A d \in Coros : d # c => point'[d] = point[d] /\ coroBody'[d] = coroBody[d]
    BY DEF CoroMoves, SameCoro
  <2> QED BY <2>1, <2>2, TaskSets, ResultsKept DEF CoroMoves, ChainInv
<1> QED BY <1>1, <1>4, <1>5 DEF StepOfCoro, CoroMoves

(* The facts about one coroutine that its steps start from. *)
LEMMA CoroFacts ==
  ASSUME ChainInv, NEW c \in Coros
  PROVE  /\ awaited[c] \in Seq(Tasks \cup {NoTask}) /\ got[c] \in Seq({"ok"} \cup Work!Failures)
         /\ Len(awaited[c]) \in Nat /\ Len(got[c]) \in Nat
         /\ hand[c] \in Nat /\ kept[c] \in Nat /\ MaxAwaits \in Nat
         /\ \A i \in 1 .. Len(got[c]) : got[c][i] \in {"ok"} \cup Work!Failures
         /\ \A i \in 1 .. Len(got[c]) : awaited[c][i] \in Tasks \cup {NoTask}
         /\ CoroInv(c)
<1>1. awaited[c] \in Seq(Tasks \cup {NoTask}) /\ got[c] \in Seq({"ok"} \cup Work!Failures)
  BY TaskSets DEF ChainInv, ChainTypeOK, Coro!TypeOK
<1>2. hand[c] \in Nat /\ kept[c] \in Nat /\ MaxAwaits \in Nat
  BY TaskChainAssumption DEF ChainInv, ChainTypeOK, Coro!TypeOK
<1>3. CoroInv(c)
  BY DEF ChainInv
<1>4. Len(awaited[c]) \in Nat /\ Len(got[c]) \in Nat
  BY <1>1
<1>5. \A i \in 1 .. Len(got[c]) : got[c][i] \in {"ok"} \cup Work!Failures
  BY <1>1
<1>6. Len(got[c]) <= Len(awaited[c])
  BY DEF ChainInv, ChainTypeOK, Coro!TypeOK
<1>7. \A i \in 1 .. Len(got[c]) : awaited[c][i] \in Tasks \cup {NoTask}
  BY <1>1, <1>4, <1>6
<1> QED BY <1>1, <1>2, <1>3, <1>4, <1>5, <1>7

LEMMA HandedStays ==
  ASSUME ChainInv, NEW c \in Coros, Kept, UNCHANGED <<awaited, got>>
  PROVE  Handed(c)'
<1> SUFFICES ASSUME NEW i \in 1 .. Len(got[c])
             PROVE  IF awaited[c][i] = NoTask THEN got[c][i] = "ok"
                                              ELSE got[c][i] \in Gives'[awaited[c][i]]
  BY DEF Handed
<1> QED BY CoroFacts, StaysGiven, NotFailures DEF ChainInv, CoroInv, Handed

(* While a coroutine neither awaits nor completes, what it was handed and    *)
(* the results of all tasks stay as they are.                                *)
Handling(c) ==
    /\ UNCHANGED <<cancelled, workVars, result, awaited, got, coroBody>>
    /\ \A d \in Coros : d # c => SameCoro(d)
    /\ Coro!TypeOK'
    /\ point[c] \in {"unborn", "running", "resumed", "unobserved", "throwing"}
    /\ point'[c] \in {"running", "resumed", "unobserved", "throwing"}

LEMMA HandlingStep ==
  ASSUME ChainInv, NEW c \in Coros, Handling(c), Holding(c)'
  PROVE  ChainInv' /\ Kept
<1>1. CoroMoves(c)
  BY TaskSets, GivesOfTask DEF Handling, CoroMoves, ChainInv, ChainTypeOK, workVars
<1>2. Kept
  BY <1>1, CoroMovesIsStep DEF StepOfCoro
<1>3. Handed(c)'
  BY <1>2, HandedStays DEF Handling
<1>4. Ended(c)'
  BY NotFailures, TaskSets DEF Ended, Handling, ChainInv, ChainTypeOK
<1> QED BY <1>1, <1>3, <1>4, CoroMovesIsStep, RestOfCoro, CoroFacts DEF CoroInv, Handling

LEMMA CallStep ==
  ASSUME ChainInv, NEW c \in Coros, Coro!Call(c), UNCHANGED <<cancelled, workVars>>
  PROVE  ChainInv' /\ Kept
<1> USE DEF Coro!Call, Coro!Goto
<1>1. Handling(c)
  BY CoroFacts DEF Handling, SameCoro, ChainInv, ChainTypeOK, Coro!TypeOK, Coro!States,
                   CoroInv, Holding, Coro!HasError, workVars
<1>2. Holding(c)'
  BY CoroFacts DEF CoroInv, Holding, ChainInv, ChainTypeOK, Coro!TypeOK, Coro!HasError
<1> QED BY <1>1, <1>2, HandlingStep

LEMMA TakeExpectedStep ==
  ASSUME ChainInv, NEW c \in Coros, Coro!TakeExpected(c), UNCHANGED <<cancelled, workVars>>
  PROVE  ChainInv' /\ Kept
<1> USE DEF Coro!TakeExpected, Coro!Goto, Coro!Look
<1>1. Handling(c)
  BY CoroFacts DEF Handling, SameCoro, ChainInv, ChainTypeOK, Coro!TypeOK, Coro!States,
                   CoroInv, Holding, Coro!HasError, workVars
<1>2. Holding(c)'
  BY CoroFacts DEF CoroInv, Holding, ChainInv, ChainTypeOK, Coro!TypeOK, Coro!HasError
<1> QED BY <1>1, <1>2, HandlingStep

LEMMA TakeValueStep ==
  ASSUME ChainInv, NEW c \in Coros, Coro!TakeValue(c), UNCHANGED <<cancelled, workVars>>
  PROVE  ChainInv' /\ Kept
<1> USE DEF Coro!TakeValue, Coro!Goto
<1>1. Handling(c)
  BY CoroFacts DEF Handling, SameCoro, ChainInv, ChainTypeOK, Coro!TypeOK, Coro!States,
                   CoroInv, Holding, Coro!HasError, workVars
<1>2. Holding(c)'
  BY CoroFacts DEF CoroInv, Holding, ChainInv, ChainTypeOK, Coro!TypeOK, Coro!HasError
<1> QED BY <1>1, <1>2, HandlingStep

LEMMA KeepStep ==
  ASSUME ChainInv, NEW c \in Coros, Coro!Keep(c), UNCHANGED <<cancelled, workVars>>
  PROVE  ChainInv' /\ Kept
<1> USE DEF Coro!Keep, Coro!Goto
<1>1. Handling(c)
  BY CoroFacts DEF Handling, SameCoro, ChainInv, ChainTypeOK, Coro!TypeOK, Coro!States,
                   CoroInv, Holding, Coro!HasError, workVars
<1>2. Holding(c)'
  BY CoroFacts DEF CoroInv, Holding, ChainInv, ChainTypeOK, Coro!TypeOK, Coro!HasError
<1> QED BY <1>1, <1>2, HandlingStep

LEMMA LookAtKeptStep ==
  ASSUME ChainInv, NEW c \in Coros, Coro!LookAtKept(c), UNCHANGED <<cancelled, workVars>>
  PROVE  ChainInv' /\ Kept
<1> USE DEF Coro!LookAtKept, Coro!Goto, Coro!Look
<1>1. Handling(c)
  BY CoroFacts DEF Handling, SameCoro, ChainInv, ChainTypeOK, Coro!TypeOK, Coro!States,
                   CoroInv, Holding, Coro!HasError, workVars
<1>2. Holding(c)'
  BY CoroFacts DEF CoroInv, Holding, ChainInv, ChainTypeOK, Coro!TypeOK, Coro!HasError
<1> QED BY <1>1, <1>2, HandlingStep

LEMMA UseKeptStep ==
  ASSUME ChainInv, NEW c \in Coros, Coro!UseKept(c), UNCHANGED <<cancelled, workVars>>
  PROVE  ChainInv' /\ Kept
<1> USE DEF Coro!UseKept, Coro!Goto
<1>1. Handling(c)
  BY CoroFacts DEF Handling, SameCoro, ChainInv, ChainTypeOK, Coro!TypeOK, Coro!States,
                   CoroInv, Holding, Coro!HasError, workVars
<1>2. Holding(c)'
  BY CoroFacts DEF CoroInv, Holding, ChainInv, ChainTypeOK, Coro!TypeOK, Coro!HasError
<1> QED BY <1>1, <1>2, HandlingStep

LEMMA CatchStep ==
  ASSUME ChainInv, NEW c \in Coros, Coro!Catch(c), UNCHANGED <<cancelled, workVars>>
  PROVE  ChainInv' /\ Kept
<1> USE DEF Coro!Catch, Coro!Goto, Coro!Look
<1>1. Handling(c)
  BY CoroFacts DEF Handling, SameCoro, ChainInv, ChainTypeOK, Coro!TypeOK, Coro!States,
                   CoroInv, Holding, Coro!HasError, workVars
<1>2. Holding(c)'
  BY CoroFacts DEF CoroInv, Holding, ChainInv, ChainTypeOK, Coro!TypeOK, Coro!HasError
<1> QED BY <1>1, <1>2, HandlingStep

LEMMA Appended ==
  ASSUME NEW E, NEW s \in Seq(E), NEW x \in E
  PROVE  /\ Append(s, x) \in Seq(E) /\ Len(Append(s, x)) = Len(s) + 1
         /\ \A i \in 1 .. Len(s) : Append(s, x)[i] = s[i]
         /\ Append(s, x)[Len(s) + 1] = x
BY AppendProperties

LEMMA AwaitStep ==
  ASSUME ChainInv, NEW c \in Coros, NEW t \in Tasks \cup {NoTask}, Coro!Await(c, t),
         UNCHANGED <<cancelled, workVars>>
  PROVE  ChainInv' /\ Kept
<1> DEFINE new == Append(awaited[c], t)
<1>a. /\ new \in Seq(Tasks \cup {NoTask}) /\ Len(new) = Len(awaited[c]) + 1
      /\ \A i \in 1 .. Len(awaited[c]) : new[i] = awaited[c][i]
  BY CoroFacts, Appended
<1>b. /\ awaited' = [awaited EXCEPT ![c] = new] /\ point' = [point EXCEPT ![c] = "awaiting"]
      /\ point[c] = "running" /\ Len(awaited[c]) < MaxAwaits
      /\ UNCHANGED <<result, got, hand, kept, coroBody, unseen>>
  BY DEF Coro!Await, Coro!Goto
<1> HIDE DEF new
<1>1. awaited'[c] = new /\ point'[c] = "awaiting"
  BY <1>b DEF ChainInv, ChainTypeOK, Coro!TypeOK
<1>2. \A d \in Coros : d # c => SameCoro(d)
  BY <1>b DEF SameCoro
<1>3. Len(awaited[c]) = Len(got[c])
  BY <1>b, CoroFacts DEF CoroInv
<1>4. Coro!TypeOK'
  BY <1>a, <1>b, <1>1, <1>3, CoroFacts, TaskSets DEF ChainInv, ChainTypeOK, Coro!TypeOK, Coro!States
<1>5. CoroMoves(c)
  BY <1>b, <1>1, <1>2, <1>4, TaskSets, GivesOfTask DEF CoroMoves, ChainInv, ChainTypeOK, workVars
<1>6. Kept
  BY <1>5, CoroMovesIsStep DEF StepOfCoro
<1>7. Handed(c)'
  <2> SUFFICES ASSUME NEW i \in 1 .. Len(got[c])
               PROVE  IF new[i] = NoTask THEN got[c][i] = "ok" ELSE got[c][i] \in Gives'[new[i]]
    BY <1>b, <1>1 DEF Handed
  <2>1. new[i] = awaited[c][i]
    BY <1>a, <1>3, CoroFacts
  <2>2. /\ IF awaited[c][i] = NoTask THEN got[c][i] = "ok" ELSE got[c][i] \in Gives[awaited[c][i]]
        /\ got[c][i] # "none" /\ awaited[c][i] \in Tasks \cup {NoTask}
    BY CoroFacts, NotFailures DEF CoroInv, Handed
  <2> QED BY <1>6, <2>2, <2>1, CoroFacts, StaysGiven, NotFailures DEF ChainInv, CoroInv, Handed
<1>8. Holding(c)'
  BY <1>b, <1>1, CoroFacts DEF CoroInv, Holding
<1>9. Ended(c)'
  BY <1>b, <1>1, NotFailures, TaskSets DEF Ended, ChainInv, ChainTypeOK
<1> QED BY <1>a, <1>b, <1>1, <1>3, <1>5, <1>7, <1>8, <1>9, CoroFacts, CoroMovesIsStep, RestOfCoro
        DEF CoroInv

(* A result is appended: that of the task awaited last. *)
LEMMA HandedOver ==
  ASSUME ChainInv, NEW c \in Coros, point[c] = "awaiting", point'[c] # "awaiting",
         NEW r \in {"ok"} \cup Work!Failures, UNCHANGED <<result, awaited>>, Kept,
         got' = [got EXCEPT ![c] = Append(@, r)],
         IF Coro!Last(awaited[c]) = NoTask THEN r = "ok" ELSE r \in Gives[Coro!Last(awaited[c])]
  PROVE  /\ got' \in [Coros -> Seq({"ok"} \cup Work!Failures)]
         /\ got'[c] \in Seq({"ok"} \cup Work!Failures)
         /\ Len(got'[c]) = Len(got[c]) + 1 /\ Len(awaited[c]) = Len(got[c]) + 1
         /\ \A i \in 1 .. Len(got[c]) : got'[c][i] = got[c][i]
         /\ got'[c][Len(got[c]) + 1] = r
         /\ Handed(c)'
<1> DEFINE new == Append(got[c], r)
<1>1. /\ new \in Seq({"ok"} \cup Work!Failures) /\ Len(new) = Len(got[c]) + 1
      /\ \A i \in 1 .. Len(got[c]) : new[i] = got[c][i]
      /\ new[Len(got[c]) + 1] = r
  BY CoroFacts, Appended
<1>2. got' = [got EXCEPT ![c] = new]
  OBVIOUS
<1> HIDE DEF new
<1>3. got' \in [Coros -> Seq({"ok"} \cup Work!Failures)] /\ got'[c] = new
  BY <1>1, <1>2, TaskSets DEF ChainInv, ChainTypeOK, Coro!TypeOK
<1>4. Len(awaited[c]) = Len(got[c]) + 1
  BY CoroFacts DEF CoroInv
<1>5. Handed(c)'
  <2> SUFFICES ASSUME NEW i \in 1 .. Len(new)
               PROVE  IF awaited[c][i] = NoTask THEN new[i] = "ok" ELSE new[i] \in Gives'[awaited[c][i]]
    BY <1>3 DEF Handed
  <2>1. CASE i = Len(got[c]) + 1
    <3>1. new[i] = r /\ awaited[c][i] = Coro!Last(awaited[c])
      BY <1>1, <1>4, <2>1 DEF Coro!Last
    <3>2. awaited[c][i] \in Tasks \cup {NoTask}
      BY <1>4, <2>1, CoroFacts
    <3> QED BY <3>1, <3>2, StaysGiven, NotFailures DEF ChainInv
  <2>2. CASE i \in 1 .. Len(got[c])
    BY <1>1, <2>2, CoroFacts, StaysGiven, NotFailures DEF ChainInv, CoroInv, Handed
  <2> QED BY <1>1, <2>1, <2>2, CoroFacts
<1> QED BY <1>1, <1>3, <1>4, <1>5

LEMMA SwitchedStep ==
  ASSUME ChainInv, NEW c \in Coros, Coro!Switched(c), UNCHANGED <<cancelled, workVars>>
  PROVE  ChainInv' /\ Kept
<1>a. /\ got' = [got EXCEPT ![c] = Append(@, "ok")] /\ point' = [point EXCEPT ![c] = "running"]
      /\ point[c] = "awaiting" /\ Coro!Last(awaited[c]) = NoTask
      /\ UNCHANGED <<result, awaited, hand, kept, coroBody, unseen>>
  BY DEF Coro!Switched, Coro!Goto
<1>1. point'[c] = "running"
  BY <1>a DEF ChainInv, ChainTypeOK, Coro!TypeOK
<1>2. \A d \in Coros : d # c => SameCoro(d)
  BY <1>a DEF SameCoro
<1>3. Kept
  BY <1>a, <1>1, <1>2, TaskSets, GivesOfTask, ResultsKept DEF SameCoro, ChainInv
<1>4. /\ got' \in [Coros -> Seq({"ok"} \cup Work!Failures)]
      /\ Len(got'[c]) = Len(got[c]) + 1 /\ Len(awaited[c]) = Len(got[c]) + 1
      /\ \A i \in 1 .. Len(got[c]) : got'[c][i] = got[c][i]
      /\ Handed(c)'
  BY <1>a, <1>1, <1>3, HandedOver
<1>5. Coro!TypeOK'
  BY <1>a, <1>1, <1>2, <1>4, CoroFacts, TaskSets
     DEF ChainInv, ChainTypeOK, Coro!TypeOK, Coro!States, SameCoro
<1>6. CoroMoves(c)
  BY <1>a, <1>1, <1>2, <1>5, TaskSets, GivesOfTask DEF CoroMoves, ChainInv, ChainTypeOK, workVars
<1>7. Holding(c)'
  BY <1>a, <1>1, <1>4, CoroFacts DEF CoroInv, Holding
<1>8. Ended(c)'
  BY <1>a, <1>1, NotFailures, TaskSets DEF Ended, ChainInv, ChainTypeOK
<1> QED BY <1>a, <1>1, <1>4, <1>6, <1>7, <1>8, CoroFacts, CoroMovesIsStep, RestOfCoro DEF CoroInv

LEMMA ResumeStep ==
  ASSUME ChainInv, NEW c \in Coros, Coro!Resume(c), UNCHANGED <<cancelled, workVars>>
  PROVE  ChainInv' /\ Kept
<1> DEFINE t == Coro!Last(awaited[c])
           r == result[t]
           n == Len(got[c]) + 1
<1>t. point[c] = "awaiting" /\ t \in Tasks /\ r # "none"
  <2>1. Len(awaited[c]) = Len(got[c]) + 1
    BY CoroFacts DEF Coro!Resume, CoroInv
  <2> QED BY <2>1, CoroFacts DEF Coro!Resume, Coro!Last
<1>r. r \in {"ok"} \cup Work!Failures /\ r \in Gives[t]
  BY <1>t, GivesOfTask DEF ChainInv, ChainTypeOK, Work!Results
<1>g. /\ got' = [got EXCEPT ![c] = Append(@, r)] /\ got'[c] = Append(got[c], r)
      /\ UNCHANGED <<result, awaited, kept, coroBody>>
  BY DEF Coro!Resume, ChainInv, ChainTypeOK, Coro!TypeOK
<1>n. got'[c][n] = r /\ Len(got'[c]) = n /\ n \in Nat /\ n # 0
  BY <1>g, <1>r, CoroFacts, Appended
<1>h. hand' = [hand EXCEPT ![c] = n] /\ hand'[c] = n
  BY <1>n DEF Coro!Resume, ChainInv, ChainTypeOK, Coro!TypeOK
<1>e. Coro!HasError(c, hand[c])' <=> r \in Work!Failures
  BY <1>n, <1>h DEF Coro!HasError
<1>u. unseen' = [unseen EXCEPT ![c] = IF r \in Work!Failures THEN @ \cup {n} ELSE @]
  BY <1>e, <1>h DEF Coro!Resume
<1>p. point' = [point EXCEPT ![c] = IF t \in CodeTasks THEN "resumed"
                                    ELSE IF r \in Work!Failures THEN "throwing" ELSE "running"]
  BY <1>e DEF Coro!Resume, Coro!Goto
<1> HIDE DEF t, r, n
<1>1. /\ point'[c] \in {"resumed", "throwing", "running"}
      /\ point'[c] = "throwing" => r \in Work!Failures
      /\ point'[c] = "running" => r \notin Work!Failures
      /\ unseen'[c] = IF r \in Work!Failures THEN unseen[c] \cup {n} ELSE unseen[c]
  BY <1>p, <1>u DEF ChainInv, ChainTypeOK, Coro!TypeOK
<1>2. \A d \in Coros : d # c => SameCoro(d)
  BY <1>g, <1>h, <1>p, <1>u DEF SameCoro
<1>3. Kept
  BY <1>g, <1>t, <1>1, <1>2, TaskSets, GivesOfTask, ResultsKept DEF SameCoro, ChainInv
<1>4. /\ got' \in [Coros -> Seq({"ok"} \cup Work!Failures)]
      /\ Len(got'[c]) = Len(got[c]) + 1 /\ Len(awaited[c]) = Len(got[c]) + 1
      /\ \A i \in 1 .. Len(got[c]) : got'[c][i] = got[c][i]
      /\ Handed(c)'
  <2>1. IF Coro!Last(awaited[c]) = NoTask THEN r = "ok" ELSE r \in Gives[Coro!Last(awaited[c])]
    BY <1>t, <1>r, TaskSets DEF t
  <2> QED BY <1>g, <1>t, <1>r, <1>1, <1>3, <2>1, HandedOver
<1>5. Coro!TypeOK'
  <2>1. n \in 1 .. MaxAwaits
    BY <1>4, <1>n, CoroFacts DEF n, ChainInv, ChainTypeOK, Coro!TypeOK
  <2>2. point' \in [Coros -> Coro!States]
    BY <1>p DEF ChainInv, ChainTypeOK, Coro!TypeOK, Coro!States
  <2>3. hand' \in [Coros -> 0 .. MaxAwaits] /\ unseen' \in [Coros -> SUBSET (1 .. MaxAwaits)]
    BY <2>1, <1>h, <1>u DEF ChainInv, ChainTypeOK, Coro!TypeOK
  <2>4. \A d \in Coros : Len(got'[d]) <= Len(awaited'[d]) /\ Len(awaited'[d]) <= MaxAwaits
    <3> SUFFICES ASSUME NEW d \in Coros
                 PROVE  Len(got'[d]) <= Len(awaited'[d]) /\ Len(awaited'[d]) <= MaxAwaits
      OBVIOUS
    <3>1. CASE d = c
      BY <1>4, <1>g, <3>1, CoroFacts DEF ChainInv, ChainTypeOK, Coro!TypeOK
    <3>2. CASE d # c
      BY <1>2, <3>2 DEF SameCoro, ChainInv, ChainTypeOK, Coro!TypeOK
    <3> QED BY <3>1, <3>2
  <2> QED BY <1>4, <1>g, <2>2, <2>3, <2>4, TaskSets DEF ChainInv, ChainTypeOK, Coro!TypeOK
<1>6. CoroMoves(c)
  BY <1>t, <1>g, <1>1, <1>2, <1>5, TaskSets, GivesOfTask DEF CoroMoves, ChainInv, ChainTypeOK, workVars
<1>7. Holding(c)'
  <2>1. /\ hand'[c] = n /\ kept'[c] = kept[c] /\ kept[c] \in Nat /\ kept[c] <= Len(got[c])
        /\ unseen[c] \subseteq {kept[c]}
        /\ \A i \in unseen[c] : i \in 1 .. Len(got[c]) /\ got[c][i] \in Work!Failures
    BY <1>h, <1>g, <1>t, CoroFacts DEF CoroInv, Holding
  <2>2. n = Len(got[c]) + 1 /\ Len(got[c]) \in Nat
    BY CoroFacts DEF n
  <2>3. \A i \in unseen'[c] : i \in 1 .. Len(got'[c]) /\ got'[c][i] \in Work!Failures
    BY <1>1, <1>4, <1>n, <2>1, <2>2
  <2> QED BY <1>1, <1>4, <1>n, <2>1, <2>2, <2>3 DEF Holding
<1>8. Ended(c)'
  BY <1>g, <1>t, <1>1, NotFailures, TaskSets DEF Ended, ChainInv, ChainTypeOK
<1> QED BY <1>g, <1>1, <1>4, <1>6, <1>7, <1>8, CoroFacts, CoroMovesIsStep, RestOfCoro DEF CoroInv

(* A coroutine comes to its end, or is left for good. *)
Ending(c) ==
    /\ UNCHANGED <<cancelled, workVars, awaited, got, hand, kept, unseen>>
    /\ \A d \in Coros : d # c => SameCoro(d)
    /\ \A w \in Works : result'[w] = result[w]
    /\ result' \in [Tasks -> Work!Results] /\ point' \in [Coros -> Coro!States]
    /\ coroBody' \in [Coros -> {"none", "ok"} \cup Work!Failures]
    /\ point[c] # "awaiting"
    /\ point'[c] \in {"leaving", "done", "broken", "terminated"}
    /\ point'[c] = "leaving" => point[c] = "running"
    /\ result'[c] # "none" <=> point'[c] # "terminated"
    /\ result[c] # "none" => Gives[c] \subseteq Gives'[c]

LEMMA EndingStep ==
  ASSUME ChainInv, NEW c \in Coros, Ending(c), Ended(c)'
  PROVE  ChainInv' /\ Kept
<1>1. CoroMoves(c)
  BY TaskSets DEF Ending, CoroMoves, ChainInv, ChainTypeOK, Coro!TypeOK
<1>2. Kept
  BY <1>1, CoroMovesIsStep DEF StepOfCoro
<1>3. Handed(c)'
  BY <1>2, HandedStays DEF Ending
<1>4. Holding(c)'
  BY CoroFacts DEF Ending, CoroInv, Holding
<1>5. awaited'[c] = awaited[c] /\ got'[c] = got[c] /\ point'[c] # "awaiting"
  BY DEF Ending
<1> QED BY <1>1, <1>3, <1>4, <1>5, CoroMovesIsStep, RestOfCoro, CoroFacts DEF CoroInv, Ending

LEMMA CoReturnStep ==
  ASSUME ChainInv, NEW c \in Coros, NEW o \in {"ok"} \cup Work!Failures, Coro!CoReturn(c, o),
         UNCHANGED <<cancelled, workVars>>
  PROVE  ChainInv' /\ Kept
<1> USE DEF Coro!CoReturn, Coro!Goto, Coro!Complete
<1>1. o \in Work!Results /\ o # "none"
  BY NotFailures DEF Work!Results
<1>2. result[c] = "none" /\ c \in Tasks
  BY TaskSets DEF ChainInv, ChainTypeOK
<1>3. result'[c] = o /\ coroBody'[c] = o /\ point'[c] = "leaving"
  BY <1>2 DEF ChainInv, ChainTypeOK, Coro!TypeOK
<1>4. Ending(c)
  BY <1>1, <1>2, <1>3, TaskSets DEF Ending, SameCoro, ChainInv, ChainTypeOK, Coro!TypeOK, Coro!States
<1>5. Ended(c)'
  BY <1>3 DEF Ended
<1> QED BY <1>4, <1>5, EndingStep

(* Whatever leaves the body is its own error or one it was handed. *)
LEMMA SetExceptionEnds ==
  ASSUME ChainInv, NEW c \in Coros, NEW e \in Work!Failures,
         point[c] \in {"running", "unobserved", "throwing"}, Coro!SetException(c, e),
         UNCHANGED <<cancelled, workVars, unseen>>,
         coroBody' \in [Coros -> {"none", "ok"} \cup Work!Failures],
         \A d \in Coros : d # c => coroBody'[d] = coroBody[d],
         \/ coroBody'[c] = e
         \/ \E i \in 1 .. Len(got[c]) : awaited[c][i] \in Tasks /\ e \in Gives[awaited[c][i]]
  PROVE  ChainInv' /\ Kept
<1> USE DEF Coro!SetException, Coro!Goto, Coro!Complete
<1>1. e \in Work!Results /\ e # "none" /\ e # "ok"
  BY NotFailures DEF Work!Results
<1>2. result[c] = "none" /\ c \in Tasks
  BY TaskSets DEF ChainInv, ChainTypeOK
<1>3. \/ point'[c] = "terminated" /\ result'[c] = "none"
      \/ point'[c] = "done" /\ result'[c] = e
  BY <1>2 DEF ChainInv, ChainTypeOK, Coro!TypeOK
<1>4. Ending(c)
  <2>1. result' \in [Tasks -> Work!Results] /\ point' \in [Coros -> Coro!States]
    <3>1. CASE Coro!ThrowsKept(c)
      BY <3>1 DEF ChainInv, ChainTypeOK, Coro!TypeOK, Coro!States
    <3>2. CASE ~Coro!ThrowsKept(c)
      <4>1. result' = [result EXCEPT ![c] = e] /\ point' = [point EXCEPT ![c] = "done"]
        BY <3>2
      <4>2. result \in [Tasks -> Work!Results] /\ point \in [Coros -> Coro!States]
        BY DEF ChainInv, ChainTypeOK, Coro!TypeOK
      <4>3. result' \in [Tasks -> Work!Results]
        BY <1>1, <4>1, <4>2
      <4> QED BY <4>1, <4>2, <4>3 DEF Coro!States
    <3> QED BY <3>1, <3>2
  <2>2. \A d \in Tasks : d # c => result'[d] = result[d]
    BY DEF ChainInv, ChainTypeOK
  <2>3. \A d \in Coros : d # c => SameCoro(d)
    BY <2>2, TaskSets DEF SameCoro, ChainInv, ChainTypeOK, Coro!TypeOK
  <2> QED BY <1>1, <1>2, <1>3, <2>1, <2>2, <2>3, TaskSets DEF Ending
<1>5. Kept
  <2>1. \A d \in Tasks : d # c => result'[d] = result[d]
    BY TaskSets DEF Ending, SameCoro, ChainInv, ChainTypeOK
  <2> QED BY <1>2, <1>4, <2>1, ResultsKept DEF Ending, SameCoro, ChainInv
<1>6. Ended(c)'
  <2>1. ASSUME NEW i \in 1 .. Len(got[c]), awaited[c][i] \in Tasks, e \in Gives[awaited[c][i]]
        PROVE  e \in Gives'[awaited[c][i]]
    BY <1>1, <1>5, <2>1, StaysGiven DEF ChainInv
  <2> QED BY <1>1, <1>3, <2>1, NotFailures DEF Ended
<1> QED BY <1>4, <1>6, EndingStep

LEMMA ThrowStep ==
  ASSUME ChainInv, NEW c \in Coros, NEW e \in TaskErrors, Coro!Throw(c, e),
         UNCHANGED <<cancelled, workVars>>
  PROVE  ChainInv' /\ Kept
<1>1. e \in Work!Failures
  BY DEF Work!Failures
<1>2. coroBody'[c] = e /\ coroBody' \in [Coros -> {"none", "ok"} \cup Work!Failures]
      /\ \A d \in Coros : d # c => coroBody'[d] = coroBody[d]
  BY <1>1 DEF Coro!Throw, ChainInv, ChainTypeOK, Coro!TypeOK
<1>3. point[c] = "running" /\ Coro!SetException(c, e) /\ UNCHANGED unseen
  BY DEF Coro!Throw
<1> QED BY <1>1, <1>2, <1>3, SetExceptionEnds

(* An error among the results handed to a coroutine came from a task. *)
LEMMA ErrorFromTask ==
  ASSUME ChainInv, NEW c \in Coros, NEW i \in 1 .. Len(got[c]), got[c][i] \in Work!Failures
  PROVE  awaited[c][i] \in Tasks /\ got[c][i] \in Gives[awaited[c][i]]
BY CoroFacts, NotFailures DEF CoroInv, Handed

LEMMA UncaughtStep ==
  ASSUME ChainInv, NEW c \in Coros, Coro!Uncaught(c), UNCHANGED <<cancelled, workVars>>
  PROVE  ChainInv' /\ Kept
<1> DEFINE e == got[c][hand[c]]
<1>1. /\ point[c] \in {"unobserved", "throwing"} /\ Coro!SetException(c, e)
      /\ UNCHANGED <<coroBody, unseen>>
  BY DEF Coro!Uncaught
<1>2. hand[c] \in 1 .. Len(got[c]) /\ e \in Work!Failures
  BY <1>1, CoroFacts DEF CoroInv, Holding
<1>3. awaited[c][hand[c]] \in Tasks /\ e \in Gives[awaited[c][hand[c]]]
  BY <1>2, ErrorFromTask
<1>4. coroBody' \in [Coros -> {"none", "ok"} \cup Work!Failures]
  BY <1>1 DEF ChainInv, ChainTypeOK, Coro!TypeOK
<1> HIDE DEF e
<1> QED BY <1>1, <1>2, <1>3, <1>4, SetExceptionEnds

LEMMA LeaveStep ==
  ASSUME ChainInv, NEW c \in Coros, Coro!Leave(c), UNCHANGED <<cancelled, workVars>>
  PROVE  ChainInv' /\ Kept
<1> USE DEF Coro!Goto, Coro!Complete
<1>a. point[c] = "leaving" /\ UNCHANGED <<awaited, got, hand, kept, coroBody, unseen>>
  BY DEF Coro!Leave
<1>b. result[c] = coroBody[c] /\ unseen[c] \subseteq {kept[c]} /\ result[c] # "none" /\ c \in Tasks
  BY <1>a, CoroFacts, TaskSets DEF CoroInv, Ended, Holding, ChainInv, ChainTypeOK
<1>1. CASE Coro!ThrowsKept(c)
  <2> DEFINE e == got[c][kept[c]]
  <2>1. kept[c] \in 1 .. Len(got[c]) /\ e \in Work!Failures
    BY <1>1, CoroFacts DEF Coro!ThrowsKept, Coro!HasError, CoroInv, Holding
  <2>2. awaited[c][kept[c]] \in Tasks /\ e \in Gives[awaited[c][kept[c]]]
    BY <2>1, ErrorFromTask
  <2>3. e \in Work!Results /\ e # "none" /\ e # "ok"
    BY <2>1, NotFailures DEF Work!Results
  <2>4. result' = [result EXCEPT ![c] = e] /\ point' = [point EXCEPT ![c] = "broken"]
    BY <1>1 DEF Coro!Leave
  <2> HIDE DEF e
  <2>5. result'[c] = e /\ point'[c] = "broken"
    BY <1>b, <2>4 DEF ChainInv, ChainTypeOK, Coro!TypeOK
  <2>6. Gives[c] \subseteq Gives'[c]
    BY <1>a, <1>b, <2>5, GivesOfTask
  <2>7. Ending(c)
    BY <1>a, <1>b, <2>3, <2>4, <2>5, <2>6, TaskSets
       DEF Ending, SameCoro, ChainInv, ChainTypeOK, Coro!TypeOK, Coro!States
  <2>8. Kept
    <3>1. \A d \in Tasks : d # c => result'[d] = result[d]
      BY <2>4 DEF ChainInv, ChainTypeOK
    <3> QED BY <1>b, <2>6, <2>7, <3>1, ResultsKept DEF Ending, SameCoro, ChainInv
  <2>9. Ended(c)'
    <3>1. e \in Gives'[awaited[c][kept[c]]]
      BY <2>2, <2>3, <2>8, StaysGiven DEF ChainInv
    <3> QED BY <1>a, <2>1, <2>2, <2>3, <2>5, <3>1 DEF Ended
  <2> QED BY <2>7, <2>9, EndingStep
<1>2. CASE ~Coro!ThrowsKept(c)
  <2>1. UNCHANGED result /\ point' = [point EXCEPT ![c] = "done"]
    BY <1>2 DEF Coro!Leave
  <2>2. point'[c] = "done"
    BY <2>1 DEF ChainInv, ChainTypeOK, Coro!TypeOK
  <2>3. unseen[c] = {}
    BY <1>2, <1>b, CoroFacts DEF Coro!ThrowsKept, Coro!HasError, CoroInv, Holding
  <2>4. Gives'[c] = Gives[c]
    BY <1>a, <1>b, <2>1, <2>2, GivesOfTask
  <2>5. Ending(c)
    BY <1>a, <1>b, <2>1, <2>2, <2>4, TaskSets
       DEF Ending, SameCoro, ChainInv, ChainTypeOK, Coro!TypeOK, Coro!States
  <2>6. Ended(c)'
    BY <1>a, <1>b, <2>1, <2>2, <2>3 DEF Ended
  <2> QED BY <2>5, <2>6, EndingStep
<1> QED BY <1>1, <1>2

-----------------------------------------------------------------------------
LEMMA AvailableAreTasks == Available \subseteq Tasks
BY TaskSets DEF Available, Work!Created, Coro!Returned

LEMMA WorkActs ==
  ASSUME ChainInv, NEW w \in Works,
         MakeTask(w) \/ TaskFrom(w) \/ Then(w) \/ ReturnTask(w) \/ WorkStep(w)
  PROVE  ChainInv' /\ Kept
<1> USE DEF WorkDoes
<1>1. CASE MakeTask(w)
  BY <1>1, CreateStep DEF MakeTask, Work!MakeTask
<1>2. CASE TaskFrom(w)
  BY <1>2, FromSourceStep DEF TaskFrom, Work!TaskFromResult, Work!TaskFromError
<1>3. CASE Then(w)
  BY <1>3, CreateStep, AvailableAreTasks DEF Then, Work!Then, Usable
<1>4. CASE ReturnTask(w)
  BY <1>4, ReturnTaskStep, AvailableAreTasks DEF ReturnTask, Usable
<1>5. CASE WorkStep(w)
  <2>1. CASE Work!Refuse(w)
    BY <1>5, <2>1, RefuseStep DEF WorkStep
  <2>2. CASE Work!Invoke(w)
    BY <1>5, <2>2, InvokeStep DEF WorkStep
  <2>3. CASE Work!Unwrap(w)
    BY <1>5, <2>3, UnwrapStep DEF WorkStep
  <2>4. ASSUME NEW o \in Work!Outcomes(token[w]), Work!Return(w, o)
        PROVE  ChainInv' /\ Kept
    <3>1. o \in {"ok"} \cup Work!Failures
      BY <2>4 DEF Work!Outcomes, Work!Failures
    <3> QED BY <1>5, <2>4, <3>1, WorkReturnStep DEF WorkStep
  <2> QED BY <1>5, <2>1, <2>2, <2>3, <2>4 DEF WorkStep, Work!Step
<1> QED BY <1>1, <1>2, <1>3, <1>4, <1>5

LEMMA CoroActs ==
  ASSUME ChainInv, NEW c \in Coros, Call(c) \/ Await(c) \/ CoroStep(c)
  PROVE  ChainInv' /\ Kept
<1> USE DEF CoroDoes
<1>1. CASE Call(c)
  BY <1>1, CallStep DEF Call
<1>2. CASE Await(c)
  BY <1>2, AwaitStep, AvailableAreTasks DEF Await, Usable
<1>3. CASE CoroStep(c)
  <2>1. UNCHANGED <<cancelled, workVars>> /\ Coro!Step(c)
    BY <1>3 DEF CoroStep
  <2>2. CASE Coro!Switched(c)
    BY <2>1, <2>2, SwitchedStep
  <2>3. CASE Coro!Resume(c)
    BY <2>1, <2>3, ResumeStep
  <2>4. CASE Coro!Handles(c)
    BY <2>1, <2>4, TakeExpectedStep, TakeValueStep, KeepStep, LookAtKeptStep, UseKeptStep, CatchStep
       DEF Coro!Handles
  <2>5. CASE Coro!Completes(c)
    <3>1. ASSUME NEW o \in {"ok"} \cup TaskErrors, Coro!CoReturn(c, o) PROVE ChainInv' /\ Kept
      <4>1. o \in {"ok"} \cup Work!Failures
        BY DEF Work!Failures
      <4> QED BY <2>1, <3>1, <4>1, CoReturnStep
    <3> QED BY <2>1, <2>5, <3>1, ThrowStep, UncaughtStep, LeaveStep DEF Coro!Completes
  <2> QED BY <2>1, <2>2, <2>3, <2>4, <2>5 DEF Coro!Step
<1> QED BY <1>1, <1>2, <1>3

LEMMA ChainStutter == ASSUME ChainInv, UNCHANGED chainVars PROVE ChainInv' /\ Kept
<1> USE DEF chainVars, workVars, coroVars
<1>1. ChainTypeOK'
  BY DEF ChainInv, ChainTypeOK, Work!TypeOK, Coro!TypeOK
<1>2. Kept
  BY GivesOfTask DEF Kept
<1>3. \A w \in Works : WorkInv(w)'
  BY <1>2, WorkUntouched DEF SameWork, ChainInv
<1>4. \A c \in Coros : CoroInv(c)'
  BY <1>2, CoroUntouched DEF SameCoro, ChainInv
<1> QED BY <1>1, <1>2, <1>3, <1>4 DEF ChainInv

LEMMA ChainNextInv == ChainInv /\ [ChainNext]_chainVars => ChainInv' /\ Kept
<1> SUFFICES ASSUME ChainInv, [ChainNext]_chainVars PROVE ChainInv' /\ Kept
  OBVIOUS
<1>1. ASSUME NEW k \in Tokens, Cancel(k) PROVE ChainInv' /\ Kept
  BY <1>1, CancelStep DEF Cancel, WorkDoes
<1> QED BY <1>1, WorkActs, CoroActs, ChainStutter DEF ChainNext

LEMMA ChainInvariant == ChainSpec => []ChainInv
BY ChainInitInv, ChainNextInv, PTL DEF ChainSpec

(* The variables of works, coroutines and their tasks have their types, and  *)
(* a task has a result exactly when what completes it has come to its end.   *)
THEOREM ChainTypeCorrect == ChainSpec => []ChainTypeOK
<1>1. ChainInv => ChainTypeOK
  BY DEF ChainInv
<1> QED BY <1>1, ChainInvariant, PTL

(* An error a task ends with began in a body or a token, however it came to  *)
(* the task, and no error is lost in a chain: a task that succeeded depends  *)
(* on no failed task whose error nobody looked at.                           *)
THEOREM ErrorsAreNotLost == ChainSpec => []ErrorsTravel
BY InvTravels, ChainInvariant, PTL

KeepsResult(t) ==
    result[t] # "none" =>
      \/ result'[t] = result[t]
      \/ t \in Coros /\ point'[t] = "broken" /\ coroBody'[t] = result[t]

(* A task that is complete keeps its result, whatever its continuations were *)
(* given, but for a coroutine that a kept error leaves behind co_return: its *)
(* result is replaced.                                                       *)
THEOREM ResultsStay == ChainSpec => [][\A t \in Tasks : KeepsResult(t)]_chainVars
<1>1. ASSUME Kept, NEW t \in Tasks, result[t] # "none"
      PROVE  \/ result'[t] = result[t]
             \/ t \in Coros /\ point'[t] = "broken" /\ coroBody'[t] = result[t]
  <2>1. result[t] \in Gives[t]
    BY GivesOfTask
  <2>2. result[t] \in Gives'[t]
    BY <1>1, <2>1 DEF Kept
  <2> QED BY <2>2, GivesOfTask
<1>2. Kept => \A t \in Tasks : KeepsResult(t)
  BY <1>1 DEF KeepsResult
<1>3. ChainInv /\ [ChainNext]_chainVars => [\A t \in Tasks : KeepsResult(t)]_chainVars
  BY <1>2, ChainNextInv
<1> QED BY <1>3, ChainInvariant, PTL DEF ChainSpec
=============================================================================
