---------------------------- MODULE InplaceFunction ----------------------------
(***************************************************************************)
(* inplace_function (functional/inplace_function.h): a function object     *)
(* that keeps its target in a buffer of its own.  The target is built and  *)
(* destroyed by hand through m_ManagerFctPtr, which survives a move of the *)
(* target, and m_InvokeFctPtr alone says whether there is one to call.     *)
(*                                                                         *)
(* Every element of Functions is one object.  A target is copied or moved  *)
(* into a buffer as a new instance; instances are numbered.                *)
(***************************************************************************)
EXTENDS Naturals, Sequences

CONSTANTS
    Functions,
    Targets,        \* what the program gives to them
    Garbage,        \* the target read from a buffer nothing was built in
    MaxInstances,   \* bounds the instances
    SwapsFunctors   \* whether functions with an object in the buffer are swapped

InplaceAssumption ==
    /\ Garbage \notin Targets
    /\ MaxInstances \in Nat
    /\ SwapsFunctors \in BOOLEAN

VARIABLES
    function,   \* function[f]: its members
    instances   \* every target that was ever built in a buffer

vars == <<function, instances>>

Instances == 1 .. MaxInstances

TypeOK ==
    /\ function \in [Functions ->
         [life : {"unborn", "alive", "destroyed"},
          invoke : {"default", "functor", "pointer"},   \* m_InvokeFctPtr
          managed : BOOLEAN,                            \* whether m_ManagerFctPtr is set
          data : Instances \cup {0}]]                   \* what is in m_Data
    /\ instances \in Seq([target : Targets \cup {Garbage},
                          state : {"whole", "moved", "destroyed"}])

Empty == [life |-> "alive", invoke |-> "default", managed |-> FALSE, data |-> 0]

Init ==
    /\ function = [f \in Functions |-> [Empty EXCEPT !.life = "unborn"]]
    /\ instances = <<>>

Unborn(f) == function[f].life = "unborn"
Alive(f) == function[f].life = "alive"

\* The parts of manage_function: what they make of the instances.  A copy of a
\* target that was moved away is one as well.
Built(all, target) == Append(all, [target |-> target, state |-> "whole"])
DestroyOp(all, k) == [all EXCEPT ![k].state = "destroyed"]
Read(all, k) == IF k = 0 THEN [target |-> Garbage, state |-> "whole"] ELSE all[k]
CopyOp(all, k) == Append(all, Read(all, k))
MoveOp(all, k) ==
    Append(IF k = 0 THEN all ELSE [all EXCEPT ![k].state = "moved"], Read(all, k))

Room == Len(instances) < MaxInstances

\* clear
Cleared(all, f) == IF function[f].managed THEN DestroyOp(all, function[f].data) ELSE all

-----------------------------------------------------------------------------
(* Construction.  A constructor that throws leaves no object.  Definitions  *)
(* named "Bug..." are wrong variants of the one that follows; no action     *)
(* uses them.                                                               *)

ConstructEmpty(f) ==
    /\ Unborn(f)
    /\ function' = [function EXCEPT ![f] = Empty]
    /\ UNCHANGED instances

\* set of a functor, with "all" in the place of the instances before.
SetFunctor(f, target, all) ==
    /\ Room
    /\ instances' = Built(all, target)
    /\ function' = [function EXCEPT ![f] =
         [life |-> "alive", invoke |-> "functor", managed |-> TRUE, data |-> Len(all) + 1]]

\* set of a pointer to a function.
SetPointer(f, all) ==
    /\ instances' = all
    /\ function' = [function EXCEPT ![f] = [Empty EXCEPT !.invoke = "pointer"]]

\* set of nullptr.
SetNull(f, all) ==
    /\ instances' = all
    /\ function' = [function EXCEPT ![f] = Empty]

Set(f, all) ==
    \/ \E t \in Targets : SetFunctor(f, t, all)
    \/ SetPointer(f, all)
    \/ SetNull(f, all)

ConstructFrom(f) == Unborn(f) /\ Set(f, instances)

\* copy and move, into an f whose target is gone.  The source of a move keeps
\* its manager, which has still to destroy what is left of the target.
Copy(f, from, all) ==
    /\ instances' = IF from.managed THEN CopyOp(all, from.data) ELSE all
    /\ function' = [function EXCEPT ![f] =
         [from EXCEPT !.data = IF from.managed THEN Len(all) + 1 ELSE 0]]

\* A move that takes the manager from its source.
BugMove(f, g, all) ==
    LET from == function[g] IN
    /\ instances' = IF from.managed THEN MoveOp(all, from.data) ELSE all
    /\ function' = [function EXCEPT
         ![f] = [from EXCEPT !.data = IF from.managed THEN Len(all) + 1 ELSE 0],
         ![g].invoke = "default", ![g].managed = FALSE]

Move(f, g, all) ==
    LET from == function[g] IN
    /\ instances' = IF from.managed THEN MoveOp(all, from.data) ELSE all
    /\ function' = [function EXCEPT
         ![f] = [from EXCEPT !.data = IF from.managed THEN Len(all) + 1 ELSE 0],
         ![g].invoke = "default"]

CopyConstruct(f, g) == Room /\ Unborn(f) /\ Alive(g) /\ Copy(f, function[g], instances)
MoveConstruct(f, g) == Room /\ Unborn(f) /\ Alive(g) /\ Move(f, g, instances)

-----------------------------------------------------------------------------
(* Assignment clears first: a function assigned to itself copies or moves   *)
(* what it has just cleared.                                                *)

ClearedSource(f, g) == IF f = g THEN Empty ELSE function[g]

CopyAssign(f, g) ==
    /\ Room
    /\ Alive(f) /\ Alive(g)
    /\ Copy(f, ClearedSource(f, g), Cleared(instances, f))

MoveAssign(f, g) ==
    /\ Room
    /\ Alive(f) /\ Alive(g)
    /\ IF f = g THEN SetNull(f, Cleared(instances, f)) ELSE Move(f, g, Cleared(instances, f))

AssignTarget(f) == Alive(f) /\ Set(f, Cleared(instances, f))

\* The constructor of the target throws, in any of the assignments.
AssignThrows(f) == Alive(f) /\ SetNull(f, Cleared(instances, f))

Destroy(f) ==
    /\ Alive(f)
    /\ instances' = Cleared(instances, f)
    /\ function' = [function EXCEPT ![f] = [Empty EXCEPT !.life = "destroyed"]]

\* move of two buffers: the manager's first argument is where it builds, and
\* swap passes the source first.  b holds the buffers and the instances.
MoveBuffers(managed, from, to, b) ==
    IF managed
      THEN [b EXCEPT !.all = MoveOp(@, b[to]), ![from] = Len(b.all) + 1]
      ELSE [b EXCEPT ![to] = b[from]]

Swap(f, g) ==
    /\ Alive(f) /\ Alive(g) /\ f # g
    /\ SwapsFunctors \/ ~(function[f].managed \/ function[g].managed)
    /\ LET mf == function[f].managed
           mg == function[g].managed
           b0 == [mine |-> function[f].data, other |-> function[g].data, temp |-> 0,
                  all |-> instances]
           b1 == MoveBuffers(mf, "mine", "temp", b0)
           b2 == MoveBuffers(mg, "other", "mine", b1)
           b3 == MoveBuffers(mf, "temp", "other", b2)
       IN  /\ instances' = b3.all
           /\ function' = [function EXCEPT ![f] = [function[g] EXCEPT !.data = b3.mine],
                                           ![g] = [function[f] EXCEPT !.data = b3.other]]

Next ==
    \E f, g \in Functions :
        \/ ConstructEmpty(f) \/ ConstructFrom(f)
        \/ AssignTarget(f) \/ AssignThrows(f) \/ Destroy(f)
        \/ CopyConstruct(f, g) \/ MoveConstruct(f, g)
        \/ CopyAssign(f, g) \/ MoveAssign(f, g)
        \/ Swap(f, g)

Spec == Init /\ [][Next]_vars

-----------------------------------------------------------------------------
(***************************************************************************)
(* Every target is destroyed exactly once: one that is not has exactly one *)
(* function that will, whatever was copied, moved, assigned to itself or   *)
(* left by an exception.                                                   *)
(***************************************************************************)
Owners(k) == {f \in Functions : function[f].managed /\ function[f].data = k}

TargetsAreOwned ==
    /\ \A k \in DOMAIN instances :
         IF instances[k].state = "destroyed" THEN Owners(k) = {}
                                             ELSE \E f \in Functions : Owners(k) = {f}
    /\ \A f \in Functions : function[f].managed => function[f].data \in DOMAIN instances

(***************************************************************************)
(* A function that says it has a target (operator bool) can be called: the *)
(* target was built in its buffer, and is neither moved away nor destroyed. *)
(***************************************************************************)
CallableIsWhole ==
    \A f \in Functions :
        function[f].invoke = "functor" =>
            /\ function[f].data # 0
            /\ instances[function[f].data].state = "whole"
            /\ instances[function[f].data].target # Garbage

(***************************************************************************)
(* "Swaps two targets", says inplace_function.h:229 of swap: each function *)
(* calls afterwards what the other one called.                             *)
(***************************************************************************)
TargetOf(f) ==
    IF function[f].invoke = "functor" THEN Read(instances, function[f].data).target
                                      ELSE function[f].invoke

SwapExchanges ==
    [][\A f, g \in Functions :
         Swap(f, g) => TargetOf(f)' = TargetOf(g) /\ TargetOf(g)' = TargetOf(f)]_vars

-----------------------------------------------------------------------------
(***************************************************************************)
(* The inductive invariant, where functors are not swapped.  Rest is what  *)
(* holds of the other functions while the target of one of them is gone:   *)
(* each has a target of its own, and nobody else's is left.                *)
(***************************************************************************)
Rest(all, Others) ==
    /\ \A k \in DOMAIN all : all[k].target # Garbage
    /\ \A f \in Others : function[f].managed =>
         function[f].data \in DOMAIN all /\ all[function[f].data].state # "destroyed"
    /\ \A f, g \in Others :
         function[f].managed /\ function[g].managed /\ function[f].data = function[g].data => f = g
    /\ \A k \in DOMAIN all : all[k].state # "destroyed" =>
         \E f \in Others : function[f].managed /\ function[f].data = k
    /\ \A f \in Others : function[f].invoke = "functor" =>
         function[f].managed /\ all[function[f].data].state = "whole"

Inv ==
    /\ TypeOK
    /\ Rest(instances, Functions)
    /\ \A f \in Functions : ~Alive(f) => ~function[f].managed
=============================================================================
