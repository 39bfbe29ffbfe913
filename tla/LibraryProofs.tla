----------------------------- MODULE LibraryProofs -----------------------------
(***************************************************************************)
(* Proofs about the classes of Library, for any objects, addresses, names  *)
(* and bounds.  An invariant of one of the seven programs is one of        *)
(* Library: its steps are those of its own module, and the steps of the    *)
(* others leave its variables alone.                                       *)
(***************************************************************************)
EXTENDS Library, FiniteSetTheorems, SequenceTheorems, TLAPS

USE LibraryAssumption

-----------------------------------------------------------------------------
(* inplace_function. *)

TargetStates == [target : Targets \cup {Garbage}, state : {"whole", "moved", "destroyed"}]

\* The instances "all" stand ready for a new target of f.
Ready(all, f) ==
    /\ all \in Seq(TargetStates)
    /\ Len(all) = Len(instances)
    /\ I!Rest(all, Functions \ {f})

LEMMA FunctionFacts ==
  ASSUME I!TypeOK
  PROVE  /\ function = [g \in Functions |-> function[g]]
         /\ \A g \in Functions :
              /\ function[g] = [life |-> function[g].life, invoke |-> function[g].invoke,
                                managed |-> function[g].managed, data |-> function[g].data]
              /\ function[g].life \in {"unborn", "alive", "destroyed"}
              /\ function[g].invoke \in {"default", "functor", "pointer"}
              /\ function[g].managed \in BOOLEAN
              /\ function[g].data \in I!Instances \cup {0}
         /\ instances \in Seq(TargetStates)
         /\ Len(instances) \in Nat /\ DOMAIN instances = 1 .. Len(instances)
BY DEF I!TypeOK, TargetStates

LEMMA NothingToClear ==
  ASSUME I!Inv, NEW f \in Functions, ~function[f].managed
  PROVE  Ready(instances, f)
<1>1. instances \in Seq(TargetStates)
  BY FunctionFacts DEF I!Inv
<1>2. I!Rest(instances, Functions \ {f})
  BY DEF I!Inv, I!Rest
<1> QED BY <1>1, <1>2 DEF Ready

\* clear destroys the target of f, and leaves the others theirs.
LEMMA ClearedIsReady ==
  ASSUME I!Inv, NEW f \in Functions
  PROVE  Ready(I!Cleared(instances, f), f)
<1>1. CASE ~function[f].managed
  BY <1>1, NothingToClear DEF I!Cleared
<1>2. CASE function[f].managed
  <2> DEFINE k == function[f].data
             all == [instances EXCEPT ![k].state = "destroyed"]
  <2>1. /\ I!Cleared(instances, f) = all
        /\ k \in DOMAIN instances /\ I!Rest(instances, Functions)
    BY <1>2 DEF I!Cleared, I!DestroyOp, I!Inv, I!Rest
  <2>2. instances \in Seq(TargetStates) /\ instances[k] \in TargetStates
    BY <2>1, FunctionFacts DEF I!Inv
  <2>3. /\ all \in Seq(TargetStates) /\ Len(all) = Len(instances)
        /\ DOMAIN all = DOMAIN instances
        /\ all[k].state = "destroyed" /\ all[k].target = instances[k].target
        /\ \A i \in DOMAIN instances \ {k} : all[i] = instances[i]
    BY <2>1, <2>2 DEF TargetStates
  <2> HIDE DEF all
  <2>4. \A g \in Functions \ {f} : function[g].managed =>
          function[g].data \in DOMAIN instances \ {k}
    BY <1>2, <2>1 DEF I!Rest
  <2>5. I!Rest(all, Functions \ {f})
    BY <1>2, <2>1, <2>3, <2>4 DEF I!Rest
  <2> QED BY <2>1, <2>3, <2>5 DEF Ready
<1> QED BY <1>1, <1>2, FunctionFacts DEF I!Inv

\* A function with a target of its own, or with none, fits in among the others.
MemberStates == [life : {"unborn", "alive", "destroyed"},
                 invoke : {"default", "functor", "pointer"},
                 managed : BOOLEAN, data : I!Instances \cup {0}]

Untargeted == [life : {"unborn", "alive", "destroyed"}, invoke : {"default", "pointer"},
               managed : {FALSE}, data : {0}]

Fits(all, f, new) ==
    /\ new \in MemberStates /\ (new.life # "alive" => ~new.managed)
    /\ all \in Seq(TargetStates) /\ \A k \in DOMAIN all : all[k].target # Garbage
    /\ new.managed => /\ new.data \in DOMAIN all /\ all[new.data].state # "destroyed"
                      /\ \A g \in Functions \ {f} :
                           function[g].managed => function[g].data # new.data
    /\ new.invoke = "functor" => new.managed /\ all[new.data].state = "whole"
    /\ \A g \in Functions \ {f} : function[g].managed =>
         function[g].data \in DOMAIN all /\ all[function[g].data].state # "destroyed"
    /\ \A k \in DOMAIN all : all[k].state # "destroyed" =>
         \/ new.managed /\ new.data = k
         \/ \E g \in Functions \ {f} : function[g].managed /\ function[g].data = k
    /\ \A g \in Functions \ {f} : function[g].invoke = "functor" =>
         function[g].managed /\ all[function[g].data].state = "whole"

LEMMA FitsKeepsInv ==
  ASSUME I!Inv, NEW f \in Functions, NEW new, NEW all, Fits(all, f, new),
         function' = [function EXCEPT ![f] = new], instances' = all
  PROVE  I!Inv'
<1>1. /\ function'[f] = new /\ \A g \in Functions \ {f} : function'[g] = function[g]
      /\ function' \in [Functions -> MemberStates]
  BY DEF I!Inv, I!TypeOK, Fits, MemberStates
<1>2. I!TypeOK'
  BY <1>1 DEF I!TypeOK, TargetStates, MemberStates, Fits
<1>3. \A g \in Functions : ~I!Alive(g)' => ~function'[g].managed
  BY <1>1 DEF I!Inv, I!Alive, Fits
<1>4. \A g, h \in Functions : function'[g].managed /\ function'[h].managed
                             /\ function'[g].data = function'[h].data => g = h
  BY <1>1 DEF I!Inv, I!Rest, Fits
<1>5. \A k \in DOMAIN all : all[k].state # "destroyed" =>
        \E g \in Functions : function'[g].managed /\ function'[g].data = k
  BY <1>1 DEF Fits
<1>6. I!Rest(instances, Functions)'
  BY <1>1, <1>4, <1>5 DEF I!Rest, Fits
<1> QED BY <1>2, <1>3, <1>6 DEF I!Inv

LEMMA Appended ==
  ASSUME NEW all \in Seq(TargetStates), NEW x \in TargetStates, NEW two, two = Append(all, x)
  PROVE  /\ two \in Seq(TargetStates) /\ Len(all) \in Nat
         /\ DOMAIN all = 1 .. Len(all) /\ DOMAIN two = 1 .. Len(all) + 1
         /\ two[Len(all) + 1] = x
         /\ \A k \in DOMAIN all : two[k] = all[k]
OBVIOUS

\* A target that is built behind "all" becomes the one of f.
LEMMA BuiltIsOwned ==
  ASSUME I!Inv, NEW f \in Functions, NEW all, Ready(all, f), I!Room,
         NEW x \in TargetStates, x.target # Garbage, x.state # "destroyed",
         NEW new \in [life : {"alive"}, invoke : {"default", "functor", "pointer"},
                      managed : {TRUE}, data : {Len(all) + 1}],
         new.invoke = "functor" => x.state = "whole",
         function' = [function EXCEPT ![f] = new], instances' = Append(all, x)
  PROVE  I!Inv'
<1> DEFINE two == Append(all, x)
<1>1. /\ all \in Seq(TargetStates) /\ Len(all) = Len(instances)
      /\ I!Rest(all, Functions \ {f})
  BY DEF Ready
<1>2. /\ two \in Seq(TargetStates) /\ Len(all) \in Nat
      /\ DOMAIN all = 1 .. Len(all) /\ DOMAIN two = 1 .. Len(all) + 1
      /\ two[Len(all) + 1] = x
      /\ \A k \in DOMAIN all : two[k] = all[k]
  BY <1>1, Appended
<1> HIDE DEF two
<1>3. Len(all) + 1 \in I!Instances
  BY <1>1, <1>2 DEF I!Room, I!Instances, LibraryAssumption, I!InplaceAssumption
<1>4. DOMAIN two = DOMAIN all \cup {Len(all) + 1} /\ Len(all) + 1 \notin DOMAIN all
  BY <1>2
<1>5. \A k \in DOMAIN two : two[k].target # Garbage
  BY <1>1, <1>2, <1>4 DEF I!Rest
<1>6. /\ new.data \in DOMAIN two /\ two[new.data].state # "destroyed"
      /\ \A g \in Functions \ {f} : function[g].managed => function[g].data # new.data
  BY <1>1, <1>2, <1>4 DEF I!Rest
<1>7. \A g \in Functions \ {f} : function[g].managed =>
        function[g].data \in DOMAIN two /\ two[function[g].data].state # "destroyed"
  BY <1>1, <1>2, <1>4 DEF I!Rest
<1>8. \A k \in DOMAIN two : two[k].state # "destroyed" =>
        \/ new.managed /\ new.data = k
        \/ \E g \in Functions \ {f} : function[g].managed /\ function[g].data = k
  BY ZenonT(40), <1>1, <1>2, <1>4 DEF I!Rest
<1>9. \A g \in Functions \ {f} : function[g].invoke = "functor" =>
        function[g].managed /\ two[function[g].data].state = "whole"
  BY <1>1, <1>2, <1>4 DEF I!Rest
<1>10. new.invoke = "functor" => new.managed /\ two[new.data].state = "whole"
  BY <1>2
<1>11. new \in MemberStates /\ new.life = "alive" /\ new.managed
  BY <1>3 DEF MemberStates
<1>12. instances' = two
  BY DEF two
<1>13. Fits(two, f, new)
  BY <1>2, <1>5, <1>6, <1>7, <1>8, <1>9, <1>10, <1>11 DEF Fits
<1> QED BY <1>12, <1>13, FitsKeepsInv

\* f is left without a target.
LEMMA NoneIsOwned ==
  ASSUME I!Inv, NEW f \in Functions, NEW all, Ready(all, f),
         NEW new \in Untargeted,
         function' = [function EXCEPT ![f] = new], instances' = all
  PROVE  I!Inv'
<1>1. all \in Seq(TargetStates) /\ I!Rest(all, Functions \ {f})
  BY DEF Ready
<1>2. new \in MemberStates /\ ~new.managed /\ new.invoke # "functor"
  BY DEF MemberStates, Untargeted
<1>3. /\ \A k \in DOMAIN all : all[k].target # Garbage
      /\ \A g \in Functions \ {f} : function[g].managed =>
           function[g].data \in DOMAIN all /\ all[function[g].data].state # "destroyed"
      /\ \A k \in DOMAIN all : all[k].state # "destroyed" =>
           \E g \in Functions \ {f} : function[g].managed /\ function[g].data = k
      /\ \A g \in Functions \ {f} : function[g].invoke = "functor" =>
           function[g].managed /\ all[function[g].data].state = "whole"
  BY <1>1 DEF I!Rest
<1>4. Fits(all, f, new)
  BY <1>1, <1>2, <1>3 DEF Fits
<1> QED BY <1>4, FitsKeepsInv

LEMMA EmptyIsNone ==
  /\ I!Empty \in Untargeted
  /\ [I!Empty EXCEPT !.invoke = "pointer"] \in Untargeted
  /\ [I!Empty EXCEPT !.life = "destroyed"] \in Untargeted
  /\ [I!Empty EXCEPT !.life = "unborn"] \in Untargeted
<1>1. I!Empty \in Untargeted
  BY DEF I!Empty, Untargeted
<1> QED BY <1>1 DEF Untargeted

LEMMA SetKeepsInv ==
  ASSUME I!Inv, NEW f \in Functions, NEW all, Ready(all, f), I!Set(f, all)
  PROVE  I!Inv'
<1>1. ASSUME NEW t \in Targets, I!SetFunctor(f, t, all) PROVE I!Inv'
  <2> DEFINE x == [target |-> t, state |-> "whole"]
             new == [life |-> "alive", invoke |-> "functor", managed |-> TRUE,
                     data |-> Len(all) + 1]
  <2>1. /\ x \in TargetStates /\ x.target # Garbage /\ x.state = "whole"
    BY DEF TargetStates, LibraryAssumption, I!InplaceAssumption
  <2>2. /\ function' = [function EXCEPT ![f] = new] /\ instances' = Append(all, x) /\ I!Room
    BY <1>1 DEF I!SetFunctor, I!Built
  <2>3. new \in [life : {"alive"}, invoke : {"default", "functor", "pointer"},
                 managed : {TRUE}, data : {Len(all) + 1}]
    OBVIOUS
  <2> HIDE DEF x, new
  <2> QED BY <2>1, <2>2, <2>3, BuiltIsOwned
<1>2. CASE I!SetPointer(f, all)
  BY <1>2, EmptyIsNone, NoneIsOwned DEF I!SetPointer
<1>3. CASE I!SetNull(f, all)
  BY <1>3, EmptyIsNone, NoneIsOwned DEF I!SetNull
<1> QED BY <1>1, <1>2, <1>3 DEF I!Set

LEMMA MemberAt ==
  ASSUME I!Inv, NEW f \in Functions
  PROVE  /\ function[f] \in MemberStates
         /\ function = [g \in Functions |-> function[g]]
         /\ I!Rest(instances, Functions)
BY DEF I!Inv, I!TypeOK, MemberStates

LEMMA CopyKeepsInv ==
  ASSUME I!Inv, NEW f \in Functions, NEW all, Ready(all, f), I!Room,
         NEW from \in MemberStates, from.life = "alive",
         from.managed => from.data \in DOMAIN all /\ all[from.data].state # "destroyed",
         from.invoke = "functor" => from.managed /\ all[from.data].state = "whole",
         I!Copy(f, from, all)
  PROVE  I!Inv'
<1>1. CASE from.managed
  <2> DEFINE x == all[from.data]
             new == [from EXCEPT !.data = Len(all) + 1]
  <2>1. /\ all \in Seq(TargetStates) /\ DOMAIN all = 1 .. Len(all) /\ Len(all) \in Nat
        /\ \A k \in DOMAIN all : all[k].target # Garbage
    BY DEF Ready, I!Rest
  <2>2. /\ from.data # 0 /\ x \in TargetStates /\ x.target # Garbage
        /\ x.state # "destroyed"
    BY <1>1, <2>1
  <2>3. function' = [function EXCEPT ![f] = new] /\ instances' = Append(all, x)
    BY <1>1, <2>2 DEF I!Copy, I!CopyOp, I!Read
  <2>4. /\ new \in [life : {"alive"}, invoke : {"default", "functor", "pointer"},
                     managed : {TRUE}, data : {Len(all) + 1}]
        /\ new.invoke = from.invoke
    BY <1>1 DEF MemberStates
  <2>5. new.invoke = "functor" => x.state = "whole"
    BY <2>4
  <2> HIDE DEF x, new
  <2> QED BY <2>2, <2>3, <2>4, <2>5, BuiltIsOwned
<1>2. CASE ~from.managed
  <2>1. [from EXCEPT !.data = 0] \in Untargeted
    BY <1>2 DEF MemberStates, Untargeted
  <2> QED BY <1>2, <2>1, NoneIsOwned DEF I!Copy
<1> QED BY <1>1, <1>2

\* A move leaves g what remains of its target.
LEMMA MoveKeepsInv ==
  ASSUME I!Inv, NEW f \in Functions, NEW g \in Functions \ {f}, NEW all, Ready(all, f), I!Room,
         I!Alive(g), I!Move(f, g, all)
  PROVE  I!Inv'
<1> DEFINE from == function[g]
           k == from.data
           n == Len(all) + 1
<1>1. /\ all \in Seq(TargetStates) /\ DOMAIN all = 1 .. Len(all) /\ Len(all) \in Nat
      /\ Len(all) = Len(instances) /\ I!Rest(all, Functions \ {f})
  BY DEF Ready
<1>2. from \in MemberStates /\ from.life = "alive"
  BY MemberAt DEF I!Alive
<1>3. CASE from.managed
  <2> DEFINE left == [all EXCEPT ![k].state = "moved"]
             two == Append(left, all[k])
             new == [from EXCEPT !.data = n]
             old == [from EXCEPT !.invoke = "default"]
  <2>1. /\ k \in DOMAIN all /\ k # 0 /\ all[k] \in TargetStates
        /\ all[k].state # "destroyed" /\ all[k].target # Garbage
    BY <1>1, <1>3 DEF I!Rest
  <2>2. /\ left \in Seq(TargetStates) /\ Len(left) = Len(all) /\ DOMAIN left = DOMAIN all
        /\ left[k].state = "moved" /\ left[k].target = all[k].target
        /\ \A i \in DOMAIN all \ {k} : left[i] = all[i]
    BY <1>1, <2>1 DEF TargetStates
  <2> HIDE DEF left
  <2>3. /\ two \in Seq(TargetStates) /\ DOMAIN two = 1 .. n /\ two[n] = all[k]
        /\ \A i \in DOMAIN all : two[i] = left[i]
    BY <1>1, <2>1, <2>2, Appended
  <2>4. /\ instances' = two
        /\ function' = [function EXCEPT ![f] = new, ![g] = old]
    BY <1>3, <2>1 DEF I!Move, I!MoveOp, I!Read, left
  <2> HIDE DEF two
  <2>5. /\ new \in MemberStates /\ old \in MemberStates
        /\ new.life = "alive" /\ old.life = "alive" /\ new.managed /\ old.managed
        /\ new.data = n /\ old.data = k /\ old.invoke = "default" /\ new.invoke = from.invoke
    BY <1>1, <1>2, <1>3
       DEF MemberStates, I!Room, I!Instances, LibraryAssumption, I!InplaceAssumption
  <2>6. /\ function'[f] = new /\ function'[g] = old
        /\ \A h \in Functions \ {f, g} : function'[h] = function[h]
        /\ function' \in [Functions -> MemberStates]
    BY <2>4, <2>5, MemberAt
  <2> HIDE DEF new, old
  <2>7. I!TypeOK'
    BY <2>3, <2>4, <2>6 DEF I!TypeOK, MemberStates, TargetStates
  <2>8. \A h \in Functions : ~I!Alive(h)' => ~function'[h].managed
    BY <2>5, <2>6 DEF I!Alive, I!Inv
  <2>9. DOMAIN two = DOMAIN all \cup {n} /\ n \notin DOMAIN all
    BY <1>1, <2>3
  <2>10. \A i \in DOMAIN two : two[i].target # Garbage
    BY <1>1, <2>1, <2>2, <2>3, <2>9 DEF I!Rest
  <2>11. \A h \in Functions : function'[h].managed =>
           function'[h].data \in DOMAIN two /\ two[function'[h].data].state # "destroyed"
    <3>1. ASSUME NEW h \in Functions \ {f, g}, function[h].managed
          PROVE  function[h].data \in DOMAIN two /\ two[function[h].data].state # "destroyed"
      <4>1. function[h].data \in DOMAIN all /\ all[function[h].data].state # "destroyed"
        BY <1>1, <3>1 DEF I!Rest
      <4> QED BY <2>2, <2>3, <2>9, <4>1
    <3>2. k \in DOMAIN two /\ two[k].state # "destroyed"
      BY <2>1, <2>2, <2>3, <2>9
    <3>3. n \in DOMAIN two /\ two[n].state # "destroyed"
      BY <2>1, <2>3, <2>9
    <3> QED BY <2>5, <2>6, <3>1, <3>2, <3>3
  <2>12. \A h, i \in Functions : function'[h].managed /\ function'[i].managed
                               /\ function'[h].data = function'[i].data => h = i
    <3>1. \A h \in Functions \ {f, g} : function[h].managed =>
            function[h].data \in DOMAIN all /\ function[h].data # k
      BY <1>1, <1>3 DEF I!Rest
    <3>2. \A h, i \in Functions \ {f, g} : function[h].managed /\ function[i].managed
                                        /\ function[h].data = function[i].data => h = i
      BY <1>1 DEF I!Rest
    <3> QED BY <2>1, <2>5, <2>6, <2>9, <3>1, <3>2
  <2>13. \A i \in DOMAIN two : two[i].state # "destroyed" =>
           \E h \in Functions : function'[h].managed /\ function'[h].data = i
    <3>1. ASSUME NEW i \in DOMAIN all \ {k}, all[i].state # "destroyed"
          PROVE  \E h \in Functions \ {f, g} : function[h].managed /\ function[h].data = i
      BY <1>1, <3>1 DEF I!Rest
    <3>2. \A i \in DOMAIN all \ {k} : two[i] = all[i]
      BY <2>2, <2>3
    <3> QED BY <2>5, <2>6, <2>9, <3>1, <3>2
  <2>14. \A h \in Functions : function'[h].invoke = "functor" =>
           function'[h].managed /\ two[function'[h].data].state = "whole"
    <3>1. ASSUME NEW h \in Functions \ {f, g}, function[h].invoke = "functor"
          PROVE  function[h].managed /\ two[function[h].data].state = "whole"
      <4>1. /\ function[h].managed /\ function[h].data \in DOMAIN all
            /\ all[function[h].data].state = "whole" /\ function[h].data # k
        BY <1>1, <1>3, <3>1 DEF I!Rest
      <4> QED BY <2>2, <2>3, <4>1
    <3>2. from.invoke = "functor" => all[k].state = "whole"
      BY <1>1 DEF I!Rest
    <3> QED BY <2>3, <2>5, <2>6, <3>1, <3>2
  <2>15. I!Rest(instances, Functions)'
    BY <2>4, <2>10, <2>11, <2>12, <2>13, <2>14 DEF I!Rest
  <2> QED BY <2>7, <2>8, <2>15 DEF I!Inv
<1>4. CASE ~from.managed
  <2> DEFINE new == [from EXCEPT !.data = 0]
             old == [from EXCEPT !.invoke = "default"]
  <2>1. instances' = all /\ function' = [function EXCEPT ![f] = new, ![g] = old]
    BY <1>4 DEF I!Move
  <2>2. from.invoke # "functor"
    BY <1>1, <1>4 DEF I!Rest
  <2>3. /\ new \in MemberStates /\ old \in MemberStates
        /\ ~new.managed /\ ~old.managed /\ old.invoke # "functor" /\ new.invoke # "functor"
    BY <1>2, <1>4, <2>2 DEF MemberStates
  <2>4. /\ function'[f] = new /\ function'[g] = old
        /\ \A h \in Functions \ {f, g} : function'[h] = function[h]
        /\ function' \in [Functions -> MemberStates]
    BY <2>1, <2>3, MemberAt
  <2> HIDE DEF new, old
  <2>5. I!TypeOK'
    BY <1>1, <2>1, <2>4 DEF I!TypeOK, MemberStates, TargetStates
  <2>6. \A h \in Functions : ~I!Alive(h)' => ~function'[h].managed
    BY <2>3, <2>4 DEF I!Alive, I!Inv
  <2>7. I!Rest(instances, Functions)'
    BY <1>1, <1>4, <2>1, <2>3, <2>4 DEF I!Rest
  <2> QED BY <2>5, <2>6, <2>7 DEF I!Inv
<1> QED BY <1>3, <1>4

LEMMA SwapKeepsInv ==
  ASSUME I!Inv, ~SwapsFunctors, NEW f \in Functions, NEW g \in Functions, I!Swap(f, g)
  PROVE  I!Inv'
<1> DEFINE new == [function[g] EXCEPT !.data = function[g].data]
           b0 == [mine |-> function[f].data, other |-> function[g].data, temp |-> 0,
                  all |-> instances]
<1>1. /\ f # g /\ function[f].life = "alive" /\ function[g].life = "alive"
      /\ ~function[f].managed /\ ~function[g].managed
  BY DEF I!Swap, I!Alive
<1>2. /\ function[f] \in MemberStates /\ function[g] \in MemberStates
      /\ function[f].invoke # "functor" /\ function[g].invoke # "functor"
  BY <1>1, MemberAt DEF I!Rest
<1>3. PICK d, e : /\ d \in {function[f].data, function[g].data, 0}
                  /\ e \in {function[f].data, function[g].data, 0}
                  /\ instances' = instances
                  /\ function' = [function EXCEPT ![f] = [function[g] EXCEPT !.data = d],
                                                 ![g] = [function[f] EXCEPT !.data = e]]
  <2> DEFINE b1 == [b0 EXCEPT !.temp = b0.mine]
             b2 == [b1 EXCEPT !.mine = b1.other]
             b3 == [b2 EXCEPT !.other = b2.temp]
  <2>1. /\ instances' = b3.all
        /\ function' = [function EXCEPT ![f] = [function[g] EXCEPT !.data = b3.mine],
                                       ![g] = [function[f] EXCEPT !.data = b3.other]]
    BY <1>1 DEF I!Swap, I!MoveBuffers
  <2>2. /\ b3.all = instances /\ b3.mine = function[g].data /\ b3.other = function[f].data
    OBVIOUS
  <2> QED BY <2>1, <2>2
<1> DEFINE mine == [function[g] EXCEPT !.data = d]
           other == [function[f] EXCEPT !.data = e]
<1>4. /\ mine \in MemberStates /\ other \in MemberStates
      /\ ~mine.managed /\ ~other.managed
      /\ mine.invoke # "functor" /\ other.invoke # "functor"
  BY <1>1, <1>2, <1>3 DEF MemberStates
<1>5. /\ function'[f] = mine /\ function'[g] = other
      /\ \A h \in Functions \ {f, g} : function'[h] = function[h]
      /\ function' \in [Functions -> MemberStates]
  BY <1>1, <1>3, <1>4, MemberAt
<1> HIDE DEF mine, other
<1>6. I!TypeOK'
  BY <1>3, <1>5 DEF I!Inv, I!TypeOK, MemberStates, TargetStates
<1>7. \A h \in Functions : ~I!Alive(h)' => ~function'[h].managed
  BY <1>4, <1>5 DEF I!Alive, I!Inv
<1>8. I!Rest(instances, Functions)'
  BY <1>1, <1>3, <1>4, <1>5, MemberAt DEF I!Rest
<1> QED BY <1>6, <1>7, <1>8 DEF I!Inv

LEMMA FunctionInit == I!Init => I!Inv
<1> SUFFICES ASSUME I!Init PROVE I!Inv
  OBVIOUS
<1>1. [I!Empty EXCEPT !.life = "unborn"] \in MemberStates /\ instances = <<>>
  BY EmptyIsNone DEF I!Init, Untargeted, MemberStates
<1>2. \A f \in Functions : ~function[f].managed /\ function[f].invoke # "functor"
  BY EmptyIsNone DEF I!Init, Untargeted
<1>3. I!TypeOK
  BY <1>1 DEF I!Init, I!TypeOK, MemberStates
<1> QED BY <1>1, <1>2, <1>3 DEF I!Inv, I!Rest

LEMMA FunctionStep ==
  ASSUME ~SwapsFunctors, I!Inv, [I!Next]_(I!vars)
  PROVE  I!Inv'
<1>1. ASSUME NEW f \in Functions, I!ConstructEmpty(f) \/ I!ConstructFrom(f) PROVE I!Inv'
  <2>1. Ready(instances, f)
    BY <1>1, NothingToClear DEF I!ConstructEmpty, I!ConstructFrom, I!Unborn, I!Inv, I!Alive
  <2>2. CASE I!ConstructEmpty(f)
    BY <2>1, <2>2, EmptyIsNone, NoneIsOwned DEF I!ConstructEmpty
  <2>3. CASE I!ConstructFrom(f)
    BY <2>1, <2>3, SetKeepsInv DEF I!ConstructFrom
  <2> QED BY <1>1, <2>2, <2>3
<1>2. ASSUME NEW f \in Functions, I!AssignTarget(f) PROVE I!Inv'
  BY <1>2, ClearedIsReady, SetKeepsInv DEF I!AssignTarget
<1>3. ASSUME NEW f \in Functions, I!AssignThrows(f) \/ I!Destroy(f) PROVE I!Inv'
  <2>1. Ready(I!Cleared(instances, f), f)
    BY ClearedIsReady
  <2>2. CASE I!AssignThrows(f)
    BY <2>1, <2>2, EmptyIsNone, NoneIsOwned DEF I!AssignThrows, I!SetNull
  <2>3. CASE I!Destroy(f)
    BY <2>1, <2>3, EmptyIsNone, NoneIsOwned DEF I!Destroy
  <2> QED BY <1>3, <2>2, <2>3
<1>4. ASSUME NEW f \in Functions, NEW g \in Functions, I!CopyConstruct(f, g) PROVE I!Inv'
  <2>1. Ready(instances, f)
    BY <1>4, NothingToClear DEF I!CopyConstruct, I!Unborn, I!Inv, I!Alive
  <2>2. /\ I!Room /\ function[g] \in MemberStates /\ function[g].life = "alive"
        /\ I!Copy(f, function[g], instances)
    BY <1>4, MemberAt DEF I!CopyConstruct, I!Alive
  <2>3. /\ function[g].managed => /\ function[g].data \in DOMAIN instances
                                  /\ instances[function[g].data].state # "destroyed"
        /\ function[g].invoke = "functor" =>
             function[g].managed /\ instances[function[g].data].state = "whole"
    BY MemberAt DEF I!Rest
  <2> QED BY <2>1, <2>2, <2>3, CopyKeepsInv
<1>5. ASSUME NEW f \in Functions, NEW g \in Functions, I!MoveConstruct(f, g) PROVE I!Inv'
  <2>1. Ready(instances, f) /\ g # f
    BY <1>5, NothingToClear DEF I!MoveConstruct, I!Unborn, I!Inv, I!Alive
  <2> QED BY <1>5, <2>1, MoveKeepsInv DEF I!MoveConstruct
<1>6. ASSUME NEW f \in Functions, NEW g \in Functions, I!CopyAssign(f, g) PROVE I!Inv'
  <2> DEFINE all == I!Cleared(instances, f)
             from == I!ClearedSource(f, g)
  <2>1. Ready(all, f) /\ I!Room /\ I!Copy(f, from, all)
    BY <1>6, ClearedIsReady DEF I!CopyAssign
  <2>2. from \in MemberStates /\ from.life = "alive"
    BY <1>6, MemberAt DEF I!CopyAssign, I!Alive, I!ClearedSource, I!Empty, MemberStates
  <2>3. /\ from.managed => from.data \in DOMAIN all /\ all[from.data].state # "destroyed"
        /\ from.invoke = "functor" => from.managed /\ all[from.data].state = "whole"
    <3>1. CASE f = g
      BY <3>1 DEF I!ClearedSource, I!Empty
    <3>2. CASE f # g
      BY <3>2, <2>1 DEF I!ClearedSource, Ready, I!Rest
    <3> QED BY <3>1, <3>2
  <2> HIDE DEF all, from
  <2> QED BY <2>1, <2>2, <2>3, CopyKeepsInv
<1>7. ASSUME NEW f \in Functions, NEW g \in Functions, I!MoveAssign(f, g) PROVE I!Inv'
  <2>1. Ready(I!Cleared(instances, f), f)
    BY ClearedIsReady
  <2>2. CASE f = g
    BY <1>7, <2>1, <2>2, EmptyIsNone, NoneIsOwned DEF I!MoveAssign, I!SetNull
  <2>3. CASE f # g
    BY <1>7, <2>1, <2>3, MoveKeepsInv DEF I!MoveAssign
  <2> QED BY <2>2, <2>3
<1>8. ASSUME NEW f \in Functions, NEW g \in Functions, I!Swap(f, g) PROVE I!Inv'
  BY <1>8, SwapKeepsInv
<1>9. CASE UNCHANGED I!vars
  BY <1>9 DEF I!vars, I!Inv, I!TypeOK, I!Rest, I!Alive
<1> QED BY <1>1, <1>2, <1>3, <1>4, <1>5, <1>6, <1>7, <1>8, <1>9 DEF I!Next

(* Every target is destroyed exactly once, by the one function that owns   *)
(* it, and what a function calls is whole, whatever was copied, moved,     *)
(* assigned to itself or left by an exception.  (swap of functors builds   *)
(* over what is there: the hypothesis leaves it out.)                      *)
THEOREM EachTargetHasItsOwner ==
  ASSUME ~SwapsFunctors
  PROVE  Spec => []TargetsAreOwned
<1>1. Init => I!Inv
  BY FunctionInit DEF Init
<1>2. I!Inv /\ [Next]_libraryVars => I!Inv'
  <2>1. [Next]_libraryVars => [I!Next]_(I!vars)
    BY DEF Next, libraryVars, functionVars, I!vars
  <2> QED BY <2>1, FunctionStep
<1>3. I!Inv => TargetsAreOwned
  <2> SUFFICES ASSUME I!Inv PROVE I!TargetsAreOwned /\ I!CallableIsWhole
    BY DEF TargetsAreOwned
  <2>1. ASSUME NEW k \in DOMAIN instances, instances[k].state = "destroyed"
        PROVE  I!Owners(k) = {}
    BY <2>1, MemberAt DEF I!Rest, I!Owners, I!Inv
  <2>2. ASSUME NEW k \in DOMAIN instances, instances[k].state # "destroyed"
        PROVE  \E f \in Functions : I!Owners(k) = {f}
    <3>1. PICK f \in Functions : function[f].managed /\ function[f].data = k
      BY <2>2 DEF I!Rest, I!Inv
    <3>2. I!Owners(k) = {f}
      BY <3>1 DEF I!Rest, I!Owners, I!Inv
    <3> QED BY <3>2
  <2>3. \A f \in Functions : function[f].managed => function[f].data \in DOMAIN instances
    BY DEF I!Rest, I!Inv
  <2>4. DOMAIN instances = 1 .. Len(instances) /\ Len(instances) \in Nat
    BY FunctionFacts DEF I!Inv
  <2>5. I!CallableIsWhole
    BY <2>3, <2>4 DEF I!CallableIsWhole, I!Rest, I!Inv
  <2> QED BY <2>1, <2>2, <2>3, <2>5 DEF I!TargetsAreOwned
<1> QED BY <1>1, <1>2, <1>3, PTL DEF Spec

-----------------------------------------------------------------------------
(* weak_table. *)

LEMMA TableInit == W!Init => W!Inv
<1> SUFFICES ASSUME W!Init PROVE W!Inv
  OBVIOUS
<1> USE DEF LibraryAssumption, W!WeakTableAssumption
<1>1. W!TypeOK
  BY DEF W!Init, W!TypeOK
<1>2. W!TicketsFindTheirTable
  BY DEF W!Init, W!CellsLead, W!TicketsFindTheirTable
<1> QED BY <1>1, <1>2 DEF W!Inv

LEMMA TableStep == W!Inv /\ [W!Next]_(W!vars) => W!Inv'
<1> SUFFICES ASSUME W!Inv, [W!Next]_(W!vars) PROVE W!Inv'
  OBVIOUS
<1> USE DEF LibraryAssumption, W!WeakTableAssumption, W!Inv
<1>1. ASSUME NEW o \in Objects, W!Insert(o) PROVE W!Inv'
  BY <1>1 DEF W!Insert, W!TypeOK, W!CellsLead, W!TicketsFindTheirTable
<1>2. ASSUME NEW o \in Objects, NEW p \in Objects, W!MoveTicket(o, p) PROVE W!Inv'
  BY <1>2 DEF W!MoveTicket, W!TypeOK, W!CellsLead, W!TicketsFindTheirTable
<1>3. ASSUME NEW o \in Objects, W!DestroyShell(o) PROVE W!Inv'
  BY <1>3 DEF W!DestroyShell, W!TypeOK, W!CellsLead, W!TicketsFindTheirTable
<1>4. ASSUME NEW o \in Objects, W!DestroyTicket(o) PROVE W!Inv'
  BY <1>4 DEF W!DestroyTicket, W!Erased, W!TypeOK, W!CellsLead, W!TicketsFindTheirTable
<1>5. CASE W!Clear \/ W!DestroyTable
  <2>1. /\ map' = {} /\ UNCHANGED <<ticket, passed, current>> /\ alive' \in BOOLEAN
        /\ cell' = [a \in Addresses |-> IF a \in map THEN "null" ELSE cell[a]]
    BY <1>5 DEF W!Clear, W!DestroyTable, W!CutOff, W!TypeOK
  <2>2. W!TypeOK'
    BY <2>1 DEF W!TypeOK
  <2>3. W!CellsLead'
    <3>1. ASSUME NEW a \in Addresses
          PROVE  /\ cell'[a] # "table"
                 /\ cell'[a] # "free" <=> \E o \in Objects : ticket'[o] = a
      <4>1. cell'[a] = IF a \in map THEN "null" ELSE cell[a]
        BY <2>1
      <4>2. /\ cell[a] # "free" <=> \E o \in Objects : ticket[o] = a
            /\ cell[a] = "table" <=> a \in map
        BY DEF W!CellsLead, W!TicketsFindTheirTable
      <4> QED BY <2>1, <4>1, <4>2
    <3> QED BY <2>1, <3>1 DEF W!CellsLead
  <2> QED BY <2>1, <2>2, <2>3 DEF W!TicketsFindTheirTable
<1>6. CASE W!BeginApply \/ W!ApplyNext \/ W!CallableReturns \/ W!ApplyReturns
  BY <1>6 DEF W!BeginApply, W!ApplyNext, W!CallableReturns, W!ApplyReturns,
              W!TypeOK, W!CellsLead, W!TicketsFindTheirTable
<1>7. CASE UNCHANGED W!vars
  BY <1>7 DEF W!vars, W!TypeOK, W!CellsLead, W!TicketsFindTheirTable
<1> QED BY <1>1, <1>2, <1>3, <1>4, <1>5, <1>6, <1>7 DEF W!Next

(* A ticket finds the table exactly while it lives and holds its value:    *)
(* whatever was moved or cleared, it removes its own value or nothing.     *)
THEOREM TableIsFound == Spec => []TicketsFindTheirTable
<1>1. Init => W!Inv
  BY TableInit DEF Init
<1>2. W!Inv /\ [Next]_libraryVars => W!Inv'
  <2>1. [Next]_libraryVars => [W!Next]_(W!vars)
    BY DEF Next, libraryVars, tableVars, W!vars
  <2> QED BY <2>1, TableStep
<1>3. W!Inv => TicketsFindTheirTable
  BY DEF W!Inv, TicketsFindTheirTable
<1> QED BY <1>1, <1>2, <1>3, PTL DEF Spec
-----------------------------------------------------------------------------
(* trace_region. *)

LEMMA CookieNumbers == Cookies \in Nat /\ Cookies > 1 /\ T!MaxSessions = 2
BY DEF LibraryAssumption, T!TraceAssumption, T!MaxSessions

LEMMA RegionFacts ==
  ASSUME T!TypeOK
  PROVE  /\ region \in [Regions -> T!RegionStates]
         /\ events \in Seq(T!EventStates)
         /\ nextCookie \in 0 .. Cookies - 1
         /\ sessions \in 0 .. 2 /\ session \in 0 .. sessions
         /\ uses \in [1 .. 2 -> Int]
         /\ copy \in [Regions -> {T!Unread} \cup 0 .. 2]
BY CookieNumbers DEF T!TypeOK

Numbered(life, cookie, name, registration) ==
    [life |-> life, cookie |-> cookie, name |-> name, registration |-> registration]

LEMMA RegionRecord ==
  ASSUME NEW x \in T!RegionStates
  PROVE  /\ x = Numbered(x.life, x.cookie, x.name, x.registration)
         /\ x.life \in {"unborn", "constructing", "alive", "destroyed"}
         /\ x.cookie \in 0 .. Cookies - 1 /\ x.name \in Names \cup {NoName}
         /\ x.registration \in 0 .. 2
BY CookieNumbers DEF T!RegionStates, Numbered

LEMMA NumberedFacts ==
  ASSUME NEW l \in {"unborn", "constructing", "alive", "destroyed"},
         NEW c \in 0 .. Cookies - 1, NEW n \in Names \cup {NoName}, NEW g \in 0 .. 2
  PROVE  /\ Numbered(l, c, n, g) \in T!RegionStates
         /\ Numbered(l, c, n, g).life = l /\ Numbered(l, c, n, g).cookie = c
         /\ Numbered(l, c, n, g).name = n /\ Numbered(l, c, n, g).registration = g
BY CookieNumbers DEF T!RegionStates, Numbered

LEMMA SmallCookies == 0 \in 0 .. Cookies - 1 /\ 1 \in 0 .. Cookies - 1
BY CookieNumbers

\* Changes of one field, for which equals can be put.
WithLife(x, l) == [x EXCEPT !.life = l]
WithCookie(x, c) == [x EXCEPT !.cookie = c]
WithName(x, n) == [x EXCEPT !.name = n]
WithRegistration(x, g) == [x EXCEPT !.registration = g]

LEMMA NumberedExcept ==
  ASSUME NEW l, NEW c, NEW n, NEW g, NEW x
  PROVE  /\ WithLife(Numbered(l, c, n, g), x) = Numbered(x, c, n, g)
         /\ WithCookie(Numbered(l, c, n, g), x) = Numbered(l, x, n, g)
         /\ WithName(Numbered(l, c, n, g), x) = Numbered(l, c, x, g)
         /\ WithRegistration(Numbered(l, c, n, g), x) = Numbered(l, c, n, x)
BY DEF Numbered, WithLife, WithCookie, WithName, WithRegistration

LEMMA MovedFromIs ==
  ASSUME NEW x \in T!RegionStates
  PROVE  /\ T!MovedFrom(x) = Numbered(x.life, 0, NoName, 0)
         /\ [T!MovedFrom(x) EXCEPT !.life = "destroyed"] = Numbered("destroyed", 0, NoName, 0)
<1>1. T!MovedFrom(x) = WithRegistration(WithName(WithCookie(x, 0), NoName), 0)
  BY DEF T!MovedFrom, WithCookie, WithName, WithRegistration
<1>2. T!MovedFrom(x) = Numbered(x.life, 0, NoName, 0)
  BY <1>1, RegionRecord, NumberedExcept
<1>3. [T!MovedFrom(x) EXCEPT !.life = "destroyed"] = WithLife(T!MovedFrom(x), "destroyed")
  BY DEF WithLife
<1> QED BY <1>2, <1>3, NumberedExcept

LEMMA UnbornIs == T!Unborn = Numbered("unborn", 0, NoName, 0)
BY DEF T!Unborn, Numbered

LEMMA WrittenFacts ==
  ASSUME NEW x \in T!RegionStates, NEW what \in {"begin", "end"}
  PROVE  /\ T!Written(what, x) \in T!EventStates
         /\ T!Written(what, x).what = what /\ T!Written(what, x).cookie = x.cookie
         /\ T!Written(what, x).name = x.name
BY RegionRecord DEF T!Written, T!EventStates

\* A step leaves every region a state of a region, and writes events.
LEMMA SetKeepsRegions ==
  ASSUME NEW reg \in [Regions -> T!RegionStates], NEW r \in Regions, NEW new \in T!RegionStates
  PROVE  /\ [reg EXCEPT ![r] = new] \in [Regions -> T!RegionStates]
         /\ [reg EXCEPT ![r] = new][r] = new
         /\ \A q \in Regions \ {r} : [reg EXCEPT ![r] = new][q] = reg[q]
OBVIOUS

\* What the switches and the provider are, besides the copies being made.
withoutCopy == <<enabled, session, sessions, uses, registered, control, ending, T!history>>

\* What the constructors put in the place of a region.
LEMMA TakenCookie ==
  ASSUME T!TypeOK, NEW r \in Regions, NEW name \in Names, T!WindowsTakeCookie(r, name)
  PROVE  \E c \in 0 .. Cookies - 1, n \in Names \cup {NoName} :
           /\ region[r] = Numbered("unborn", 0, NoName, 0)
           /\ region' = [region EXCEPT ![r] = Numbered("constructing", c, n, 0)]
           /\ c = IF enabled THEN nextCookie ELSE 0
           /\ nextCookie' = IF enabled THEN T!Following(nextCookie) ELSE nextCookie
           /\ copy' = [copy EXCEPT ![r] = IF c # 0 THEN T!Unread ELSE 0]
           /\ UNCHANGED <<build, events, withoutCopy>>
<1> DEFINE c == IF enabled THEN nextCookie ELSE 0
           n == IF c # 0 THEN name ELSE NoName
<1>1. region[r] = Numbered("unborn", 0, NoName, 0)
  BY UnbornIs DEF T!WindowsTakeCookie
<1>2. region' = [region EXCEPT ![r] =
                   WithName(WithCookie(WithLife(region[r], "constructing"), c), n)]
  BY RegionFacts DEF T!WindowsTakeCookie, WithLife, WithCookie, WithName
<1>3. c \in 0 .. Cookies - 1 /\ n \in Names \cup {NoName}
  BY RegionFacts, SmallCookies
<1>4. /\ UNCHANGED <<build, events, withoutCopy>>
      /\ copy' = [copy EXCEPT ![r] = IF c # 0 THEN T!Unread ELSE 0]
  BY DEF T!WindowsTakeCookie, withoutCopy, T!history
<1>5. nextCookie' = IF enabled THEN T!Following(nextCookie) ELSE nextCookie
  BY DEF T!WindowsTakeCookie
<1>6. c = IF enabled THEN nextCookie ELSE 0
  OBVIOUS
<1> HIDE DEF c, n
<1>7. WithName(WithCookie(WithLife(region[r], "constructing"), c), n) =
        Numbered("constructing", c, n, 0)
  BY <1>1, NumberedExcept
<1>8. region' = [region EXCEPT ![r] = Numbered("constructing", c, n, 0)]
  BY <1>2, <1>7
<1> QED BY <1>1, <1>3, <1>4, <1>5, <1>6, <1>8

LEMMA Constructed ==
  ASSUME T!TypeOK, NEW r \in Regions, T!WindowsConstruct(r)
  PROVE  \E g \in 0 .. 2 :
           /\ region[r].life = "constructing"
           /\ region' = [region EXCEPT ![r] =
                           Numbered("alive", region[r].cookie, region[r].name, g)]
           /\ g \in IF region[r].cookie = 0 THEN {0} ELSE {copy[r], session}
           /\ copy[r] # T!Unread /\ copy' = [copy EXCEPT ![r] = 0]
           /\ uses' = T!Raised(copy[r])
           /\ events' = IF region[r].cookie = 0 THEN events
                        ELSE Append(events, T!Written("begin", region[r]))
           /\ UNCHANGED <<build, nextCookie, enabled, session, sessions, registered, control,
                          ending, T!history>>
<1>2. PICK g \in IF region[r].cookie = 0 THEN {0} ELSE {copy[r], session} :
        region' = [region EXCEPT ![r] = WithRegistration(WithLife(region[r], "alive"), g)]
  BY RegionFacts DEF T!WindowsConstruct, WithLife, WithRegistration
<1>1. region[r] = Numbered(region[r].life, region[r].cookie, region[r].name,
                           region[r].registration)
  BY RegionFacts, RegionRecord
<1>3. copy[r] # T!Unread /\ g \in 0 .. 2
  BY RegionFacts DEF T!WindowsConstruct
<1>4. WithRegistration(WithLife(region[r], "alive"), g) =
        Numbered("alive", region[r].cookie, region[r].name, g)
  BY <1>1, NumberedExcept
<1>5. region' = [region EXCEPT ![r] = Numbered("alive", region[r].cookie, region[r].name, g)]
  BY <1>2, <1>4
<1> QED BY <1>2, <1>3, <1>5 DEF T!WindowsConstruct, T!history

\* The other platforms draw a cookie and begin in one step.
Began(r, c, n, drawn) ==
    /\ region[r] = Numbered("unborn", 0, NoName, 0)
    /\ region' = [region EXCEPT ![r] = Numbered("alive", c, n, 0)]
    /\ drawn = nextCookie \/ (nextCookie = 0 /\ drawn = 1)
    /\ c = IF enabled THEN drawn ELSE 0
    /\ events' = IF c = 0 THEN events
                 ELSE Append(events, T!Written("begin", Numbered("alive", c, n, 0)))
    /\ nextCookie' = IF enabled THEN T!Following(drawn) ELSE nextCookie
    /\ build # "windows" /\ UNCHANGED <<build, T!switches>>

LEMMA AndroidBegan ==
  ASSUME T!TypeOK, NEW r \in Regions, NEW name \in Names, T!AndroidConstruct(r, name)
  PROVE  \E c \in 0 .. Cookies - 1, n \in Names \cup {NoName}, drawn \in 0 .. Cookies - 1 :
           Began(r, c, n, drawn)
<1> DEFINE active == enabled /\ nextCookie # 0
           c == IF active THEN nextCookie ELSE 0
           n == IF active THEN name ELSE NoName
           new == WithName(WithCookie(WithLife(T!Unborn, "alive"), c), n)
<1>1. region[r] = Numbered("unborn", 0, NoName, 0)
  BY UnbornIs DEF T!AndroidConstruct
<1>2. /\ region' = [region EXCEPT ![r] = new]
      /\ events' = IF active THEN Append(events, T!Written("begin", new)) ELSE events
  BY DEF T!AndroidConstruct, WithLife, WithCookie, WithName
<1>3. c \in 0 .. Cookies - 1 /\ n \in Names \cup {NoName} /\ nextCookie \in 0 .. Cookies - 1
  BY RegionFacts, SmallCookies
<1>4. c = (IF enabled THEN nextCookie ELSE 0) /\ (active <=> c # 0)
  OBVIOUS
<1>5. /\ nextCookie' = IF enabled THEN T!Following(nextCookie) ELSE nextCookie
      /\ build # "windows" /\ UNCHANGED <<build, T!switches>>
  BY DEF T!AndroidConstruct, T!switches
<1> HIDE DEF c, n, active
<1>6. new = Numbered("alive", c, n, 0)
  BY UnbornIs, NumberedExcept
<1> HIDE DEF new
<1>7. Began(r, c, n, nextCookie)
  BY <1>1, <1>2, <1>4, <1>5, <1>6 DEF Began
<1> QED BY <1>3, <1>7

LEMMA AppleBegan ==
  ASSUME T!TypeOK, NEW r \in Regions, T!AppleConstruct(r)
  PROVE  \E c \in 0 .. Cookies - 1, n \in Names \cup {NoName}, drawn \in 0 .. Cookies - 1 :
           Began(r, c, n, drawn)
<1> DEFINE drawn == IF nextCookie = 0 THEN 1 ELSE nextCookie
           c == IF enabled THEN drawn ELSE 0
           new == WithCookie(WithLife(T!Unborn, "alive"), c)
<1>1. region[r] = Numbered("unborn", 0, NoName, 0)
  BY UnbornIs DEF T!AppleConstruct
<1>2. /\ region' = [region EXCEPT ![r] = new]
      /\ events' = IF enabled THEN Append(events, T!Written("begin", new)) ELSE events
      /\ nextCookie' = IF enabled THEN T!Following(drawn) ELSE nextCookie
  BY DEF T!AppleConstruct, WithLife, WithCookie
<1>3. build # "windows" /\ UNCHANGED <<build, T!switches>>
  BY DEF T!AppleConstruct
<1>4. /\ drawn \in 0 .. Cookies - 1 /\ drawn # 0
      /\ drawn = nextCookie \/ (nextCookie = 0 /\ drawn = 1)
  BY RegionFacts, SmallCookies
<1> HIDE DEF drawn
<1>5. /\ c \in 0 .. Cookies - 1 /\ (enabled <=> c # 0)
      /\ c = IF enabled THEN drawn ELSE 0
  BY <1>4, SmallCookies
<1> HIDE DEF c
<1>6. new = Numbered("alive", c, NoName, 0)
  BY UnbornIs, NumberedExcept
<1> HIDE DEF new
<1>7. Began(r, c, NoName, drawn)
  BY <1>1, <1>2, <1>3, <1>4, <1>5, <1>6 DEF Began
<1> QED BY <1>4, <1>5, <1>7

\* What an event does to the intervals that are written down.
LEMMA BeginEvents ==
  ASSUME NEW trace \in Seq(T!EventStates), T!EventsPair(trace),
         NEW e \in T!EventStates, e.what = "begin", e.cookie # 0,
         \A i \in DOMAIN trace : trace[i].cookie # e.cookie,
         NEW two, two = Append(trace, e)
  PROVE  /\ two \in Seq(T!EventStates) /\ T!EventsPair(two)
         /\ DOMAIN two = DOMAIN trace \cup {Len(trace) + 1} /\ two[Len(trace) + 1] = e
         /\ \A i \in DOMAIN trace : two[i] = trace[i]
         /\ \A i \in DOMAIN trace : T!IsOpen(two, i) <=> T!IsOpen(trace, i)
         /\ T!IsOpen(two, Len(trace) + 1)
<1> DEFINE n == Len(trace)
<1>1. /\ n \in Nat /\ DOMAIN trace = 1 .. n /\ DOMAIN two = 1 .. n + 1 /\ two[n + 1] = e
      /\ \A i \in 1 .. n : two[i] = trace[i]
      /\ two \in Seq(T!EventStates)
  OBVIOUS
<1> HIDE DEF n
<1>2. \A i, j \in 1 .. n : T!Follows(trace, i, j) => T!Follows(two, i, j)
  BY <1>1 DEF T!Follows
<1>3. \A j \in 1 .. n : T!EndsItsBegin(trace, j) => T!EndsItsBegin(two, j)
  BY <1>1, <1>2 DEF T!EndsItsBegin
<1>4. T!EventsPair(two)
  <2>1. \A i \in 1 .. n + 1 : two[i].cookie # 0
    BY <1>1 DEF T!EventsPair
  <2>2. \A j \in 1 .. n + 1 : two[j].what = "end" => T!EndsItsBegin(two, j)
    BY <1>1, <1>3 DEF T!EventsPair
  <2>3. \A i, j \in 1 .. n + 1 :
          i < j /\ two[j].what = "begin" => two[i].cookie # two[j].cookie
    BY <1>1 DEF T!EventsPair
  <2> QED BY <1>1, <2>1, <2>2, <2>3 DEF T!EventsPair
<1>5. \A i \in 1 .. n : T!IsOpen(two, i) <=> T!IsOpen(trace, i)
  BY <1>1 DEF T!IsOpen
<1>6. T!IsOpen(two, n + 1)
  BY <1>1 DEF T!IsOpen
<1> QED BY <1>1, <1>4, <1>5, <1>6 DEF n

LEMMA EndEvents ==
  ASSUME NEW trace \in Seq(T!EventStates), T!EventsPair(trace),
         NEW e \in T!EventStates, e.what = "end", e.cookie # 0,
         NEW b \in DOMAIN trace, T!IsOpen(trace, b),
         trace[b].cookie = e.cookie, trace[b].name = e.name,
         NEW two, two = Append(trace, e)
  PROVE  /\ two \in Seq(T!EventStates) /\ T!EventsPair(two)
         /\ DOMAIN two = DOMAIN trace \cup {Len(trace) + 1} /\ two[Len(trace) + 1] = e
         /\ \A i \in DOMAIN trace : two[i] = trace[i]
         /\ \A i \in DOMAIN trace :
              T!IsOpen(two, i) <=> T!IsOpen(trace, i) /\ trace[i].cookie # e.cookie
         /\ ~T!IsOpen(two, Len(trace) + 1)
<1> DEFINE n == Len(trace)
<1>1. /\ n \in Nat /\ DOMAIN trace = 1 .. n /\ DOMAIN two = 1 .. n + 1 /\ two[n + 1] = e
      /\ \A i \in 1 .. n : two[i] = trace[i]
      /\ two \in Seq(T!EventStates)
  OBVIOUS
<1> HIDE DEF n
<1>2. \A i, j \in 1 .. n : T!Follows(trace, i, j) => T!Follows(two, i, j)
  BY <1>1 DEF T!Follows
<1>3. \A j \in 1 .. n : T!EndsItsBegin(trace, j) => T!EndsItsBegin(two, j)
  BY <1>1, <1>2 DEF T!EndsItsBegin
<1>4. T!EndsItsBegin(two, n + 1)
  <2>1. b \in 1 .. n /\ two[b] = trace[b] /\ trace[b].what = "begin"
    BY <1>1 DEF T!IsOpen
  <2>2. \A k \in b + 1 .. (n + 1) - 1 : k \in 1 .. n /\ k > b
    BY <1>1, <2>1
  <2>3. \A k \in b + 1 .. (n + 1) - 1 : two[k].cookie # e.cookie
    BY <1>1, <2>2 DEF T!IsOpen
  <2>4. b < n + 1
    BY <1>1, <2>1
  <2>5. T!Follows(two, b, n + 1)
    BY <1>1, <2>1, <2>3, <2>4 DEF T!Follows
  <2>6. b \in DOMAIN two
    BY <1>1, <2>1
  <2> QED BY <1>1, <2>1, <2>5, <2>6 DEF T!EndsItsBegin
<1>5. T!EventsPair(two)
  <2>1. \A i \in 1 .. n + 1 : two[i].cookie # 0
    BY <1>1 DEF T!EventsPair
  <2>2. \A j \in 1 .. n + 1 : two[j].what = "end" => T!EndsItsBegin(two, j)
    BY <1>1, <1>3, <1>4 DEF T!EventsPair
  <2>3. \A i, j \in 1 .. n + 1 :
          i < j /\ two[j].what = "begin" => two[i].cookie # two[j].cookie
    <3>1. \A j \in 1 .. n + 1 : two[j].what = "begin" => j \in 1 .. n
      BY <1>1
    <3>2. \A i, j \in 1 .. n + 1 : i < j /\ j \in 1 .. n => i \in 1 .. n
      BY <1>1
    <3> QED BY SMTT(30), <1>1, <3>1, <3>2 DEF T!EventsPair
  <2> QED BY <1>1, <2>1, <2>2, <2>3 DEF T!EventsPair
<1>6. \A i \in 1 .. n :
        T!IsOpen(two, i) <=> T!IsOpen(trace, i) /\ trace[i].cookie # e.cookie
  <2>1. ASSUME NEW i \in 1 .. n
        PROVE  /\ i \in DOMAIN two /\ n + 1 > i /\ n + 1 \in DOMAIN two
               /\ \A k \in DOMAIN two : k # n + 1 => k \in DOMAIN trace
    BY <1>1
  <2> QED BY <1>1, <2>1 DEF T!IsOpen
<1>7. ~T!IsOpen(two, n + 1)
  BY <1>1 DEF T!IsOpen
<1> QED BY <1>1, <1>5, <1>6, <1>7 DEF n

\* The regions and what is written of them: what every step keeps.
Pairs(reg, trace) ==
    /\ reg \in [Regions -> T!RegionStates] /\ trace \in Seq(T!EventStates)
    /\ T!CookiesApart(reg, trace) /\ T!EventsPair(trace) /\ T!OpenIsHeld(reg, trace)

\* The parts a step is made of.  A region without a cookie becomes another one.
LEMMA NoCookieKeeps ==
  ASSUME NEW reg, NEW trace, Pairs(reg, trace),
         NEW r \in Regions, reg[r].cookie = 0,
         NEW new \in T!RegionStates, new.cookie = 0,
         NEW reg2, reg2 = [reg EXCEPT ![r] = new]
  PROVE  Pairs(reg2, trace)
<1>1. /\ reg2 \in [Regions -> T!RegionStates] /\ reg2[r] = new
      /\ \A q \in Regions \ {r} : reg2[q] = reg[q]
  BY SetKeepsRegions DEF Pairs
<1>2. \A q \in Regions : reg2[q].cookie # 0 => q # r /\ reg2[q] = reg[q]
  BY <1>1
<1>3. T!CookiesApart(reg2, trace)
  BY <1>1, <1>2 DEF Pairs, T!CookiesApart
<1>4. T!OpenIsHeld(reg2, trace)
  <2>1. \A i \in DOMAIN trace : trace[i].cookie # 0
    BY DEF Pairs, T!EventsPair
  <2>2. \A q \in Regions : reg[q].cookie # 0 => reg2[q] = reg[q]
    BY <1>1
  <2> QED BY <1>1, <1>2, <2>1, <2>2 DEF Pairs, T!OpenIsHeld
<1> QED BY <1>1, <1>3, <1>4 DEF Pairs

\* A region draws a cookie nobody has.
LEMMA DrawKeeps ==
  ASSUME NEW reg, NEW trace, Pairs(reg, trace),
         NEW r \in Regions, reg[r].cookie = 0,
         NEW new \in T!RegionStates, new.life = "constructing",
         ~T!IsUsed(reg, trace, new.cookie),
         NEW reg2, reg2 = [reg EXCEPT ![r] = new]
  PROVE  Pairs(reg2, trace)
<1>1. /\ reg2 \in [Regions -> T!RegionStates] /\ reg2[r] = new
      /\ \A q \in Regions \ {r} : reg2[q] = reg[q]
  BY SetKeepsRegions DEF Pairs
<1>2. /\ \A q \in Regions : reg[q].cookie # new.cookie
      /\ \A i \in DOMAIN trace : trace[i].cookie # new.cookie
  BY DEF T!IsUsed
<1>3. T!CookiesApart(reg2, trace)
  BY <1>1, <1>2 DEF Pairs, T!CookiesApart
<1>4. T!OpenIsHeld(reg2, trace)
  <2>1. \A i \in DOMAIN trace : trace[i].cookie # 0
    BY DEF Pairs, T!EventsPair
  <2>2. \A q \in Regions : reg[q].cookie # 0 => reg2[q] = reg[q]
    BY <1>1
  <2>3. \A q \in Regions : reg2[q].life = "alive" => reg2[q] = reg[q]
    BY <1>1
  <2> QED BY <1>1, <2>1, <2>2, <2>3 DEF Pairs, T!OpenIsHeld
<1> QED BY <1>1, <1>3, <1>4 DEF Pairs

\* A region whose construction ends writes its begin.
LEMMA BeginKeeps ==
  ASSUME NEW reg, NEW trace, Pairs(reg, trace),
         NEW r \in Regions, reg[r].cookie # 0, reg[r].life = "constructing",
         NEW new \in T!RegionStates, new.life = "alive",
         new.cookie = reg[r].cookie, new.name = reg[r].name,
         NEW reg2, reg2 = [reg EXCEPT ![r] = new],
         NEW two, two = Append(trace, T!Written("begin", reg[r]))
  PROVE  Pairs(reg2, two)
<1> DEFINE e == T!Written("begin", reg[r])
           n == Len(trace) + 1
<1>1. /\ reg2 \in [Regions -> T!RegionStates] /\ reg2[r] = new
      /\ \A q \in Regions \ {r} : reg2[q] = reg[q]
      /\ reg[r] \in T!RegionStates
  BY SetKeepsRegions DEF Pairs
<1>2. /\ e \in T!EventStates /\ e.what = "begin" /\ e.cookie = new.cookie
      /\ e.name = new.name
  BY <1>1, WrittenFacts
<1>3. \A i \in DOMAIN trace : trace[i].cookie # e.cookie
  BY <1>2 DEF Pairs, T!CookiesApart
<1>4. /\ two \in Seq(T!EventStates) /\ T!EventsPair(two)
      /\ DOMAIN two = DOMAIN trace \cup {n} /\ two[n] = e
      /\ \A i \in DOMAIN trace : two[i] = trace[i]
      /\ \A i \in DOMAIN trace : T!IsOpen(two, i) <=> T!IsOpen(trace, i)
      /\ T!IsOpen(two, n)
  <2> HIDE DEF e
  <2>1. e.cookie # 0 /\ two = Append(trace, e)
    BY <1>2 DEF e
  <2> QED BY <1>2, <1>3, <2>1, BeginEvents DEF Pairs
<1> HIDE DEF e, n
<1>5. T!CookiesApart(reg2, two)
  <2>1. \A q \in Regions : reg2[q].cookie = reg[q].cookie
    BY <1>1
  <2>2. \A q \in Regions : reg2[q].life = "constructing" => q # r /\ reg2[q] = reg[q]
    BY <1>1
  <2>3. \A q \in Regions : reg2[q].life \in {"unborn", "destroyed"} => reg2[q] = reg[q]
    BY <1>1
  <2>4. \A q \in Regions \ {r} : reg2[q].cookie # 0 => reg2[q].cookie # e.cookie
    BY <1>1, <1>2 DEF Pairs, T!CookiesApart
  <2>5. \A q \in Regions : reg2[q].life = "constructing" /\ reg2[q].cookie # 0 =>
          \A i \in DOMAIN two : two[i].cookie # reg2[q].cookie
    BY <1>4, <2>2, <2>4 DEF Pairs, T!CookiesApart
  <2> QED BY <2>1, <2>3, <2>5 DEF Pairs, T!CookiesApart
<1>6. T!OpenIsHeld(reg2, two)
  <2>1. ASSUME NEW q \in Regions, reg2[q].life = "alive", reg2[q].cookie # 0
        PROVE  \E i \in DOMAIN two :
                 T!IsOpen(two, i) /\ two[i].cookie = reg2[q].cookie /\ two[i].name = reg2[q].name
    <3>1. CASE q = r
      BY <1>1, <1>2, <1>4, <3>1
    <3>2. CASE q # r
      <4>1. reg2[q] = reg[q]
        BY <1>1, <3>2
      <4>2. PICK i \in DOMAIN trace : /\ T!IsOpen(trace, i) /\ trace[i].cookie = reg[q].cookie
                                      /\ trace[i].name = reg[q].name
        BY <2>1, <4>1 DEF Pairs, T!OpenIsHeld
      <4> QED BY <1>4, <4>1, <4>2
    <3> QED BY <3>1, <3>2
  <2>2. ASSUME NEW i \in DOMAIN two, T!IsOpen(two, i)
        PROVE  \E q \in Regions : reg2[q].life = "alive" /\ reg2[q].cookie = two[i].cookie
    <3>1. CASE i = n
      BY <1>1, <1>2, <1>4, <3>1
    <3>2. CASE i \in DOMAIN trace
      <4>1. PICK q \in Regions : reg[q].life = "alive" /\ reg[q].cookie = trace[i].cookie
        BY <1>4, <2>2, <3>2 DEF Pairs, T!OpenIsHeld
      <4>2. q # r
        BY <4>1
      <4> QED BY <1>1, <1>4, <3>2, <4>1, <4>2
    <3> QED BY <1>4, <3>1, <3>2
  <2> QED BY <2>1, <2>2 DEF T!OpenIsHeld
<1> QED BY <1>1, <1>4, <1>5, <1>6 DEF Pairs

\* A region writes its end, and holds no cookie any more.
LEMMA EndKeeps ==
  ASSUME NEW reg, NEW trace, Pairs(reg, trace),
         NEW r \in Regions, reg[r].cookie # 0, reg[r].life = "alive",
         NEW new \in T!RegionStates, new.cookie = 0,
         NEW reg2, reg2 = [reg EXCEPT ![r] = new],
         NEW two, two = Append(trace, T!Written("end", reg[r]))
  PROVE  Pairs(reg2, two)
<1> DEFINE e == T!Written("end", reg[r])
           n == Len(trace) + 1
<1>1. /\ reg2 \in [Regions -> T!RegionStates] /\ reg2[r] = new
      /\ \A q \in Regions \ {r} : reg2[q] = reg[q]
      /\ reg[r] \in T!RegionStates
  BY SetKeepsRegions DEF Pairs
<1>2. /\ e \in T!EventStates /\ e.what = "end" /\ e.cookie = reg[r].cookie
      /\ e.name = reg[r].name
  BY <1>1, WrittenFacts
<1>3. PICK b \in DOMAIN trace : /\ T!IsOpen(trace, b) /\ trace[b].cookie = reg[r].cookie
                               /\ trace[b].name = reg[r].name
  BY DEF Pairs, T!OpenIsHeld
<1>4. /\ two \in Seq(T!EventStates) /\ T!EventsPair(two)
      /\ DOMAIN two = DOMAIN trace \cup {n} /\ two[n] = e
      /\ \A i \in DOMAIN trace : two[i] = trace[i]
      /\ \A i \in DOMAIN trace :
           T!IsOpen(two, i) <=> T!IsOpen(trace, i) /\ trace[i].cookie # e.cookie
      /\ ~T!IsOpen(two, n)
  <2> HIDE DEF e
  <2>1. e.cookie # 0 /\ two = Append(trace, e)
    BY <1>2 DEF e
  <2>2. trace[b].cookie = e.cookie /\ trace[b].name = e.name
    BY <1>2, <1>3
  <2> QED BY <1>2, <1>3, <2>1, <2>2, EndEvents DEF Pairs
<1> HIDE DEF e, n
<1>5. \A q \in Regions : reg2[q].cookie # 0 =>
        q # r /\ reg2[q] = reg[q] /\ reg2[q].cookie # e.cookie
  BY <1>1, <1>2 DEF Pairs, T!CookiesApart
<1>6. T!CookiesApart(reg2, two)
  <2>1. \A q \in Regions : reg2[q].life = "constructing" /\ reg2[q].cookie # 0 =>
          \A i \in DOMAIN two : two[i].cookie # reg2[q].cookie
    BY <1>4, <1>5 DEF Pairs, T!CookiesApart
  <2>2. \A q \in Regions : reg2[q].life \in {"unborn", "destroyed"} => reg2[q].cookie = 0
    BY <1>5 DEF Pairs, T!CookiesApart
  <2>3. \A q, h \in Regions : reg2[q].cookie = reg2[h].cookie /\ reg2[q].cookie # 0 => q = h
    BY <1>5 DEF Pairs, T!CookiesApart
  <2> QED BY <2>1, <2>2, <2>3 DEF T!CookiesApart
<1>7. T!OpenIsHeld(reg2, two)
  <2>1. ASSUME NEW q \in Regions, reg2[q].life = "alive", reg2[q].cookie # 0
        PROVE  \E i \in DOMAIN two :
                 T!IsOpen(two, i) /\ two[i].cookie = reg2[q].cookie /\ two[i].name = reg2[q].name
    <3>1. q # r /\ reg2[q] = reg[q] /\ reg2[q].cookie # e.cookie
      BY <1>5, <2>1
    <3>2. PICK i \in DOMAIN trace : /\ T!IsOpen(trace, i) /\ trace[i].cookie = reg[q].cookie
                                    /\ trace[i].name = reg[q].name
      BY <2>1, <3>1 DEF Pairs, T!OpenIsHeld
    <3> QED BY <1>4, <3>1, <3>2
  <2>2. ASSUME NEW i \in DOMAIN two, T!IsOpen(two, i)
        PROVE  \E q \in Regions : reg2[q].life = "alive" /\ reg2[q].cookie = two[i].cookie
    <3>1. i \in DOMAIN trace /\ T!IsOpen(trace, i) /\ trace[i].cookie # e.cookie
          /\ two[i] = trace[i]
      BY <1>4, <2>2
    <3>2. PICK q \in Regions : reg[q].life = "alive" /\ reg[q].cookie = trace[i].cookie
      BY <3>1 DEF Pairs, T!OpenIsHeld
    <3>3. q # r
      BY <1>2, <3>1, <3>2
    <3> QED BY <1>1, <3>1, <3>2, <3>3
  <2> QED BY <2>1, <2>2 DEF T!OpenIsHeld
<1> QED BY <1>1, <1>4, <1>6, <1>7 DEF Pairs

\* A region that has no cookie takes over the state of another one.
LEMMA MoveKeeps ==
  ASSUME NEW reg, NEW trace, Pairs(reg, trace),
         NEW r \in Regions, reg[r].cookie = 0,
         NEW from \in Regions \ {r}, reg[from].life = "alive",
         NEW left \in T!RegionStates, left.cookie = 0,
         NEW reg2, reg2 = [reg EXCEPT ![r] = reg[from], ![from] = left]
  PROVE  Pairs(reg2, trace)
<1>1. /\ reg2 \in [Regions -> T!RegionStates] /\ reg2[r] = reg[from] /\ reg2[from] = left
      /\ \A q \in Regions \ {r, from} : reg2[q] = reg[q]
  BY DEF Pairs
<1>2. \A q \in Regions \ {r} : reg2[q].cookie # 0 => q # from /\ reg2[q] = reg[q]
  BY <1>1
<1>3. T!CookiesApart(reg2, trace)
  <2>1. \A q \in Regions : reg2[q].life \in {"unborn", "destroyed"} => reg2[q].cookie = 0
    BY <1>1, <1>2 DEF Pairs, T!CookiesApart
  <2>2. \A q, h \in Regions : reg2[q].cookie = reg2[h].cookie /\ reg2[q].cookie # 0 => q = h
    BY <1>1, <1>2 DEF Pairs, T!CookiesApart
  <2>3. \A q \in Regions : reg2[q].life = "constructing" /\ reg2[q].cookie # 0 =>
          \A i \in DOMAIN trace : trace[i].cookie # reg2[q].cookie
    BY <1>1, <1>2 DEF Pairs, T!CookiesApart
  <2> QED BY <2>1, <2>2, <2>3 DEF T!CookiesApart
<1>4. T!OpenIsHeld(reg2, trace)
  <2>1. ASSUME NEW q \in Regions, reg2[q].life = "alive", reg2[q].cookie # 0
        PROVE  \E i \in DOMAIN trace :
                 /\ T!IsOpen(trace, i) /\ trace[i].cookie = reg2[q].cookie
                 /\ trace[i].name = reg2[q].name
    <3>1. CASE q = r
      BY <1>1, <2>1, <3>1 DEF Pairs, T!OpenIsHeld
    <3>2. CASE q # r
      BY <1>2, <2>1, <3>2 DEF Pairs, T!OpenIsHeld
    <3> QED BY <3>1, <3>2
  <2>2. ASSUME NEW i \in DOMAIN trace, T!IsOpen(trace, i)
        PROVE  \E q \in Regions : reg2[q].life = "alive" /\ reg2[q].cookie = trace[i].cookie
    <3>1. PICK q \in Regions : reg[q].life = "alive" /\ reg[q].cookie = trace[i].cookie
      BY <2>2 DEF Pairs, T!OpenIsHeld
    <3>2. trace[i].cookie # 0
      BY DEF Pairs, T!EventsPair
    <3>3. CASE q = from
      BY <1>1, <3>1, <3>3
    <3>4. CASE q # from
      BY <1>1, <3>1, <3>2, <3>4
    <3> QED BY <3>3, <3>4
  <2> QED BY <2>1, <2>2 DEF T!OpenIsHeld
<1> QED BY <1>1, <1>3, <1>4 DEF Pairs

\* The circle of the cookies.
Circle(reg, trace, next) ==
    \A c \in 1 .. Cookies - 1 :
      T!IsUsed(reg, trace, c) =>
        T!Behind(next, c) <= Cardinality(T!Born(reg)) + T!Skipped(next, c)

FewRegions == IsFiniteSet(Regions) /\ Cardinality(Regions) < Cookies

LEMMA FollowingIs ==
  ASSUME NEW c \in 0 .. Cookies - 1
  PROVE  /\ T!Following(c) \in 0 .. Cookies - 1
         /\ T!Following(c) = IF c = Cookies - 1 THEN 0 ELSE c + 1
<1>1. c + 1 \in 1 .. Cookies /\ Cookies \in Nat /\ Cookies > 1
  BY CookieNumbers
<1>2. CASE c = Cookies - 1
  BY <1>1, <1>2 DEF T!Following
<1>3. CASE c # Cookies - 1
  BY <1>1, <1>3 DEF T!Following
<1> QED BY <1>2, <1>3, SmallCookies

LEMMA BornCounts ==
  ASSUME FewRegions, NEW reg
  PROVE  /\ IsFiniteSet(T!Born(reg)) /\ Cardinality(T!Born(reg)) \in Nat
         /\ \A r \in Regions : r \notin T!Born(reg) =>
              /\ Cardinality(T!Born(reg) \cup {r}) = Cardinality(T!Born(reg)) + 1
              /\ Cardinality(T!Born(reg)) + 1 < Cookies
<1>1. T!Born(reg) \in SUBSET Regions
  BY DEF T!Born
<1>2. IsFiniteSet(T!Born(reg)) /\ Cardinality(T!Born(reg)) \in Nat
  BY <1>1, FS_Subset, FS_CardinalityType DEF FewRegions
<1>3. ASSUME NEW r \in Regions, r \notin T!Born(reg)
      PROVE  /\ Cardinality(T!Born(reg) \cup {r}) = Cardinality(T!Born(reg)) + 1
             /\ Cardinality(T!Born(reg)) + 1 < Cookies
  <2> DEFINE more == T!Born(reg) \cup {r}
  <2>1. Cardinality(more) = Cardinality(T!Born(reg)) + 1
    BY <1>2, <1>3, FS_AddElement
  <2>2. more \in SUBSET Regions
    BY <1>1
  <2>3. Cardinality(more) <= Cardinality(Regions)
    BY <2>2, FS_Subset DEF FewRegions
  <2>4. Cardinality(Regions) \in Nat
    BY FS_CardinalityType DEF FewRegions
  <2> QED BY <1>2, <2>1, <2>3, <2>4, CookieNumbers DEF FewRegions
<1> QED BY <1>2, <1>3

\* The cookie that is drawn is of nobody while there is a region to draw it.
LEMMA DrawnIsFresh ==
  ASSUME FewRegions, NEW reg, NEW trace, NEW next \in 0 .. Cookies - 1,
         Circle(reg, trace, next),
         NEW r \in Regions, r \notin T!Born(reg),
         NEW c \in 1 .. Cookies - 1, c = next \/ (next = 0 /\ c = 1)
  PROVE  ~T!IsUsed(reg, trace, c)
<1> DEFINE b == Cardinality(T!Born(reg))
<1>1. b \in Nat /\ b + 1 < Cookies
  BY BornCounts
<1> HIDE DEF b
<1>2. ~(T!Behind(next, c) <= b + T!Skipped(next, c))
  BY <1>1, CookieNumbers DEF T!Behind, T!Skipped
<1> QED BY <1>2 DEF Circle, b

\* A step that draws no cookie.
LEMMA CircleStays ==
  ASSUME FewRegions, NEW reg, NEW trace, NEW next \in 0 .. Cookies - 1,
         Circle(reg, trace, next), NEW reg2, NEW two,
         \A c \in 1 .. Cookies - 1 : T!IsUsed(reg2, two, c) => T!IsUsed(reg, trace, c),
         T!Born(reg) \subseteq T!Born(reg2)
  PROVE  Circle(reg2, two, next)
<1> DEFINE b == Cardinality(T!Born(reg))
           b2 == Cardinality(T!Born(reg2))
<1>1. b \in Nat /\ b2 \in Nat /\ IsFiniteSet(T!Born(reg2))
  BY BornCounts
<1>2. b <= b2
  BY <1>1, FS_Subset
<1> HIDE DEF b, b2
<1>3. ASSUME NEW c \in 1 .. Cookies - 1, T!IsUsed(reg2, two, c)
      PROVE  T!Behind(next, c) <= b2 + T!Skipped(next, c)
  <2>1. T!Behind(next, c) <= b + T!Skipped(next, c)
    BY <1>3 DEF Circle, b
  <2>2. T!Behind(next, c) \in Int /\ T!Skipped(next, c) \in Int
    BY CookieNumbers DEF T!Behind, T!Skipped
  <2> QED BY <1>1, <1>2, <2>1, <2>2
<1> QED BY <1>3 DEF Circle, b2

\* A step that draws one.
Draws(reg, trace, reg2, two, r, drawn) ==
    /\ \A q \in Regions : q \in T!Born(reg2) <=> q \in T!Born(reg) \/ q = r
    /\ \A c \in 1 .. Cookies - 1 :
         T!IsUsed(reg2, two, c) => c = drawn \/ T!IsUsed(reg, trace, c)

LEMMA CircleDraws ==
  ASSUME FewRegions, NEW reg, NEW trace, NEW next \in 0 .. Cookies - 1,
         Circle(reg, trace, next), NEW reg2, NEW two,
         NEW r \in Regions, r \notin T!Born(reg),
         NEW drawn \in 0 .. Cookies - 1, drawn = next \/ (next = 0 /\ drawn = 1),
         Draws(reg, trace, reg2, two, r, drawn)
  PROVE  Circle(reg2, two, T!Following(drawn))
<1> DEFINE b == Cardinality(T!Born(reg))
           b2 == Cardinality(T!Born(reg2))
           next2 == T!Following(drawn)
<1>1. b \in Nat /\ b2 = b + 1
  <2>1. T!Born(reg2) = T!Born(reg) \cup {r}
    BY DEF T!Born, Draws
  <2> QED BY <2>1, BornCounts
<1>2. next2 \in 0 .. Cookies - 1 /\ next2 = IF drawn = Cookies - 1 THEN 0 ELSE drawn + 1
  BY FollowingIs
<1> HIDE DEF b, b2, next2
<1>3. ASSUME NEW c \in 1 .. Cookies - 1, T!IsUsed(reg2, two, c)
      PROVE  T!Behind(next2, c) <= b2 + T!Skipped(next2, c)
  <2>1. CASE c = drawn
    BY <1>1, <1>2, <2>1, CookieNumbers DEF T!Behind, T!Skipped
  <2>2. CASE c # drawn
    <3>1. T!Behind(next, c) <= b + T!Skipped(next, c)
      BY <1>3, <2>2 DEF Circle, Draws, b
    <3> QED BY <1>1, <1>2, <2>2, <3>1, CookieNumbers DEF T!Behind, T!Skipped
  <2> QED BY <2>1, <2>2
<1> QED BY <1>3 DEF Circle, b2, next2

\* The steps of the three platforms, taken together.
Switched ==
    \/ T!WindowsEnable \/ T!WindowsEnabled \/ T!WindowsDisable
    \/ T!WindowsReset \/ T!WindowsRelease \/ T!WindowsUnregister
    \/ T!AndroidSwitch \/ T!AppleSwitch

LEMMA TraceSteps ==
  ASSUME T!TypeOK, T!Next
  PROVE  \/ Switched
         \/ \E r \in Regions, n \in Names : T!WindowsTakeCookie(r, n)
         \/ \E r \in Regions : T!WindowsReadCount(r)
         \/ \E r \in Regions : T!WindowsConstruct(r)
         \/ \E r \in Regions, c \in 0 .. Cookies - 1, n \in Names \cup {NoName},
               drawn \in 0 .. Cookies - 1 : Began(r, c, n, drawn)
         \/ \E r, from \in Regions : T!MoveConstruct(r, from)
         \/ \E r, from \in Regions :
              \/ T!WindowsMoveAssign(r, from) \/ T!AndroidMoveAssign(r, from)
              \/ T!AppleMoveAssign(r, from)
         \/ \E r \in Regions : T!WindowsDestroy(r) \/ T!AndroidDestroy(r) \/ T!AppleDestroy(r)
<1>1. CASE Switched
  BY <1>1
<1>2. ASSUME NEW r \in Regions, NEW from \in Regions, T!Windows(r, from)
      PROVE  \/ \E n \in Names : T!WindowsTakeCookie(r, n)
             \/ T!WindowsReadCount(r) \/ T!WindowsConstruct(r) \/ T!MoveConstruct(r, from)
             \/ T!WindowsMoveAssign(r, from) \/ T!WindowsDestroy(r)
  BY <1>2 DEF T!Windows, T!WindowsMoveConstruct
<1>3. ASSUME NEW r \in Regions, NEW from \in Regions, T!Android(r, from)
      PROVE  \/ \E n \in Names : T!AndroidConstruct(r, n)
             \/ T!MoveConstruct(r, from) \/ T!AndroidMoveAssign(r, from) \/ T!AndroidDestroy(r)
  BY <1>3 DEF T!Android, T!AndroidMoveConstruct
<1>4. ASSUME NEW r \in Regions, NEW from \in Regions, T!Apple(r, from)
      PROVE  \/ T!AppleConstruct(r) \/ T!MoveConstruct(r, from)
             \/ T!AppleMoveAssign(r, from) \/ T!AppleDestroy(r)
  BY <1>4 DEF T!Apple, T!AppleMoveConstruct
<1>5. CASE \E r, from \in Regions : T!Windows(r, from)
  BY <1>2, <1>5
<1>6. CASE \E r, from \in Regions : T!Android(r, from)
  BY <1>3, <1>6, AndroidBegan
<1>7. CASE \E r, from \in Regions : T!Apple(r, from)
  BY <1>4, <1>7, AppleBegan
<1> QED BY <1>1, <1>5, <1>6, <1>7 DEF T!Next, Switched

\* Where a move and a destruction leave the regions.
LEMMA MovedTo ==
  ASSUME T!TypeOK, NEW r \in Regions, NEW from \in Regions \ {r}
  PROVE  /\ T!MovedFrom(region[from]) = Numbered(region[from].life, 0, NoName, 0)
         /\ T!MovedFrom(region[from]) \in T!RegionStates
         /\ [region EXCEPT ![r] = region[from], ![from] = T!MovedFrom(@)] =
              [region EXCEPT ![r] = region[from], ![from] = T!MovedFrom(region[from])]
         /\ [region EXCEPT ![r] = region[from], ![from] = T!MovedFrom(region[from])]
              \in [Regions -> T!RegionStates]
<1>1. region[from] \in T!RegionStates
  BY RegionFacts
<1>2. T!MovedFrom(region[from]) = Numbered(region[from].life, 0, NoName, 0)
  BY <1>1, MovedFromIs
<1>3. T!MovedFrom(region[from]) \in T!RegionStates
  BY <1>1, <1>2, RegionRecord, SmallCookies, NumberedFacts
<1>4. [region EXCEPT ![r] = region[from], ![from] = T!MovedFrom(@)] =
        [region EXCEPT ![r] = region[from], ![from] = T!MovedFrom(region[from])]
  BY RegionFacts
<1> QED BY <1>2, <1>3, <1>4, RegionFacts

LEMMA DestroyedTo ==
  ASSUME T!TypeOK, NEW r \in Regions
  PROVE  /\ [region EXCEPT ![r] = [T!MovedFrom(@) EXCEPT !.life = "destroyed"]] =
              [region EXCEPT ![r] = Numbered("destroyed", 0, NoName, 0)]
         /\ Numbered("destroyed", 0, NoName, 0) \in T!RegionStates
<1>1. [T!MovedFrom(region[r]) EXCEPT !.life = "destroyed"] = Numbered("destroyed", 0, NoName, 0)
  BY RegionFacts, MovedFromIs
<1>2. [region EXCEPT ![r] = [T!MovedFrom(@) EXCEPT !.life = "destroyed"]] =
        [region EXCEPT ![r] = [T!MovedFrom(region[r]) EXCEPT !.life = "destroyed"]]
  BY RegionFacts
<1>3. Numbered("destroyed", 0, NoName, 0) \in T!RegionStates
  <2>1. /\ "destroyed" \in {"unborn", "constructing", "alive", "destroyed"}
        /\ 0 \in 0 .. Cookies - 1 /\ NoName \in Names \cup {NoName} /\ 0 \in 0 .. 2
    BY SmallCookies
  <2> QED BY <2>1, NumberedFacts
<1>4. [region EXCEPT ![r] = [T!MovedFrom(@) EXCEPT !.life = "destroyed"]] =
        [region EXCEPT ![r] = Numbered("destroyed", 0, NoName, 0)]
  BY <1>1, <1>2, Zenon
<1> QED BY <1>3, <1>4

LEMMA EndedFacts ==
  ASSUME T!TypeOK, NEW r \in Regions
  PROVE  T!Ended(region[r]) \in Seq(T!EventStates)
BY RegionFacts, WrittenFacts DEF T!Ended

\* The types of the switches and the provider.
ProviderTypes ==
    /\ enabled \in BOOLEAN /\ registered \in BOOLEAN
    /\ sessions \in 0 .. T!MaxSessions /\ session \in 0 .. sessions
    /\ uses \in [1 .. T!MaxSessions -> Int]
    /\ control \in T!Controls
    /\ copy \in [Regions -> {T!Unread} \cup 0 .. T!MaxSessions]
    /\ ending \in SUBSET Regions
    /\ overtaken \in BOOLEAN /\ restarted \in BOOLEAN

LEMMA TypesTogether ==
  T!TypeOK <=> /\ ProviderTypes
               /\ build \in {"windows", "android", "apple"} /\ nextCookie \in 0 .. Cookies - 1
               /\ region \in [Regions -> T!RegionStates] /\ events \in Seq(T!EventStates)
BY DEF T!TypeOK, ProviderTypes

LEMMA SwitchesKeepTypes == T!TypeOK /\ UNCHANGED T!switches => ProviderTypes'
BY DEF T!TypeOK, ProviderTypes, T!switches, T!provider, T!history

LEMMA CountTypes ==
  ASSUME T!TypeOK, NEW s \in 0 .. 2
  PROVE  T!Raised(s) \in [1 .. 2 -> Int] /\ T!Lowered(s) \in [1 .. 2 -> Int]
BY RegionFacts DEF T!Raised, T!Lowered

LEMMA GivingUpKeepsTypes ==
  ASSUME T!TypeOK, enabled' = enabled, NEW r \in Regions, T!GivesUp(r, region[r].registration)
  PROVE  ProviderTypes'
<1>1. region[r].registration \in 0 .. 2
  BY RegionFacts, RegionRecord
<1> QED BY <1>1, CountTypes, CookieNumbers
        DEF T!GivesUp, T!TypeOK, ProviderTypes, T!history

LEMMA SwitchedTypes == T!TypeOK /\ Switched => ProviderTypes'
<1> SUFFICES ASSUME T!TypeOK, Switched PROVE ProviderTypes'
  OBVIOUS
<1>1. ProviderTypes
  BY TypesTogether
<1>2. CASE T!WindowsEnable
  <2>1. sessions < 2 /\ sessions' = sessions + 1 /\ session' = sessions + 1
    BY <1>2, CookieNumbers DEF T!WindowsEnable
  <2>2. sessions' \in 0 .. 2 /\ session' \in 0 .. sessions' /\ sessions + 1 \in 1 .. 2
    BY <2>1, RegionFacts
  <2>3. uses' \in [1 .. 2 -> Int]
    BY <1>2, <2>2, RegionFacts DEF T!WindowsEnable
  <2> QED BY <1>1, <1>2, <2>2, <2>3, CookieNumbers DEF T!WindowsEnable, ProviderTypes, T!Controls
<1>3. CASE T!WindowsEnabled \/ T!WindowsDisable
  BY <1>1, <1>3, CookieNumbers
  DEF T!WindowsEnabled, T!WindowsDisable, ProviderTypes, T!Controls, T!history
<1>7. CASE T!WindowsReset
  <2>1. overtaken' \in BOOLEAN
    BY <1>7 DEF T!WindowsReset
  <2> QED BY <1>1, <1>7, <2>1, RegionFacts DEF T!WindowsReset, ProviderTypes, T!Controls
<1>4. CASE T!WindowsRelease
  <2>1. uses' \in [1 .. 2 -> Int]
    BY <1>4, RegionFacts, CountTypes DEF T!WindowsRelease
  <2> QED BY <1>1, <1>4, <2>1, CookieNumbers
          DEF T!WindowsRelease, ProviderTypes, T!Controls, T!history
<1>5. CASE T!WindowsUnregister
  BY <1>1, <1>5 DEF T!WindowsUnregister, ProviderTypes, T!Controls, T!history
<1>6. CASE T!AndroidSwitch \/ T!AppleSwitch
  <2>1. /\ sessions < 2 /\ sessions' = sessions + (IF enabled THEN 0 ELSE 1)
        /\ session' = session /\ enabled' = ~enabled
        /\ UNCHANGED <<uses, registered, control, copy, ending, T!history>>
    BY <1>6, CookieNumbers DEF T!AndroidSwitch, T!AppleSwitch
  <2>2. sessions' \in 0 .. 2 /\ session' \in 0 .. sessions'
    BY <2>1, RegionFacts
  <2> QED BY <1>1, <2>1, <2>2, CookieNumbers DEF ProviderTypes, T!history
<1> QED BY <1>2, <1>3, <1>4, <1>5, <1>6, <1>7 DEF Switched

LEMMA TypeStep == T!TypeOK /\ [T!Next]_(T!vars) => T!TypeOK'
<1> SUFFICES ASSUME T!TypeOK, [T!Next]_(T!vars) PROVE T!TypeOK'
  OBVIOUS
<1>0. ASSUME ProviderTypes', UNCHANGED build, nextCookie' \in 0 .. Cookies - 1,
             region' \in [Regions -> T!RegionStates], events' \in Seq(T!EventStates)
      PROVE  T!TypeOK'
  BY <1>0 DEF T!TypeOK, ProviderTypes
<1>1. CASE Switched
  <2>1. UNCHANGED <<region, events, nextCookie, build>>
    BY <1>1 DEF Switched, T!WindowsEnable, T!WindowsEnabled, T!WindowsDisable, T!WindowsReset,
                T!WindowsRelease, T!WindowsUnregister, T!AndroidSwitch, T!AppleSwitch
  <2> QED BY <1>0, <1>1, <2>1, SwitchedTypes, RegionFacts
<1>2. ASSUME NEW r \in Regions, NEW n \in Names, T!WindowsTakeCookie(r, n) PROVE T!TypeOK'
  <2>1. PICK c \in 0 .. Cookies - 1, m \in Names \cup {NoName} :
           /\ region' = [region EXCEPT ![r] = Numbered("constructing", c, m, 0)]
           /\ nextCookie' = IF enabled THEN T!Following(nextCookie) ELSE nextCookie
           /\ copy' = [copy EXCEPT ![r] = IF c # 0 THEN T!Unread ELSE 0]
           /\ UNCHANGED <<build, events, withoutCopy>>
    BY <1>2, TakenCookie
  <2>2. Numbered("constructing", c, m, 0) \in T!RegionStates
    BY NumberedFacts
  <2>3. region' \in [Regions -> T!RegionStates]
    BY <2>1, <2>2, RegionFacts
  <2>4. nextCookie' \in 0 .. Cookies - 1
    BY <2>1, RegionFacts, FollowingIs
  <2>5. ProviderTypes'
    BY <2>1, CookieNumbers DEF T!TypeOK, ProviderTypes, withoutCopy, T!history
  <2> QED BY <1>0, <2>1, <2>3, <2>4, <2>5, RegionFacts
<1>r. ASSUME NEW r \in Regions, T!WindowsReadCount(r) PROVE T!TypeOK'
  BY <1>r, CookieNumbers DEF T!WindowsReadCount, T!TypeOK, T!history
<1>3. ASSUME NEW r \in Regions, T!WindowsConstruct(r) PROVE T!TypeOK'
  <2>1. PICK g \in 0 .. 2 :
           /\ region' = [region EXCEPT ![r] =
                           Numbered("alive", region[r].cookie, region[r].name, g)]
           /\ events' = IF region[r].cookie = 0 THEN events
                        ELSE Append(events, T!Written("begin", region[r]))
           /\ copy[r] # T!Unread /\ copy' = [copy EXCEPT ![r] = 0]
           /\ uses' = T!Raised(copy[r])
           /\ UNCHANGED <<build, nextCookie, enabled, session, sessions, registered, control,
                          ending, T!history>>
    BY <1>3, Constructed
  <2>2. Numbered("alive", region[r].cookie, region[r].name, g) \in T!RegionStates
    BY RegionFacts, RegionRecord, NumberedFacts
  <2>3. region' \in [Regions -> T!RegionStates]
    BY <2>1, <2>2, RegionFacts
  <2>4. events' \in Seq(T!EventStates)
    BY <2>1, RegionFacts, WrittenFacts
  <2>5. uses' \in [1 .. 2 -> Int]
    BY <2>1, RegionFacts, CountTypes
  <2>6. ProviderTypes'
    BY <2>1, <2>5, CookieNumbers DEF T!TypeOK, ProviderTypes, T!history
  <2> QED BY <1>0, <2>1, <2>3, <2>4, <2>6, RegionFacts
<1>4. ASSUME NEW r \in Regions, NEW c \in 0 .. Cookies - 1, NEW n \in Names \cup {NoName},
             NEW drawn \in 0 .. Cookies - 1, Began(r, c, n, drawn)
      PROVE  T!TypeOK'
  <2>1. Numbered("alive", c, n, 0) \in T!RegionStates
    BY NumberedFacts
  <2>2. region' \in [Regions -> T!RegionStates]
    BY <1>4, <2>1, RegionFacts DEF Began
  <2>3. events' \in Seq(T!EventStates)
    BY <1>4, <2>1, RegionFacts, WrittenFacts DEF Began
  <2>4. nextCookie' \in 0 .. Cookies - 1
    BY <1>4, RegionFacts, FollowingIs DEF Began
  <2> QED BY <1>0, <1>4, <2>2, <2>3, <2>4, SwitchesKeepTypes DEF Began
<1>5. ASSUME NEW r \in Regions, NEW from \in Regions, T!MoveConstruct(r, from) PROVE T!TypeOK'
  <2>1. r # from
    BY <1>5, UnbornIs DEF T!MoveConstruct, T!Alive, Numbered
  <2>2. region' \in [Regions -> T!RegionStates]
    BY <1>5, <2>1, MovedTo DEF T!MoveConstruct
  <2>3. ProviderTypes'
    BY <1>5, SwitchesKeepTypes DEF T!MoveConstruct
  <2> QED BY <1>0, <1>5, <2>2, <2>3, RegionFacts DEF T!MoveConstruct
<1>6. ASSUME NEW r \in Regions, NEW from \in Regions,
             \/ T!WindowsMoveAssign(r, from) \/ T!AndroidMoveAssign(r, from)
             \/ T!AppleMoveAssign(r, from)
      PROVE  T!TypeOK'
  <2>1. /\ T!MoveAssign(r, from)
        /\ UNCHANGED <<build, nextCookie>>
        /\ UNCHANGED T!switches \/ (enabled' = enabled /\ T!GivesUp(r, region[r].registration))
    BY <1>6 DEF T!WindowsMoveAssign, T!AndroidMoveAssign, T!AppleMoveAssign
  <2>2. region' \in [Regions -> T!RegionStates] /\ events' \in Seq(T!EventStates)
    BY <2>1, MovedTo, EndedFacts DEF T!MoveAssign
  <2> QED BY <1>0, <2>1, <2>2, SwitchesKeepTypes, GivingUpKeepsTypes, RegionFacts
<1>7. ASSUME NEW r \in Regions, T!WindowsDestroy(r) \/ T!AndroidDestroy(r) \/ T!AppleDestroy(r)
      PROVE  T!TypeOK'
  <2>1. /\ T!Destroy(r)
        /\ UNCHANGED <<build, nextCookie>>
        /\ UNCHANGED T!switches \/ (enabled' = enabled /\ T!GivesUp(r, region[r].registration))
    BY <1>7 DEF T!WindowsDestroy, T!AndroidDestroy, T!AppleDestroy
  <2>2. region' = [region EXCEPT ![r] = Numbered("destroyed", 0, NoName, 0)]
    BY <2>1, DestroyedTo DEF T!Destroy
  <2>3. region' \in [Regions -> T!RegionStates] /\ events' \in Seq(T!EventStates)
    BY <2>1, <2>2, DestroyedTo, EndedFacts, RegionFacts DEF T!Destroy
  <2> QED BY <1>0, <2>1, <2>3, SwitchesKeepTypes, GivingUpKeepsTypes, RegionFacts
<1>8. CASE UNCHANGED T!vars
  BY <1>0, <1>8, SwitchesKeepTypes, RegionFacts DEF T!vars
<1> QED BY <1>1, <1>2, <1>r, <1>3, <1>4, <1>5, <1>6, <1>7, <1>8, TraceSteps

\* The steps that Switched does not name leave the switches alone.
switch == <<enabled, session, sessions, control>>

LEMMA SwitchesStay ==
  ASSUME T!TypeOK, [T!Next]_(T!vars)
  PROVE  build' = build /\ (Switched \/ UNCHANGED switch)
<1>1. CASE Switched
  BY <1>1 DEF Switched, T!WindowsEnable, T!WindowsEnabled, T!WindowsDisable, T!WindowsReset,
              T!WindowsRelease, T!WindowsUnregister, T!AndroidSwitch, T!AppleSwitch
<1>2. ASSUME NEW r \in Regions, NEW n \in Names, T!WindowsTakeCookie(r, n)
      PROVE  UNCHANGED <<build, switch>>
  BY <1>2 DEF T!WindowsTakeCookie, switch
<1>3. ASSUME NEW r \in Regions, T!WindowsReadCount(r) \/ T!WindowsConstruct(r)
      PROVE  UNCHANGED <<build, switch>>
  BY <1>3 DEF T!WindowsReadCount, T!WindowsConstruct, switch
<1>4. ASSUME NEW r \in Regions, NEW c \in 0 .. Cookies - 1, NEW n \in Names \cup {NoName},
             NEW drawn \in 0 .. Cookies - 1, Began(r, c, n, drawn)
      PROVE  UNCHANGED <<build, switch>>
  BY <1>4 DEF Began, switch, T!switches, T!provider
<1>5. ASSUME NEW r \in Regions, NEW from \in Regions,
             \/ T!MoveConstruct(r, from) \/ T!WindowsMoveAssign(r, from)
             \/ T!AndroidMoveAssign(r, from) \/ T!AppleMoveAssign(r, from)
             \/ T!WindowsDestroy(r) \/ T!AndroidDestroy(r) \/ T!AppleDestroy(r)
      PROVE  UNCHANGED <<build, switch>>
  BY <1>5 DEF T!MoveConstruct, T!WindowsMoveAssign, T!AndroidMoveAssign, T!AppleMoveAssign,
              T!WindowsDestroy, T!AndroidDestroy, T!AppleDestroy, T!GivesUp, switch, T!switches,
              T!provider
<1>6. CASE UNCHANGED T!vars
  BY <1>6 DEF T!vars, switch, T!switches, T!provider
<1>7. CASE T!Next
  BY <1>1, <1>2, <1>3, <1>4, <1>5, <1>7, TraceSteps
<1> QED BY <1>6, <1>7

\* s_registration refers to the last object while the switch is on.
LEMMA SwitchStep ==
  ASSUME T!TypeOK, build = "windows", T!SwitchInv, [T!Next]_(T!vars)
  PROVE  T!SwitchInv'
<1>1. sessions \in 0 .. 2
  BY RegionFacts
<1>2. CASE T!WindowsEnable
  BY <1>1, <1>2 DEF T!WindowsEnable, T!SwitchInv
<1>3. CASE T!WindowsEnabled \/ T!WindowsDisable
  BY <1>3 DEF T!WindowsEnabled, T!WindowsDisable, T!SwitchInv
<1>4. CASE T!WindowsReset \/ T!WindowsRelease \/ T!WindowsUnregister
  BY <1>4 DEF T!WindowsReset, T!WindowsRelease, T!WindowsUnregister, T!SwitchInv
<1>5. CASE UNCHANGED switch
  BY <1>5 DEF switch, T!SwitchInv
<1>6. ~T!AndroidSwitch /\ ~T!AppleSwitch
  BY DEF T!AndroidSwitch, T!AppleSwitch
<1> QED BY <1>2, <1>3, <1>4, <1>5, <1>6, SwitchesStay DEF Switched

\* The regions that share in the registration are counted.
SharedInv == T!TypeOK /\ T!SwitchInv /\ T!RegionsShare /\ T!Counted

Shares(reg) == T!Cardinality(T!Sharing(reg))

LEMMA SharesAre == ASSUME NEW reg PROVE Shares(reg) = Cardinality(T!Sharing(reg))
BY DEF Shares, T!Cardinality, Cardinality

LEMMA SharesCount ==
  ASSUME IsFiniteSet(Regions), NEW reg
  PROVE  /\ IsFiniteSet(T!Sharing(reg)) /\ Shares(reg) \in Nat
         /\ \A r \in Regions \ T!Sharing(reg) :
              Cardinality(T!Sharing(reg) \cup {r}) = Shares(reg) + 1
         /\ \A r \in T!Sharing(reg) :
              Shares(reg) > 0 /\ Cardinality(T!Sharing(reg) \ {r}) = Shares(reg) - 1
<1>1. T!Sharing(reg) \in SUBSET Regions
  BY DEF T!Sharing
<1>2. IsFiniteSet(T!Sharing(reg)) /\ Shares(reg) \in Nat
  BY <1>1, SharesAre, FS_Subset, FS_CardinalityType
<1>3. \A r \in T!Sharing(reg) : Cardinality(T!Sharing(reg) \ {r}) = Shares(reg) - 1
  BY <1>2, SharesAre, FS_RemoveElement
<1>4. ASSUME NEW r \in T!Sharing(reg) PROVE Shares(reg) > 0
  <2>1. IsFiniteSet(T!Sharing(reg) \ {r})
    BY <1>2, FS_RemoveElement
  <2>2. Cardinality(T!Sharing(reg) \ {r}) \in Nat
    BY <2>1, FS_CardinalityType
  <2> QED BY <1>2, <1>3, <2>2
<1>5. \A r \in Regions \ T!Sharing(reg) : Cardinality(T!Sharing(reg) \cup {r}) = Shares(reg) + 1
  BY <1>2, SharesAre, FS_AddElement
<1> QED BY <1>2, <1>3, <1>4, <1>5

LEMMA CountIs ==
  ASSUME IsFiniteSet(Regions), SharedInv
  PROVE  /\ sessions \in 0 .. 2 /\ Shares(region) \in Nat /\ T!OfSwitch \in {0, 1}
         /\ sessions # 0 => uses[sessions] = Shares(region) + T!OfSwitch
<1>1. sessions \in 0 .. 2
  BY RegionFacts DEF SharedInv
<1>2. Shares(region) \in Nat
  BY SharesCount
<1>3. sessions # 0 => uses[sessions] = Shares(region) + T!OfSwitch
  BY DEF SharedInv, T!Counted, Shares
<1> QED BY <1>1, <1>2, <1>3 DEF T!OfSwitch

\* As many regions share in what is still counted.
LEMMA SameCount ==
  ASSUME SharedInv, Shares(region') = Shares(region), T!OfSwitch' = T!OfSwitch,
         UNCHANGED <<sessions, uses, registered, ending>>,
         control' = "unregistering" <=> control = "unregistering"
  PROVE  T!Counted'
BY DEF SharedInv, T!Counted, T!IsUnregistering, Shares

LEMMA SwitchedShares ==
  ASSUME IsFiniteSet(Regions), SharedInv, build = "windows", Switched, ~overtaken', ~restarted'
  PROVE  T!RegionsShare' /\ T!Counted'
<1>c. /\ sessions \in 0 .. 2 /\ Shares(region) \in Nat /\ T!OfSwitch \in {0, 1}
      /\ sessions # 0 => uses[sessions] = Shares(region) + T!OfSwitch
  BY CountIs
<1>1. CASE T!WindowsEnable
  <2>1. /\ ending = {} /\ session = 0
        /\ \A r \in Regions : region[r].registration = 0
    BY <1>1 DEF T!WindowsEnable, SharedInv, T!SwitchInv
  <2>2. \A r \in Regions : ~T!IsActive(r)
    BY <2>1 DEF SharedInv, T!RegionsShare
  <2>3. T!RegionsShare'
    BY <1>1, <2>1, <2>2 DEF T!WindowsEnable, SharedInv, T!RegionsShare, T!IsActive, T!Alive
  <2>4. T!Sharing(region') = {}
    BY <1>1, <2>1 DEF T!WindowsEnable, T!Sharing
  <2>5. uses'[sessions'] = 1 /\ sessions' # 0 /\ T!OfSwitch' = 1
    <3>1. sessions + 1 \in 1 .. 2
      BY <1>1, <1>c, CookieNumbers DEF T!WindowsEnable
    <3> QED BY <1>1, <3>1, RegionFacts DEF T!WindowsEnable, SharedInv, T!OfSwitch
  <2>6. Shares(region') = 0
    BY <2>4, SharesAre, FS_EmptySet
  <2>7. registered' /\ ~T!IsUnregistering' /\ ending' = {}
    BY <1>1, <2>1 DEF T!WindowsEnable, T!IsUnregistering
  <2> QED BY <2>3, <2>5, <2>6, <2>7 DEF T!Counted, Shares
<1>2. CASE T!WindowsEnabled \/ T!WindowsDisable
  <2>1. /\ UNCHANGED <<session, sessions, uses, registered, copy, ending, region>>
        /\ control \in {"enabling", "idle"} /\ control' \in {"idle", "disabling"}
    BY <1>2 DEF T!WindowsEnabled, T!WindowsDisable
  <2>2. T!RegionsShare'
    BY <2>1 DEF SharedInv, T!RegionsShare, T!IsActive, T!Alive
  <2>3. T!OfSwitch' = T!OfSwitch
    BY <2>1 DEF T!OfSwitch
  <2> QED BY <2>1, <2>2, <2>3, SameCount
<1>3. CASE T!WindowsReset
  <2>1. /\ UNCHANGED <<sessions, uses, registered, copy, ending, region>>
        /\ session # 0 /\ session' = 0 /\ control = "disabling" /\ control' = "releasing"
    BY <1>3 DEF T!WindowsReset, SharedInv, T!SwitchInv
  <2>2. \A r \in Regions : region[r].life = "constructing" => region[r].cookie = 0
    BY <1>3 DEF T!WindowsReset
  <2>3. T!RegionsShare'
    BY <2>1, <2>2 DEF SharedInv, T!RegionsShare, T!IsActive, T!Alive
  <2>4. T!OfSwitch' = T!OfSwitch
    BY <2>1 DEF T!OfSwitch
  <2> QED BY <2>1, <2>3, <2>4, SameCount
<1>4. CASE T!WindowsRelease
  <2>1. /\ UNCHANGED <<session, sessions, registered, copy, ending, region>>
        /\ session = 0 /\ sessions # 0 /\ T!OfSwitch = 1 /\ T!OfSwitch' = 0
    BY <1>4 DEF T!WindowsRelease, SharedInv, T!SwitchInv, T!IsLast, T!OfSwitch
  <2>2. T!RegionsShare'
    BY <2>1 DEF SharedInv, T!RegionsShare, T!IsActive, T!Alive
  <2>3. uses[sessions] = Shares(region) + 1 /\ ~T!IsUnregistering
    BY <1>c, <2>1 DEF SharedInv, T!Counted
  <2>4. uses'[sessions] = Shares(region)
    BY <1>4, <1>c, <2>1, <2>3, RegionFacts DEF SharedInv, T!WindowsRelease, T!Lowered
  <2>5. ending = {} /\ registered
    BY <1>c, <2>1, <2>3 DEF SharedInv, T!Counted, T!IsUnregistering
  <2>6. T!IsUnregistering' <=> Shares(region) = 0
    BY <1>4, <1>c, <2>1, <2>3, <2>5 DEF T!WindowsRelease, T!IsLast, T!IsUnregistering
  <2> QED BY <1>c, <2>1, <2>2, <2>4, <2>5, <2>6 DEF T!Counted, Shares
<1>5. CASE T!WindowsUnregister
  <2>1. UNCHANGED <<session, sessions, uses, copy, region>> /\ registered' = FALSE
    BY <1>5 DEF T!WindowsUnregister
  <2>2. T!RegionsShare'
    BY <2>1 DEF SharedInv, T!RegionsShare, T!IsActive, T!Alive
  <2>3. T!IsUnregistering
    BY <1>5 DEF T!WindowsUnregister, T!IsUnregistering
  <2>4. ~T!IsUnregistering' /\ ending' = {}
    BY <1>5, <2>3 DEF T!WindowsUnregister, T!IsUnregistering, SharedInv, T!Counted
  <2>5. T!OfSwitch' = T!OfSwitch
    BY <1>5, <2>1 DEF T!WindowsUnregister, T!OfSwitch
  <2> QED BY <2>1, <2>2, <2>3, <2>4, <2>5 DEF SharedInv, T!Counted
<1>6. ~T!AndroidSwitch /\ ~T!AppleSwitch
  BY DEF T!AndroidSwitch, T!AppleSwitch
<1> QED BY <1>1, <1>2, <1>3, <1>4, <1>5, <1>6 DEF Switched

\* A constructor enters a region that shares in what the switch holds.
LEMMA ConstructedShares ==
  ASSUME IsFiniteSet(Regions), SharedInv, NEW r \in Regions,
         \/ \E n \in Names : T!WindowsTakeCookie(r, n)
         \/ T!WindowsReadCount(r) \/ T!WindowsConstruct(r)
  PROVE  T!RegionsShare' /\ T!Counted'
<1>c. /\ sessions \in 0 .. 2 /\ Shares(region) \in Nat /\ T!OfSwitch \in {0, 1}
      /\ sessions # 0 => uses[sessions] = Shares(region) + T!OfSwitch
  BY CountIs
<1>t. T!TypeOK
  BY DEF SharedInv
<1>1. ASSUME NEW n \in Names, T!WindowsTakeCookie(r, n) PROVE T!RegionsShare' /\ T!Counted'
  <2>1. PICK c \in 0 .. Cookies - 1, m \in Names \cup {NoName} :
           /\ region[r] = Numbered("unborn", 0, NoName, 0)
           /\ region' = [region EXCEPT ![r] = Numbered("constructing", c, m, 0)]
           /\ c = IF enabled THEN nextCookie ELSE 0
           /\ copy' = [copy EXCEPT ![r] = IF c # 0 THEN T!Unread ELSE 0]
           /\ UNCHANGED <<build, events, withoutCopy>>
    BY <1>1, <1>t, TakenCookie
  <2>2. /\ region[r].registration = 0 /\ region'[r].registration = 0
        /\ region'[r].life = "constructing" /\ region'[r].cookie = c
        /\ \A q \in Regions \ {r} : region'[q] = region[q] /\ copy'[q] = copy[q]
        /\ copy'[r] = IF c # 0 THEN T!Unread ELSE 0
    BY <1>t, <2>1, RegionFacts DEF Numbered
  <2>3. c # 0 => session # 0
    BY <2>1 DEF SharedInv, T!SwitchInv
  <2>4. UNCHANGED <<session, sessions, uses, registered, control, ending>>
    BY <2>1 DEF withoutCopy
  <2>5. T!RegionsShare'
    BY <2>2, <2>3, <2>4 DEF SharedInv, T!RegionsShare, T!IsActive, T!Alive
  <2>6. T!Sharing(region') = T!Sharing(region)
    BY <2>2 DEF T!Sharing
  <2> QED BY <2>4, <2>5, <2>6, SameCount DEF Shares, T!OfSwitch
<1>2. CASE T!WindowsReadCount(r)
  <2>1. /\ UNCHANGED <<session, sessions, uses, registered, control, ending, region>>
        /\ region[r].life = "constructing" /\ copy[r] = T!Unread
        /\ copy' = [copy EXCEPT ![r] = session]
    BY <1>2 DEF T!WindowsReadCount
  <2>2. region[r].cookie # 0
    BY <2>1 DEF SharedInv, T!RegionsShare, T!Unread
  <2>3. T!RegionsShare'
    BY <1>t, <2>1, <2>2, RegionFacts DEF SharedInv, T!RegionsShare, T!IsActive, T!Alive
  <2> QED BY <2>1, <2>3, SameCount DEF Shares, T!OfSwitch
<1>3. CASE T!WindowsConstruct(r)
  <2>1. PICK g \in 0 .. 2 :
           /\ region[r].life = "constructing"
           /\ region' = [region EXCEPT ![r] =
                           Numbered("alive", region[r].cookie, region[r].name, g)]
           /\ g \in IF region[r].cookie = 0 THEN {0} ELSE {copy[r], session}
           /\ copy[r] # T!Unread /\ copy' = [copy EXCEPT ![r] = 0]
           /\ uses' = T!Raised(copy[r])
           /\ UNCHANGED <<session, sessions, registered, control, ending>>
    BY <1>3, <1>t, Constructed
  <2>2. /\ region'[r].life = "alive" /\ region'[r].cookie = region[r].cookie
        /\ region'[r].registration = g
        /\ \A q \in Regions \ {r} : region'[q] = region[q] /\ copy'[q] = copy[q]
    BY <1>t, <2>1, RegionFacts DEF Numbered
  <2>3. ~T!IsActive(r) /\ region[r].registration = 0
    BY <2>1 DEF SharedInv, T!RegionsShare, T!IsActive, T!Alive
  <2>4. CASE region[r].cookie = 0
    <3>1. g = 0 /\ copy[r] = 0
      BY <2>1, <2>4 DEF SharedInv, T!RegionsShare
    <3>2. T!RegionsShare'
      BY <2>1, <2>2, <2>4, <3>1 DEF SharedInv, T!RegionsShare, T!IsActive, T!Alive
    <3>3. T!Sharing(region') = T!Sharing(region)
      BY <2>2, <2>3, <3>1 DEF T!Sharing
    <3>4. uses' = uses
      BY <2>1, <3>1 DEF T!Raised
    <3> QED BY <2>1, <3>2, <3>3, <3>4, SameCount DEF Shares, T!OfSwitch
  <2>5. CASE region[r].cookie # 0
    <3>1. copy[r] = session /\ session # 0 /\ session = sessions /\ g = sessions
      BY <2>1, <2>5 DEF SharedInv, T!RegionsShare, T!SwitchInv
    <3>2. T!RegionsShare'
      BY <2>1, <2>2, <2>5, <3>1 DEF SharedInv, T!RegionsShare, T!IsActive, T!Alive
    <3>3. T!Sharing(region') = T!Sharing(region) \cup {r} /\ r \notin T!Sharing(region)
      BY <2>2, <2>3, <3>1 DEF T!Sharing
    <3>4. Shares(region') = Shares(region) + 1
      BY <3>3, SharesCount, SharesAre
    <3>5. uses'[sessions] = uses[sessions] + 1
      BY <1>c, <1>t, <2>1, <3>1, RegionFacts DEF T!Raised
    <3>6. T!OfSwitch = 1 /\ T!OfSwitch' = 1
      BY <2>1, <3>1 DEF T!OfSwitch
    <3>7. uses[sessions] = Shares(region) + 1 /\ sessions # 0
      BY <1>c, <3>1, <3>6
    <3>8. ~T!IsUnregistering /\ ending = {} /\ registered
      BY <1>c, <3>7 DEF SharedInv, T!Counted, T!IsUnregistering
    <3>9. ~T!IsUnregistering' /\ ending' = {} /\ registered' /\ sessions' = sessions
      BY <2>1, <3>8 DEF T!IsUnregistering
    <3>10. uses'[sessions'] = Shares(region') + T!OfSwitch' /\ uses'[sessions'] # 0
      BY <1>c, <3>4, <3>5, <3>6, <3>7, <3>9
    <3> QED BY <3>2, <3>7, <3>9, <3>10 DEF T!Counted, Shares
  <2> QED BY <2>4, <2>5
<1> QED BY <1>1, <1>2, <1>3

\* Where a reference is given up, one region less shares in the registration.
LEMMA GivenUp ==
  ASSUME IsFiniteSet(Regions), SharedInv, NEW r \in Regions,
         T!GivesUp(r, region[r].registration),
         IF region[r].registration = 0
           THEN Shares(region') = Shares(region)
           ELSE Shares(region) > 0 /\ Shares(region') = Shares(region) - 1
  PROVE  T!Counted'
<1>c. /\ sessions \in 0 .. 2 /\ Shares(region) \in Nat /\ T!OfSwitch \in {0, 1}
      /\ sessions # 0 => uses[sessions] = Shares(region) + T!OfSwitch
  BY CountIs
<1>1. UNCHANGED <<session, sessions, registered, control>> /\ T!OfSwitch' = T!OfSwitch
  BY DEF T!GivesUp, T!OfSwitch
<1>2. CASE region[r].registration = 0
  <2>1. uses' = uses /\ ending' = ending
    BY <1>2 DEF T!GivesUp, T!Lowered, T!IsLast
  <2> QED BY <1>1, <1>2, <2>1, SameCount
<1>3. CASE region[r].registration # 0
  <2>1. region[r].registration = sessions /\ sessions # 0
    BY <1>3 DEF SharedInv, T!RegionsShare
  <2>2. uses[sessions] = Shares(region) + T!OfSwitch /\ uses[sessions] # 0
    BY <1>3, <1>c, <2>1
  <2>3. ~T!IsUnregistering /\ ending = {} /\ control # "unregistering" /\ registered
    BY <2>1, <2>2 DEF SharedInv, T!Counted, T!IsUnregistering
  <2>4. uses'[sessions] = uses[sessions] - 1
    BY <1>c, <2>1, RegionFacts DEF SharedInv, T!GivesUp, T!Lowered
  <2>5. uses'[sessions'] = Shares(region') + T!OfSwitch'
    BY <1>3, <1>c, <1>1, <2>2, <2>4
  <2>6. ending' = IF uses'[sessions'] = 0 THEN {r} ELSE {}
    BY <1>c, <1>1, <2>1, <2>2, <2>3, <2>4 DEF T!GivesUp, T!IsLast
  <2> QED BY <1>1, <2>1, <2>3, <2>5, <2>6 DEF T!Counted, T!IsUnregistering, Shares
<1> QED BY <1>2, <1>3

\* A move takes the share over.
LEMMA MovedShares ==
  ASSUME IsFiniteSet(Regions), SharedInv, NEW r \in Regions, NEW from \in Regions \ {r},
         T!Alive(from), region[r].life \in {"unborn", "alive"},
         region' = [region EXCEPT ![r] = region[from], ![from] = T!MovedFrom(@)],
         UNCHANGED <<session, sessions, copy>>
  PROVE  /\ T!RegionsShare'
         /\ IF region[r].registration = 0
              THEN Shares(region') = Shares(region)
              ELSE Shares(region) > 0 /\ Shares(region') = Shares(region) - 1
<1>t. T!TypeOK
  BY DEF SharedInv
<1>1. region' = [region EXCEPT ![r] = region[from],
                               ![from] = Numbered(region[from].life, 0, NoName, 0)]
  BY <1>t, MovedTo
<1>2. /\ region'[r] = region[from]
      /\ region'[from].life = "alive" /\ region'[from].cookie = 0
      /\ region'[from].registration = 0
      /\ \A q \in Regions \ {r, from} : region'[q] = region[q]
  BY <1>t, <1>1, RegionFacts DEF T!Alive, Numbered
<1>a. /\ region[from].life = "alive" /\ region'[r].life = "alive"
      /\ region'[from].life = "alive"
  BY <1>2 DEF T!Alive
<1>3. T!RegionsShare'
  <2> SUFFICES ASSUME NEW q \in Regions
               PROVE  /\ region'[q].life = "constructing" =>
                           IF region'[q].cookie = 0 THEN copy[q] = 0
                           ELSE session # 0 /\ copy[q] \in {T!Unread, session}
                      /\ region'[q].registration =
                           IF region'[q].life = "alive" /\ region'[q].cookie # 0
                             THEN sessions ELSE 0
                      /\ region'[q].life = "alive" /\ region'[q].cookie # 0 => sessions # 0
    BY DEF T!RegionsShare, T!IsActive, T!Alive
  <2> USE DEF SharedInv, T!RegionsShare, T!IsActive, T!Alive
  <2>1. CASE q = r
    BY <1>2, <1>a, <2>1
  <2>2. CASE q = from
    BY <1>2, <1>a, <2>2
  <2>3. CASE q \notin {r, from}
    BY <1>2, <2>3
  <2> QED BY <2>1, <2>2, <2>3
<1> DEFINE old == T!Sharing(region)
           kept == old \ {r}
<1>4. IF from \in old
        THEN T!Sharing(region') = (kept \ {from}) \cup {r}
        ELSE T!Sharing(region') = kept
  BY <1>2 DEF T!Sharing
<1>5. (region[r].registration = 0 <=> r \notin old) /\ old \subseteq Regions
  BY DEF T!Sharing
<1>6. IsFiniteSet(old) /\ Cardinality(old) = Shares(region) /\ Shares(region) \in Nat
  BY SharesCount, SharesAre
<1> HIDE DEF old
<1>7. /\ IsFiniteSet(kept) /\ Cardinality(kept) \in Nat
      /\ IF r \in old THEN Cardinality(kept) = Cardinality(old) - 1
                      ELSE Cardinality(kept) = Cardinality(old)
  <2>1. IsFiniteSet(kept) /\ (r \in old => Cardinality(kept) = Cardinality(old) - 1)
    BY <1>6, FS_RemoveElement
  <2>2. r \notin old => kept = old
    OBVIOUS
  <2> QED BY <1>6, <2>1, <2>2, FS_CardinalityType
<1>8. Shares(region') = Cardinality(kept)
  <2>1. CASE from \in old
    <3> DEFINE less == kept \ {from}
    <3>1. IsFiniteSet(less) /\ Cardinality(less) = Cardinality(kept) - 1
      BY <1>7, <2>1, FS_RemoveElement
    <3>2. r \notin less
      OBVIOUS
    <3> HIDE DEF less
    <3>3. Cardinality(less \cup {r}) = Cardinality(less) + 1
      BY <3>1, <3>2, FS_AddElement
    <3>4. T!Sharing(region') = less \cup {r}
      BY <1>4, <2>1 DEF less
    <3>5. Shares(region') = Cardinality(less) + 1
      BY <3>3, <3>4, SharesAre
    <3> HIDE DEF kept
    <3> QED BY <1>7, <3>1, <3>5
  <2>2. CASE from \notin old
    BY <1>4, <2>2, SharesAre
  <2> QED BY <2>1, <2>2
<1> QED BY <1>3, <1>5, <1>6, <1>7, <1>8

LEMMA DestroyedShares ==
  ASSUME IsFiniteSet(Regions), SharedInv, NEW r \in Regions, T!Destroy(r),
         UNCHANGED <<session, sessions, copy>>
  PROVE  /\ T!RegionsShare'
         /\ IF region[r].registration = 0
              THEN Shares(region') = Shares(region)
              ELSE Shares(region) > 0 /\ Shares(region') = Shares(region) - 1
<1>t. T!TypeOK
  BY DEF SharedInv
<1>1. region' = [region EXCEPT ![r] = Numbered("destroyed", 0, NoName, 0)]
  BY <1>t, DestroyedTo DEF T!Destroy
<1>2. /\ region'[r].life = "destroyed" /\ region'[r].registration = 0
      /\ \A q \in Regions \ {r} : region'[q] = region[q]
  BY <1>t, <1>1, RegionFacts DEF Numbered
<1>3. T!RegionsShare'
  BY <1>2 DEF SharedInv, T!RegionsShare, T!IsActive, T!Alive
<1>4. T!Sharing(region') = T!Sharing(region) \ {r}
  BY <1>2 DEF T!Sharing
<1>5. CASE region[r].registration = 0
  <2>1. T!Sharing(region') = T!Sharing(region)
    BY <1>4, <1>5 DEF T!Sharing
  <2> QED BY <1>3, <1>5, <2>1 DEF Shares
<1>6. CASE region[r].registration # 0
  <2>1. r \in T!Sharing(region)
    BY <1>6 DEF T!Sharing
  <2> QED BY <1>3, <1>4, <1>6, <2>1, SharesCount, SharesAre
<1> QED BY <1>5, <1>6

LEMMA ProviderStep ==
  ASSUME IsFiniteSet(Regions), T!TypeOK, T!ProviderInv, [T!Next]_(T!vars)
  PROVE  T!ProviderInv'
<1>1. build' = build
  BY SwitchesStay
<1> SUFFICES ASSUME build = "windows"
             PROVE  T!SwitchInv' /\ (~overtaken' /\ ~restarted' => T!RegionsShare' /\ T!Counted')
  BY <1>1 DEF T!ProviderInv
<1>2. T!SwitchInv /\ T!SwitchInv'
  BY SwitchStep DEF T!ProviderInv
<1> SUFFICES ASSUME ~overtaken', ~restarted' PROVE T!RegionsShare' /\ T!Counted'
  BY <1>2
<1>3. CASE Switched
  <2>1. ~overtaken /\ ~restarted
    <3>1. CASE T!WindowsEnable
      BY <3>1, Zenon DEF T!WindowsEnable
    <3>2. CASE T!WindowsReset
      BY <3>2, Zenon DEF T!WindowsReset
    <3>3. CASE UNCHANGED T!history
      BY <3>3 DEF T!history
    <3> QED BY <1>3, <3>1, <3>2, <3>3
            DEF Switched, T!WindowsEnabled, T!WindowsDisable, T!WindowsRelease, T!WindowsUnregister,
                T!AndroidSwitch, T!AppleSwitch
  <2>2. SharedInv
    BY <1>2, <2>1 DEF SharedInv, T!ProviderInv
  <2> QED BY <1>3, <2>2, SwitchedShares
<1>4. ASSUME NEW r \in Regions,
             \/ \E n \in Names : T!WindowsTakeCookie(r, n)
             \/ T!WindowsReadCount(r) \/ T!WindowsConstruct(r)
      PROVE  T!RegionsShare' /\ T!Counted'
  <2>1. ~overtaken /\ ~restarted
    BY <1>4 DEF T!WindowsTakeCookie, T!WindowsReadCount, T!WindowsConstruct, T!history
  <2>2. SharedInv
    BY <1>2, <2>1 DEF SharedInv, T!ProviderInv
  <2> QED BY <1>4, <2>2, ConstructedShares
<1>5. ASSUME NEW r \in Regions, NEW from \in Regions, T!MoveConstruct(r, from)
      PROVE  T!RegionsShare' /\ T!Counted'
  <2>1. /\ region[r].life = "unborn" /\ region[r].registration = 0 /\ T!Alive(from) /\ r # from
        /\ region' = [region EXCEPT ![r] = region[from], ![from] = T!MovedFrom(@)]
        /\ UNCHANGED <<session, sessions, uses, registered, control, copy, ending, T!history>>
    BY <1>5, UnbornIs DEF T!MoveConstruct, T!Alive, Numbered, T!switches, T!provider
  <2>2. SharedInv
    BY <1>2, <2>1 DEF SharedInv, T!ProviderInv, T!history
  <2>3. T!RegionsShare' /\ Shares(region') = Shares(region)
    BY <2>1, <2>2, MovedShares
  <2> QED BY <2>1, <2>2, <2>3, SameCount DEF T!OfSwitch
<1>6. ASSUME NEW r \in Regions, NEW from \in Regions, T!WindowsMoveAssign(r, from)
      PROVE  T!RegionsShare' /\ T!Counted'
  <2>1. /\ region[r].life = "alive" /\ T!Alive(from) /\ r # from
        /\ region' = [region EXCEPT ![r] = region[from], ![from] = T!MovedFrom(@)]
        /\ T!GivesUp(r, region[r].registration)
        /\ UNCHANGED <<session, sessions, copy, T!history>>
    BY <1>6 DEF T!WindowsMoveAssign, T!MoveAssign, T!GivesUp, T!Alive
  <2>2. SharedInv
    BY <1>2, <2>1 DEF SharedInv, T!ProviderInv, T!history
  <2> QED BY <2>1, <2>2, MovedShares, GivenUp
<1>7. ASSUME NEW r \in Regions, T!WindowsDestroy(r) PROVE T!RegionsShare' /\ T!Counted'
  <2>1. /\ T!Destroy(r) /\ T!GivesUp(r, region[r].registration)
        /\ UNCHANGED <<session, sessions, copy, T!history>>
    BY <1>7 DEF T!WindowsDestroy, T!GivesUp
  <2>2. SharedInv
    BY <1>2, <2>1 DEF SharedInv, T!ProviderInv, T!history
  <2> QED BY <2>1, <2>2, DestroyedShares, GivenUp
<1>8. CASE UNCHANGED T!vars
  BY <1>8 DEF T!vars, T!switches, T!provider, T!history, T!ProviderInv, T!RegionsShare, T!Counted,
              T!IsActive, T!Alive, T!OfSwitch, T!IsUnregistering
<1>9. \A r, from \in Regions :
        /\ \A c, n, drawn : ~Began(r, c, n, drawn)
        /\ ~T!AndroidMoveAssign(r, from) /\ ~T!AppleMoveAssign(r, from)
        /\ ~T!AndroidDestroy(r) /\ ~T!AppleDestroy(r)
  BY DEF Began, T!AndroidMoveAssign, T!AppleMoveAssign, T!AndroidDestroy, T!AppleDestroy
<1> QED BY <1>3, <1>4, <1>5, <1>6, <1>7, <1>8, <1>9, TraceSteps

LEMMA TraceInit == T!Init => T!TypeOK /\ T!ProviderInv
<1> SUFFICES ASSUME T!Init PROVE T!TypeOK /\ T!ProviderInv
  OBVIOUS
<1>1. /\ T!Unborn \in T!RegionStates /\ T!Unborn.registration = 0 /\ T!Unborn.life = "unborn"
  <2>1. /\ "unborn" \in {"unborn", "constructing", "alive", "destroyed"}
        /\ 0 \in 0 .. Cookies - 1 /\ NoName \in Names \cup {NoName} /\ 0 \in 0 .. 2
    BY SmallCookies
  <2> QED BY <2>1, UnbornIs, NumberedFacts
<1>2. region \in [Regions -> T!RegionStates] /\ events \in Seq(T!EventStates)
  BY <1>1 DEF T!Init
<1>3. /\ sessions \in 0 .. T!MaxSessions /\ session \in 0 .. sessions
      /\ uses \in [1 .. T!MaxSessions -> Int]
      /\ copy \in [Regions -> {T!Unread} \cup 0 .. T!MaxSessions]
  BY CookieNumbers DEF T!Init
<1>4. T!TypeOK
  BY <1>2, <1>3 DEF T!Init, T!TypeOK, T!Controls
<1>5. T!SwitchInv
  BY DEF T!Init, T!SwitchInv
<1>6. T!RegionsShare
  BY <1>1 DEF T!Init, T!RegionsShare, T!IsActive, T!Alive
<1>7. T!Counted
  BY DEF T!Init, T!Counted, T!IsUnregistering
<1> QED BY <1>4, <1>5, <1>6, <1>7 DEF T!ProviderInv

LEMMA CountedIsNeeded ==
  ASSUME IsFiniteSet(Regions), SharedInv
  PROVE  /\ \A r \in Regions : T!IsActive(r) => registered
         /\ control = "idle" /\ ending = {} =>
              (registered <=> enabled \/ \E r \in Regions : T!IsActive(r))
<1>c. /\ sessions \in 0 .. 2 /\ Shares(region) \in Nat /\ T!OfSwitch \in {0, 1}
      /\ sessions # 0 => uses[sessions] = Shares(region) + T!OfSwitch
  BY CountIs
<1>1. ASSUME NEW r \in Regions
      PROVE  /\ T!IsActive(r) <=> r \in T!Sharing(region)
             /\ T!IsActive(r) => sessions # 0
  BY DEF SharedInv, T!RegionsShare, T!Sharing
<1>2. ASSUME NEW r \in Regions, T!IsActive(r) PROVE registered
  <2>1. Shares(region) > 0 /\ sessions # 0
    BY <1>1, <1>2, SharesCount
  <2> QED BY <1>c, <2>1 DEF SharedInv, T!Counted
<1>3. ASSUME control = "idle", ending = {}, ~enabled, \A r \in Regions : ~T!IsActive(r)
      PROVE  ~registered
  <2>1. T!OfSwitch = 0 /\ ~T!IsUnregistering
    BY <1>3 DEF SharedInv, T!SwitchInv, T!OfSwitch, T!IsUnregistering
  <2>2. T!Sharing(region) = {}
    BY <1>1, <1>3 DEF T!Sharing
  <2>3. Shares(region) = 0
    BY <2>2, SharesAre, FS_EmptySet
  <2> QED BY <1>c, <2>1, <2>3 DEF SharedInv, T!Counted
<1>4. ASSUME enabled PROVE registered
  <2>1. T!OfSwitch = 1 /\ sessions # 0
    BY <1>4 DEF SharedInv, T!SwitchInv, T!OfSwitch
  <2> QED BY <1>c, <2>1 DEF SharedInv, T!Counted
<1> QED BY <1>2, <1>3, <1>4

(* The provider is registered exactly while the switch or an active region *)
(* needs it, whatever is disabled, moved, assigned over or destroyed on    *)
(* other threads, up to the first constructor that disable overtakes and   *)
(* the first session that begins while regions of an earlier one live.     *)
THEOREM ProviderStays ==
  ASSUME IsFiniteSet(Regions)
  PROVE  Spec => []RegisteredWhileNeeded
<1> DEFINE Inv == T!TypeOK /\ T!ProviderInv
<1>1. Init => Inv
  BY TraceInit DEF Init
<1>2. Inv /\ [Next]_libraryVars => Inv'
  <2>1. [Next]_libraryVars => [T!Next]_(T!vars)
    BY DEF Next, libraryVars, traceVars, T!vars, T!switches, T!provider, T!history
  <2> QED BY <2>1, TypeStep, ProviderStep
<1>3. Inv => RegisteredWhileNeeded
  BY CountedIsNeeded
  DEF SharedInv, T!ProviderInv, RegisteredWhileNeeded, T!RegisteredWhileNeeded
<1> QED BY <1>1, <1>2, <1>3, PTL DEF Spec

\* The regions and their trace, and the cookie that is drawn next.
TraceInv == Pairs(region, events) /\ Circle(region, events, nextCookie)

\* A region is entered whose birth draws the cookie c, or none, with no event.
LEMMA DrawStep ==
  ASSUME FewRegions, T!TypeOK, T!TypeOK', TraceInv,
         NEW r \in Regions, region[r] = Numbered("unborn", 0, NoName, 0),
         NEW new \in T!RegionStates, new.life \in {"constructing", "alive"},
         NEW drawn \in 0 .. Cookies - 1, drawn = nextCookie \/ (nextCookie = 0 /\ drawn = 1),
         new.cookie = IF enabled THEN drawn ELSE 0,
         region' = [region EXCEPT ![r] = new],
         nextCookie' = IF enabled THEN T!Following(drawn) ELSE nextCookie,
         \A i \in DOMAIN events' : \/ events'[i].cookie = new.cookie
                                   \/ \E k \in DOMAIN events : events'[i].cookie = events[k].cookie
  PROVE  /\ new.cookie # 0 => ~T!IsUsed(region, events, new.cookie)
         /\ Circle(region', events', nextCookie')
<1>1. /\ r \notin T!Born(region) /\ region[r].cookie = 0
      /\ region'[r] = new /\ \A q \in Regions \ {r} : region'[q] = region[q]
  BY RegionFacts DEF T!Born, Numbered
<1>2. \A q \in Regions : q \in T!Born(region') <=> q \in T!Born(region) \/ q = r
  BY <1>1 DEF T!Born
<1>3. nextCookie \in 0 .. Cookies - 1 /\ Circle(region, events, nextCookie)
  BY RegionFacts DEF TraceInv
<1>4. \A c \in 1 .. Cookies - 1 :
        T!IsUsed(region', events', c) => c = new.cookie \/ T!IsUsed(region, events, c)
  BY <1>1 DEF T!IsUsed
<1>5. new.cookie # 0 => ~T!IsUsed(region, events, new.cookie)
  <2> SUFFICES ASSUME new.cookie # 0 PROVE ~T!IsUsed(region, events, drawn) /\ new.cookie = drawn
    OBVIOUS
  <2>1. enabled /\ new.cookie = drawn /\ drawn \in 1 .. Cookies - 1
    BY CookieNumbers
  <2> QED BY <1>1, <1>3, <2>1, DrawnIsFresh
<1>6. CASE enabled
  <2>1. new.cookie = drawn /\ nextCookie' = T!Following(drawn)
    BY <1>6
  <2>2. Draws(region, events, region', events', r, drawn)
    BY <1>2, <1>4, <2>1 DEF Draws
  <2>3. Circle(region', events', T!Following(drawn))
    BY <1>1, <1>3, <2>2, CircleDraws
  <2> QED BY <1>5, <2>1, <2>3
<1>7. CASE ~enabled
  <2>1. new.cookie = 0 /\ nextCookie' = nextCookie
    BY <1>7
  <2>2. \A c \in 1 .. Cookies - 1 : T!IsUsed(region', events', c) => T!IsUsed(region, events, c)
    BY <1>4, <2>1, CookieNumbers
  <2>3. T!Born(region) \subseteq T!Born(region')
    BY <1>2 DEF T!Born
  <2> QED BY <1>3, <1>5, <2>1, <2>2, <2>3, CircleStays
<1> QED BY <1>6, <1>7

\* Nothing is drawn or entered.
LEMMA NoDrawStep ==
  ASSUME FewRegions, T!TypeOK, TraceInv, nextCookie' = nextCookie,
         \A q \in Regions : region[q].life # "unborn" => region'[q].life # "unborn",
         \A q \in Regions : \/ region'[q].cookie = 0
                             \/ \E p \in Regions : region'[q].cookie = region[p].cookie,
         \A i \in DOMAIN events' :
           \/ \E p \in Regions : events'[i].cookie = region[p].cookie
           \/ \E k \in DOMAIN events : events'[i].cookie = events[k].cookie
  PROVE  Circle(region', events', nextCookie')
<1>1. nextCookie \in 0 .. Cookies - 1 /\ Circle(region, events, nextCookie)
  BY RegionFacts DEF TraceInv
<1>2. \A c \in 1 .. Cookies - 1 : T!IsUsed(region', events', c) => T!IsUsed(region, events, c)
  BY DEF T!IsUsed
<1>3. T!Born(region) \subseteq T!Born(region')
  BY DEF T!Born
<1> QED BY <1>1, <1>2, <1>3, CircleStays

LEMMA AppendedEvent ==
  ASSUME NEW trace \in Seq(T!EventStates), NEW e \in T!EventStates
  PROVE  \A i \in DOMAIN Append(trace, e) :
           Append(trace, e)[i] = e \/ \E k \in DOMAIN trace : Append(trace, e)[i] = trace[k]
OBVIOUS

LEMMA TraceStep ==
  FewRegions /\ T!TypeOK /\ TraceInv /\ [T!Next]_(T!vars) => TraceInv'
<1> SUFFICES ASSUME FewRegions, T!TypeOK, TraceInv, [T!Next]_(T!vars) PROVE TraceInv'
  OBVIOUS
<1>t. T!TypeOK'
  BY TypeStep
<1>1. CASE Switched \/ UNCHANGED T!vars
  <2>1. UNCHANGED <<region, events, nextCookie>>
    BY <1>1 DEF Switched, T!WindowsEnable, T!WindowsEnabled, T!WindowsDisable, T!WindowsReset,
                T!WindowsRelease, T!WindowsUnregister, T!AndroidSwitch, T!AppleSwitch, T!vars
  <2> QED BY <2>1 DEF TraceInv
<1>2. ASSUME NEW r \in Regions, NEW n \in Names, T!WindowsTakeCookie(r, n) PROVE TraceInv'
  <2>1. PICK c \in 0 .. Cookies - 1, m \in Names \cup {NoName} :
           /\ region[r] = Numbered("unborn", 0, NoName, 0)
           /\ region' = [region EXCEPT ![r] = Numbered("constructing", c, m, 0)]
           /\ c = IF enabled THEN nextCookie ELSE 0
           /\ nextCookie' = IF enabled THEN T!Following(nextCookie) ELSE nextCookie
           /\ events' = events
    BY <1>2, TakenCookie
  <2> DEFINE new == Numbered("constructing", c, m, 0)
  <2>a. region[r].cookie = 0
    BY <2>1 DEF Numbered
  <2>2. /\ new \in T!RegionStates /\ new.life = "constructing" /\ new.cookie = c
        /\ region[r].cookie = 0
    BY <2>a, NumberedFacts
  <2> HIDE DEF new
  <2>3. /\ region[r] = Numbered("unborn", 0, NoName, 0)
        /\ region' = [region EXCEPT ![r] = new] /\ nextCookie \in 0 .. Cookies - 1
    BY <2>1, RegionFacts DEF new
  <2>4. /\ c # 0 => ~T!IsUsed(region, events, c)
        /\ Circle(region', events', nextCookie')
    BY <1>t, <2>1, <2>2, <2>3, DrawStep
  <2>5. Pairs(region', events)
    <3>1. CASE c = 0
      BY <2>2, <2>3, <3>1, NoCookieKeeps DEF TraceInv
    <3>2. CASE c # 0
      BY <2>2, <2>3, <2>4, <3>2, DrawKeeps DEF TraceInv
    <3> QED BY <3>1, <3>2
  <2> QED BY <2>1, <2>4, <2>5 DEF TraceInv
<1>r. ASSUME NEW r \in Regions, T!WindowsReadCount(r) PROVE TraceInv'
  <2>1. UNCHANGED <<region, events, nextCookie>>
    BY <1>r DEF T!WindowsReadCount
  <2> QED BY <2>1 DEF TraceInv
<1>3. ASSUME NEW r \in Regions, T!WindowsConstruct(r) PROVE TraceInv'
  <2>1. PICK g \in 0 .. 2 :
           /\ region[r].life = "constructing"
           /\ region' = [region EXCEPT ![r] =
                           Numbered("alive", region[r].cookie, region[r].name, g)]
           /\ events' = IF region[r].cookie = 0 THEN events
                        ELSE Append(events, T!Written("begin", region[r]))
           /\ nextCookie' = nextCookie
    BY <1>3, Constructed
  <2> DEFINE new == Numbered("alive", region[r].cookie, region[r].name, g)
             e == T!Written("begin", region[r])
  <2>2. /\ new \in T!RegionStates /\ new.life = "alive" /\ new.cookie = region[r].cookie
        /\ new.name = region[r].name
    BY RegionFacts, RegionRecord, NumberedFacts
  <2>3. e \in T!EventStates /\ e.cookie = region[r].cookie /\ events \in Seq(T!EventStates)
    BY RegionFacts, WrittenFacts
  <2>4. Pairs(region', events')
    <3> HIDE DEF new
    <3>1. region' = [region EXCEPT ![r] = new]
      BY <2>1 DEF new
    <3>2. CASE region[r].cookie = 0
      BY <2>1, <2>2, <3>1, <3>2, NoCookieKeeps DEF TraceInv
    <3>3. CASE region[r].cookie # 0
      BY <2>1, <2>2, <3>1, <3>3, BeginKeeps DEF TraceInv
    <3> QED BY <3>2, <3>3
  <2>5. Circle(region', events', nextCookie')
    <3> HIDE DEF new, e
    <3>1. /\ region'[r] = new /\ \A q \in Regions \ {r} : region'[q] = region[q]
      BY <2>1, <2>2, RegionFacts DEF new
    <3>2. events' = events \/ events' = Append(events, e)
      BY <2>1 DEF e
    <3>3. \A i \in DOMAIN events' :
            \/ events'[i].cookie = region[r].cookie
            \/ \E k \in DOMAIN events : events'[i].cookie = events[k].cookie
      BY <2>3, <3>2, AppendedEvent
    <3> QED BY <2>1, <2>2, <3>1, <3>3, NoDrawStep
  <2> QED BY <2>4, <2>5 DEF TraceInv
<1>4. ASSUME NEW r \in Regions, NEW c \in 0 .. Cookies - 1, NEW n \in Names \cup {NoName},
             NEW drawn \in 0 .. Cookies - 1, Began(r, c, n, drawn)
      PROVE  TraceInv'
  <2> DEFINE new == Numbered("alive", c, n, 0)
             mid == Numbered("constructing", c, n, 0)
             e == T!Written("begin", new)
  <2>1. /\ new \in T!RegionStates /\ new.life = "alive" /\ new.cookie = c /\ new.name = n
        /\ mid \in T!RegionStates /\ mid.life = "constructing" /\ mid.cookie = c /\ mid.name = n
    BY NumberedFacts
  <2>2. /\ e \in T!EventStates /\ e.cookie = c /\ events \in Seq(T!EventStates)
        /\ e = T!Written("begin", mid)
    BY <2>1, RegionFacts, WrittenFacts DEF T!Written
  <2>3. /\ region[r] = Numbered("unborn", 0, NoName, 0) /\ region[r].cookie = 0
        /\ region' = [region EXCEPT ![r] = new]
        /\ drawn = nextCookie \/ (nextCookie = 0 /\ drawn = 1)
        /\ c = IF enabled THEN drawn ELSE 0
        /\ events' = IF c = 0 THEN events ELSE Append(events, e)
        /\ nextCookie' = IF enabled THEN T!Following(drawn) ELSE nextCookie
    BY <1>4 DEF Began, Numbered
  <2> HIDE DEF new, mid, e
  <2>4. \A i \in DOMAIN events' : \/ events'[i].cookie = new.cookie
                                  \/ \E k \in DOMAIN events : events'[i].cookie = events[k].cookie
    BY <2>1, <2>2, <2>3, AppendedEvent
  <2>5. /\ c # 0 => ~T!IsUsed(region, events, c)
        /\ Circle(region', events', nextCookie')
    BY ZenonT(40), <1>t, <2>1, <2>3, <2>4, DrawStep
  <2>6. Pairs(region', events')
    <3>1. CASE c = 0
      BY <2>1, <2>3, <3>1, NoCookieKeeps DEF TraceInv
    <3>2. CASE c # 0
      <4> DEFINE reg == [region EXCEPT ![r] = mid]
      <4>1. Pairs(reg, events)
        BY <2>1, <2>3, <2>5, <3>2, DrawKeeps DEF TraceInv
      <4>2. reg[r] = mid /\ region' = [reg EXCEPT ![r] = new]
        BY <2>3, RegionFacts
      <4> HIDE DEF reg
      <4>3. /\ reg[r].cookie # 0 /\ reg[r].life = "constructing"
            /\ new.cookie = reg[r].cookie /\ new.name = reg[r].name
            /\ events' = Append(events, T!Written("begin", reg[r]))
        BY <2>1, <2>2, <2>3, <3>2, <4>2
      <4> QED BY <2>1, <4>1, <4>2, <4>3, BeginKeeps
    <3> QED BY <3>1, <3>2
  <2> QED BY <2>5, <2>6 DEF TraceInv
<1>5. ASSUME NEW r \in Regions, NEW from \in Regions, T!MoveConstruct(r, from) PROVE TraceInv'
  <2> DEFINE left == T!MovedFrom(region[from])
  <2>1. /\ region[r] = Numbered("unborn", 0, NoName, 0) /\ region[from].life = "alive"
        /\ UNCHANGED <<events, nextCookie>>
    BY <1>5, UnbornIs DEF T!MoveConstruct, T!Alive
  <2>2. r # from /\ region[r].cookie = 0 /\ region[r].life = "unborn"
    BY <2>1 DEF Numbered
  <2>3. left = Numbered(region[from].life, 0, NoName, 0) /\ left \in T!RegionStates
    BY <2>2, MovedTo
  <2>4. region' = [region EXCEPT ![r] = region[from], ![from] = left]
    BY <1>5, <2>2, MovedTo DEF T!MoveConstruct
  <2>5. left.cookie = 0 /\ left.life = "alive"
    BY <2>1, <2>3 DEF Numbered
  <2> HIDE DEF left
  <2>6. Pairs(region', events')
    <3>1. Pairs(region', events)
      BY <2>1, <2>2, <2>3, <2>4, <2>5, MoveKeeps DEF TraceInv
    <3> QED BY <2>1, <3>1
  <2>7. Circle(region', events', nextCookie')
    <3>1. /\ region'[r] = region[from] /\ region'[from] = left
          /\ \A q \in Regions \ {r, from} : region'[q] = region[q]
      BY <2>2, <2>3, <2>4, RegionFacts
    <3> QED BY <2>1, <2>5, <3>1, NoDrawStep
  <2> QED BY <2>6, <2>7 DEF TraceInv
<1>6. ASSUME NEW r \in Regions, NEW from \in Regions,
             \/ T!WindowsMoveAssign(r, from) \/ T!AndroidMoveAssign(r, from)
             \/ T!AppleMoveAssign(r, from)
      PROVE  TraceInv'
  <2> DEFINE left == T!MovedFrom(region[from])
             gone == T!MovedFrom(region[r])
             e == T!Written("end", region[r])
  <2>1. T!MoveAssign(r, from) /\ nextCookie' = nextCookie
    BY <1>6 DEF T!WindowsMoveAssign, T!AndroidMoveAssign, T!AppleMoveAssign
  <2>2. /\ r # from /\ region[r].life = "alive" /\ region[from].life = "alive"
        /\ events' = IF region[r].cookie = 0 THEN events ELSE Append(events, e)
    BY <2>1 DEF T!MoveAssign, T!Alive, T!Ended
  <2>3. /\ left = Numbered("alive", 0, NoName, 0) /\ left \in T!RegionStates
        /\ gone = Numbered("alive", 0, NoName, 0) /\ gone \in T!RegionStates
    BY <2>2, MovedTo
  <2>4. region' = [region EXCEPT ![r] = region[from], ![from] = left]
    BY <2>1, <2>2, MovedTo DEF T!MoveAssign
  <2>5. left.cookie = 0 /\ left.life = "alive" /\ gone.cookie = 0
    BY <2>3 DEF Numbered
  <2>6. e \in T!EventStates /\ e.cookie = region[r].cookie /\ events \in Seq(T!EventStates)
    BY RegionFacts, WrittenFacts
  <2> HIDE DEF left, gone
  <2>7. Pairs(region', events')
    <3> DEFINE reg == [region EXCEPT ![r] = gone]
    <3>1. Pairs(reg, events')
      <4>1. CASE region[r].cookie = 0
        BY <2>2, <2>3, <2>5, <4>1, NoCookieKeeps DEF TraceInv
      <4>2. CASE region[r].cookie # 0
        BY <2>2, <2>3, <2>5, <4>2, EndKeeps DEF TraceInv
      <4> QED BY <4>1, <4>2
    <3>2. /\ reg[r] = gone /\ reg[from] = region[from]
          /\ region' = [reg EXCEPT ![r] = reg[from], ![from] = left]
      BY <2>2, <2>4, RegionFacts
    <3> HIDE DEF reg
    <3>3. /\ reg[r].cookie = 0 /\ reg[from].life = "alive" /\ from \in Regions \ {r}
          /\ left \in T!RegionStates /\ left.cookie = 0
      BY <2>2, <2>3, <2>5, <3>2
    <3> QED BY <3>1, <3>2, <3>3, MoveKeeps
  <2>8. Circle(region', events', nextCookie')
    <3> HIDE DEF e
    <3>1. /\ region'[r] = region[from] /\ region'[from] = left
          /\ \A q \in Regions \ {r, from} : region'[q] = region[q]
      BY <2>2, <2>3, <2>4, RegionFacts
    <3>2. \A i \in DOMAIN events' :
            \/ events'[i].cookie = region[r].cookie
            \/ \E k \in DOMAIN events : events'[i].cookie = events[k].cookie
      BY <2>2, <2>6, AppendedEvent
    <3> QED BY <2>1, <2>2, <2>5, <3>1, <3>2, NoDrawStep
  <2> QED BY <2>7, <2>8 DEF TraceInv
<1>7. ASSUME NEW r \in Regions, T!WindowsDestroy(r) \/ T!AndroidDestroy(r) \/ T!AppleDestroy(r)
      PROVE  TraceInv'
  <2> DEFINE gone == Numbered("destroyed", 0, NoName, 0)
             e == T!Written("end", region[r])
  <2>1. T!Destroy(r) /\ nextCookie' = nextCookie
    BY <1>7 DEF T!WindowsDestroy, T!AndroidDestroy, T!AppleDestroy
  <2>2. /\ region[r].life = "alive"
        /\ events' = IF region[r].cookie = 0 THEN events ELSE Append(events, e)
    BY <2>1 DEF T!Destroy, T!Alive, T!Ended
  <2>3. gone \in T!RegionStates /\ gone.cookie = 0 /\ gone.life = "destroyed"
    BY DestroyedTo DEF Numbered
  <2>4. region' = [region EXCEPT ![r] = gone]
    BY <2>1, DestroyedTo DEF T!Destroy
  <2>5. e \in T!EventStates /\ e.cookie = region[r].cookie /\ events \in Seq(T!EventStates)
    BY RegionFacts, WrittenFacts
  <2> HIDE DEF gone
  <2>6. Pairs(region', events')
    <3>1. CASE region[r].cookie = 0
      BY <2>2, <2>3, <2>4, <3>1, NoCookieKeeps DEF TraceInv
    <3>2. CASE region[r].cookie # 0
      BY <2>2, <2>3, <2>4, <3>2, EndKeeps DEF TraceInv
    <3> QED BY <3>1, <3>2
  <2>7. Circle(region', events', nextCookie')
    <3> HIDE DEF e
    <3>1. region'[r] = gone /\ \A q \in Regions \ {r} : region'[q] = region[q]
      BY <2>3, <2>4, RegionFacts
    <3>2. \A i \in DOMAIN events' :
            \/ events'[i].cookie = region[r].cookie
            \/ \E k \in DOMAIN events : events'[i].cookie = events[k].cookie
      BY <2>2, <2>5, AppendedEvent
    <3> QED BY <2>1, <2>3, <3>1, <3>2, NoDrawStep
  <2> QED BY <2>6, <2>7 DEF TraceInv
<1> QED BY <1>1, <1>2, <1>r, <1>3, <1>4, <1>5, <1>6, <1>7, TraceSteps

LEMMA TraceBegins == T!Init => TraceInv
<1> SUFFICES ASSUME T!Init PROVE TraceInv
  OBVIOUS
<1>1. /\ T!TypeOK /\ events = <<>> /\ DOMAIN events = {}
      /\ \A r \in Regions : region[r] = Numbered("unborn", 0, NoName, 0)
  BY TraceInit, UnbornIs DEF T!Init
<1>2. \A r \in Regions : region[r].life = "unborn" /\ region[r].cookie = 0
  <2>1. /\ Numbered("unborn", 0, NoName, 0).life = "unborn"
        /\ Numbered("unborn", 0, NoName, 0).cookie = 0
    BY DEF Numbered
  <2> QED BY <1>1, <2>1
<1>3. T!CookiesApart(region, events) /\ T!EventsPair(events) /\ T!OpenIsHeld(region, events)
  BY <1>1, <1>2 DEF T!CookiesApart, T!EventsPair, T!OpenIsHeld
<1>4. Circle(region, events, nextCookie)
  BY <1>1, <1>2 DEF Circle, T!IsUsed
<1> QED BY <1>1, <1>3, <1>4, RegionFacts DEF TraceInv, Pairs

(* Intervals pair up: through moves, assignments and changes of the        *)
(* switches an end follows the begin of its cookie and name, and what is   *)
(* open is held by one object.  Fewer regions than cookies are constructed *)
(* (the counter wraps around).                                             *)
THEOREM IntervalsAreClosedByTheirHolders ==
  ASSUME IsFiniteSet(Regions), Cardinality(Regions) < Cookies
  PROVE  Spec => []IntervalsPair
<1> DEFINE Inv == T!TypeOK /\ TraceInv
<1>f. FewRegions
  BY DEF FewRegions
<1>1. Init => Inv
  BY TraceInit, TraceBegins DEF Init
<1>2. Inv /\ [Next]_libraryVars => Inv'
  <2>1. [Next]_libraryVars => [T!Next]_(T!vars)
    BY DEF Next, libraryVars, traceVars, T!vars, T!switches, T!provider, T!history
  <2> HIDE DEF TraceInv
  <2> QED BY <1>f, <2>1, TypeStep, TraceStep
<1>3. Inv => IntervalsPair
  <2> SUFFICES ASSUME T!TypeOK, TraceInv PROVE T!IntervalsPair
    BY DEF IntervalsPair
  <2>1. \A j \in DOMAIN events :
          /\ events[j].what = "end" => T!EndsItsBegin(events, j)
          /\ events[j].what = "begin" =>
               \A i \in DOMAIN events : T!Follows(events, i, j) => events[i].what = "end"
    BY DEF TraceInv, Pairs, T!EventsPair, T!Follows
  <2>2. ASSUME NEW c \in 1 .. Cookies - 1, NEW i \in DOMAIN events,
               events[i].cookie = c, T!IsOpen(events, i)
        PROVE  \E r \in Regions : T!Holders(c) = {r}
    <3>1. PICK r \in Regions : region[r].life = "alive" /\ region[r].cookie = c
      BY <2>2 DEF TraceInv, Pairs, T!OpenIsHeld
    <3>2. \A q \in Regions : region[q].cookie = c => q = r
      BY <3>1, CookieNumbers DEF TraceInv, Pairs, T!CookiesApart
    <3>3. T!Holders(c) = {r}
      BY <3>1, <3>2 DEF T!Holders, T!Alive
    <3> QED BY <3>3
  <2>3. ASSUME NEW c \in 1 .. Cookies - 1,
               ~\E i \in DOMAIN events : events[i].cookie = c /\ T!IsOpen(events, i)
        PROVE  T!Holders(c) = {}
    <3>1. \A r \in Regions : region[r].life = "alive" => region[r].cookie # c
      BY <2>3, CookieNumbers DEF TraceInv, Pairs, T!OpenIsHeld
    <3> QED BY <3>1 DEF T!Holders, T!Alive
  <2> QED BY <2>1, <2>2, <2>3 DEF T!IntervalsPair
<1> QED BY <1>1, <1>2, <1>3, PTL DEF Spec
-----------------------------------------------------------------------------
(* hresult and task_conversions. *)

StorageRecord(s) == s = [there |-> s.there, map |-> s.map, next |-> s.next]

\* A storage where categories lead back.
IsStorage(s) ==
    /\ StorageRecord(s) /\ s.there = TRUE /\ s.next \in Nat
    /\ C!MapLeadsBack(s)

\* What is in the first storage is in the second.
Keeps(s, t) ==
    /\ \A f \in DOMAIN s.map.right :
         f \in DOMAIN t.map.right /\ t.map.right[f] = s.map.right[f]
    /\ \A c \in DOMAIN s.map.left : c \in DOMAIN t.map.left

LEMMA NotACategory == HresultCategory \notin C!Categories
BY DEF LibraryAssumption, C!ConversionsAssumption, C!HresultAssumption

LEMMA AddToKeeps ==
  ASSUME NEW s, IsStorage(s), NEW c \in C!Categories
  PROVE  /\ IsStorage(C!AddTo(s, c)) /\ Keeps(s, C!AddTo(s, c))
         /\ c \in DOMAIN C!AddTo(s, c).map.left
<1> DEFINE t == C!AddTo(s, c)
           n == s.next
<1>1. /\ StorageRecord(t) /\ t.there = TRUE /\ t.next = n + 1 /\ n \in Nat /\ t.next \in Nat
  BY DEF C!AddTo, IsStorage, StorageRecord
<1>2. /\ t.map.left = C!EmplaceIn(s.map.left, c, n)
      /\ t.map.right = C!EmplaceIn(s.map.right, n, c)
  BY DEF C!AddTo, C!Emplace
<1>3. /\ \A f \in DOMAIN s.map.right : f \in 0 .. n - 1 /\ s.map.right[f] \in DOMAIN s.map.left
      /\ \A k \in DOMAIN s.map.left :
           s.map.left[k] \in DOMAIN s.map.right /\ s.map.right[s.map.left[k]] = k
      /\ DOMAIN s.map.left \subseteq C!Categories
  BY DEF IsStorage, C!MapLeadsBack
<1>4. n \notin DOMAIN s.map.right
  BY <1>1, <1>3
<1> HIDE DEF t, n
<1>5. /\ DOMAIN t.map.left = DOMAIN s.map.left \cup {c}
      /\ \A k \in DOMAIN s.map.left : t.map.left[k] = s.map.left[k]
      /\ c \notin DOMAIN s.map.left => t.map.left[c] = n
      /\ DOMAIN t.map.right = DOMAIN s.map.right \cup {n}
      /\ \A f \in DOMAIN s.map.right : t.map.right[f] = s.map.right[f]
      /\ t.map.right[n] = c
  BY <1>2, <1>4 DEF C!EmplaceIn
<1>6. \A f \in DOMAIN t.map.right : f \in 0 .. t.next - 1 /\ t.map.right[f] \in DOMAIN t.map.left
  <2>1. \A f \in DOMAIN s.map.right : f \in 0 .. t.next - 1
    BY <1>1, <1>3
  <2>2. n \in 0 .. t.next - 1
    BY <1>1
  <2> QED BY <1>3, <1>5, <2>1, <2>2
<1>7. \A k \in DOMAIN t.map.left :
        t.map.left[k] \in DOMAIN t.map.right /\ t.map.right[t.map.left[k]] = k
  BY <1>3, <1>5
<1>8. C!MapLeadsBack(t)
  BY <1>3, <1>5, <1>6, <1>7 DEF C!MapLeadsBack
<1> QED BY <1>1, <1>5, <1>8 DEF IsStorage, Keeps, t

LEMMA NewIsStorage == IsStorage(C!NewStorage)
<1> DEFINE empty == [there |-> TRUE, map |-> C!EmptyBimap, next |-> 0]
<1>2. IsStorage(empty)
  <2>1. DOMAIN empty.map.left = {} /\ DOMAIN empty.map.right = {}
    BY DEF C!EmptyBimap
  <2>2. C!MapLeadsBack(empty)
    BY <2>1 DEF C!MapLeadsBack
  <2>3. StorageRecord(empty) /\ empty.there = TRUE /\ empty.next \in Nat
    BY DEF StorageRecord
  <2> QED BY <2>2, <2>3 DEF IsStorage
<1> HIDE DEF empty
<1>4. /\ Standard[1] \in C!Categories /\ Standard[2] \in C!Categories
      /\ Standard[3] \in C!Categories /\ Standard[4] \in C!Categories
  BY DEF C!Categories
<1> DEFINE one == C!AddTo(empty, Standard[1])
           two == C!AddTo(one, Standard[2])
           three == C!AddTo(two, Standard[3])
<1>5. IsStorage(one)
  BY <1>2, <1>4, AddToKeeps
<1>6. IsStorage(two)
  BY <1>4, <1>5, AddToKeeps
<1>7. IsStorage(three)
  BY <1>4, <1>6, AddToKeeps
<1>8. C!NewStorage = C!AddTo(three, Standard[4])
  BY DEF C!NewStorage, empty
<1> QED BY <1>4, <1>7, <1>8, AddToKeeps

LEMMA UsesFacts ==
  ASSUME C!StorageInv
  PROVE  /\ IsStorage(C!Uses) /\ (storage.there => C!Uses = storage)
         /\ StorageRecord(storage) /\ storage.there \in BOOLEAN
<1>1. storage.there => IsStorage(storage)
  BY DEF C!StorageInv, IsStorage, StorageRecord
<1> QED BY <1>1, NewIsStorage DEF C!Uses, C!StorageInv, StorageRecord

\* The storage of a step is there if it was used, and keeps what it had.
LEMMA StorageStep ==
  ASSUME ~FirstUseRaces, C!StorageInv, C!StorageNext
  PROVE  /\ C!StorageInv'
         /\ storage.there => storage'.there /\ Keeps(storage, storage')
<1>1. PICK t \in Threads : (\E c \in Own : C!CallAdd(t, c)) \/ C!MakeStorage(t) \/ C!AddCategory(t)
  BY DEF C!StorageNext
<1>2. /\ adder \in [Threads -> [at : {"idle", "make", "add"},
                            category : Own \cup {HresultCategory}]]
      /\ adder[t] = [at |-> adder[t].at, category |-> adder[t].category]
      /\ \A u \in Threads : adder[u].at \in {"idle", "make", "add"}
  BY DEF C!StorageInv
<1>3. Keeps(storage, storage)
  BY DEF Keeps
<1>4. CASE \E c \in Own : C!CallAdd(t, c)
  <2>1. PICK c \in Own : C!CallAdd(t, c)
    BY <1>4
  <2>2. /\ adder[t].at = "idle" /\ UNCHANGED <<storage, added>>
        /\ storage.there \/ \A u \in Threads : adder[u].at = "idle"
    BY <2>1 DEF C!CallAdd, C!MayUse
  <2> DEFINE at == IF storage.there THEN "add" ELSE "make"
  <2>3. adder' = [adder EXCEPT ![t] = [at |-> at, category |-> c]]
    BY <2>1 DEF C!CallAdd
  <2>4. /\ adder'[t].at = at /\ adder'[t].category = c
        /\ \A u \in Threads \ {t} : adder'[u] = adder[u]
        /\ adder' \in [Threads -> [at : {"idle", "make", "add"},
                                   category : Own \cup {HresultCategory}]]
    BY <1>2, <2>3
  <2>5. C!OneMaker'
    <3>1. \A u \in Threads : adder[u].at = "make" => ~storage.there /\ FALSE
      BY <2>2 DEF C!StorageInv, C!OneMaker
    <3> QED BY <2>2, <2>4, <3>1 DEF C!StorageInv, C!OneMaker
  <2>6. \A u \in Threads : adder'[u].at # "idle" => adder'[u].category \in Own
    BY <2>4 DEF C!StorageInv
  <2>7. C!StorageInv'
    BY <2>2, <2>4, <2>5, <2>6 DEF C!StorageInv, C!MapLeadsBack
  <2> QED BY <1>3, <2>2, <2>7
<1>5. CASE C!MakeStorage(t)
  <2>1. /\ adder[t].at = "make" /\ ~storage.there /\ UNCHANGED added
        /\ storage' = C!NewStorage /\ adder' = [adder EXCEPT ![t].at = "add"]
        /\ \A u \in Threads \ {t} : adder[u].at = "idle"
    BY <1>5 DEF C!MakeStorage, C!StorageInv, C!OneMaker
  <2>2. /\ adder'[t] = [at |-> "add", category |-> adder[t].category]
        /\ \A u \in Threads \ {t} : adder'[u] = adder[u]
        /\ adder' \in [Threads -> [at : {"idle", "make", "add"},
                                   category : Own \cup {HresultCategory}]]
    BY <1>2, <2>1
  <2>3. /\ StorageRecord(storage') /\ storage'.there = TRUE /\ storage'.next \in Nat
        /\ C!MapLeadsBack(storage')
    BY <2>1, NewIsStorage DEF IsStorage
  <2>4. C!OneMaker'
    BY <2>1, <2>2, <2>3 DEF C!OneMaker
  <2>5. \A u \in Threads : adder'[u].at # "idle" => adder'[u].category \in Own
    BY <2>1, <2>2 DEF C!StorageInv
  <2>6. added' = {}
    BY <2>1 DEF C!StorageInv
  <2> QED BY <2>1, <2>2, <2>3, <2>4, <2>5, <2>6 DEF C!StorageInv, StorageRecord
<1>6. CASE C!AddCategory(t)
  <2> DEFINE c == adder[t].category
  <2>1. /\ adder[t].at = "add" /\ storage.there /\ c \in Own
        /\ storage' = C!AddTo(storage, c) /\ added' = added \cup {c}
        /\ adder' = [adder EXCEPT ![t].at = "idle"]
    BY <1>6 DEF C!AddCategory, C!StorageInv, C!OneMaker
  <2>2. c \in C!Categories
    BY <2>1 DEF C!Categories
  <2>3. IsStorage(storage)
    BY <2>1, UsesFacts
  <2>4. /\ IsStorage(storage') /\ Keeps(storage, storage')
        /\ c \in DOMAIN storage'.map.left
    BY <2>1, <2>2, <2>3, AddToKeeps
  <2>5. /\ adder'[t] = [at |-> "idle", category |-> c]
        /\ \A u \in Threads \ {t} : adder'[u] = adder[u]
        /\ adder' \in [Threads -> [at : {"idle", "make", "add"},
                                   category : Own \cup {HresultCategory}]]
    BY <1>2, <2>1
  <2> HIDE DEF c
  <2>6. C!OneMaker'
    BY <2>1, <2>4, <2>5 DEF C!OneMaker, C!StorageInv, IsStorage
  <2>7. \A u \in Threads : adder'[u].at # "idle" => adder'[u].category \in Own
    BY <2>5 DEF C!StorageInv
  <2>8. added' \subseteq DOMAIN storage'.map.left
    BY <2>1, <2>4 DEF C!StorageInv, Keeps
  <2>9. C!StorageInv'
    BY <2>4, <2>5, <2>6, <2>7, <2>8 DEF C!StorageInv, IsStorage, StorageRecord
  <2> QED BY <2>4, <2>9 DEF IsStorage
<1> QED BY <1>1, <1>4, <1>5, <1>6

\* An error code made of an HRESULT leads back to it.
LEMMA CodesLeadBack ==
  ASSUME C!StorageInv
  PROVE  \A hr \in C!Failures : \A ec : C!ComesFrom(storage, ec, hr) =>
           LET back == C!HrFromErrorCode(ec) IN
           \/ back = hr
           \/ C!OtherFacility(hr) /\ C!SameCode(C!ErrorCodeFromHr(back), ec)
<1>1. storage.there => C!Uses = storage /\ C!MapLeadsBack(storage)
  BY UsesFacts DEF IsStorage
<1>2. ASSUME NEW hr \in C!Failures, NEW ec, C!ComesFrom(storage, ec, hr)
      PROVE  LET back == C!HrFromErrorCode(ec) IN
             \/ back = hr
             \/ C!OtherFacility(hr) /\ C!SameCode(C!ErrorCodeFromHr(back), ec)
  <2> DEFINE back == C!HrFromErrorCode(ec)
  <2>1. CASE ec = C!ErrorCode(HresultCategory, hr)
    <3>1. ec.category = HresultCategory /\ ec.value = hr
      BY <2>1 DEF C!ErrorCode
    <3>2. back = hr
      BY <3>1 DEF C!HrFromErrorCode
    <3> QED BY <3>2
  <2>2. CASE /\ storage.there /\ C!HasCategory(hr)
             /\ ec = C!ErrorCode(storage.map.right[hr.facility], hr.code)
    <3> DEFINE c == storage.map.right[hr.facility]
               f == storage.map.left[c]
    <3>1. ec.category = c /\ ec.value = hr.code
      BY <2>2 DEF C!ErrorCode
    <3>2. /\ hr.facility \in DOMAIN storage.map.right /\ hr.customer = 1
          /\ c \in DOMAIN storage.map.left /\ c # HresultCategory
          /\ f \in DOMAIN storage.map.right /\ storage.map.right[f] = c
      BY <1>1, <2>2, NotACategory DEF C!HasCategory, C!MapLeadsBack
    <3> HIDE DEF c, f
    <3>3. back = [severity |-> 1, customer |-> 1, facility |-> storage.map.left[c],
                  code |-> hr.code]
      BY <1>1, <2>2, <3>1, <3>2 DEF C!HrFromErrorCode
    <3>4. back = [severity |-> 1, customer |-> 1, facility |-> f, code |-> hr.code]
      BY <3>3 DEF f
    <3>5. CASE f = hr.facility
      <4>1. hr = [severity |-> hr.severity, customer |-> hr.customer, facility |-> hr.facility,
                  code |-> hr.code] /\ hr.severity = 1
        BY DEF C!Failures, C!Hresults
      <4> QED BY <3>2, <3>4, <3>5, <4>1
    <3>6. CASE f # hr.facility
      <4>1. C!OtherFacility(hr)
        BY <1>1, <2>2, <3>6 DEF C!OtherFacility, c, f
      <4>2. back.customer = 1 /\ back.facility = f /\ back.code = hr.code
        BY <3>4
      <4> HIDE DEF back
      <4>3. C!ErrorCodeFromHr(back) = C!ErrorCode(c, hr.code)
        BY <1>1, <2>2, <3>2, <4>2 DEF C!ErrorCodeFromHr, C!HasCategory
      <4>4. C!SameCode(C!ErrorCodeFromHr(back), ec)
        BY <3>1, <4>3 DEF C!SameCode, C!ErrorCode
      <4> QED BY <4>1, <4>4 DEF back
    <3> QED BY <3>5, <3>6
  <2> QED BY <1>1, <1>2, <2>1, <2>2 DEF C!ComesFrom, C!HasCategory
<1> QED BY <1>2

\* An outcome stays one while categories are added.
LEMMA StaysOutcome ==
  ASSUME NEW s, NEW t, s.there => t.there /\ Keeps(s, t), NEW op, NEW x, C!IsOutcome(s, op, x)
  PROVE  C!IsOutcome(t, op, x)
BY DEF C!IsOutcome, C!ComesFrom, Keeps

\* The operands of the constructors of expected.
LEMMA ExpectedFacts ==
  ASSUME NEW type \in {"code", "exception"}, NEW code, NEW o
  PROVE  /\ LET x == C!E!FromUnexpected(o, type, C!E!Error("code", code)) IN
              /\ x.of = o /\ x.has = "error"
              /\ x.error.type = type /\ x.error.code = code
         /\ LET x == C!E!MakeValid(type) IN
              x.of = "void" /\ x.error.type = type /\ x.error.code = Null
         /\ LET x == C!E!FromValue(type, "results") IN
              /\ x.of = "T" /\ x.has = "value" /\ x.value = "results"
              /\ x.error.type = type
BY DEF C!E!FromUnexpected, C!E!MakeValid, C!E!FromValue, C!E!Error, C!E!NoError, C!E!ConvertError

\* The null pointer is no error code, and a cancellation is an error.
LEMMA CodesAreNotNull ==
  ASSUME C!StorageInv
  PROVE  /\ C!CanceledError.code # Null /\ C!IsError(C!CanceledError.code)
         /\ \A hr \in C!Hresults : C!ErrorCodeFromHr(hr) # Null
<1>1. /\ Generic # HresultCategory /\ CanceledCode \in 1 .. Codes - 1 /\ Codes \in Nat
      /\ Null \notin [category : C!Categories \cup {HresultCategory, Generic},
                     value : C!Hresults \cup 0 .. Codes - 1]
  BY DEF LibraryAssumption, C!ConversionsAssumption, C!HresultAssumption
<1>2. C!CanceledError.code = C!ErrorCode(Generic, CanceledCode)
  BY DEF C!CanceledError, C!E!Error
<1>3. CanceledCode # 0 /\ CanceledCode \in 0 .. Codes - 1
  BY <1>1
<1>4. C!IsError(C!CanceledError.code)
  BY <1>1, <1>2, <1>3 DEF C!IsError, C!ErrorCode
<1>5. C!CanceledError.code # Null
  BY <1>1, <1>2, <1>3 DEF C!ErrorCode
<1>6. ASSUME NEW hr \in C!Hresults PROVE C!ErrorCodeFromHr(hr) # Null
  <2>1. CASE C!HasCategory(hr)
    <3>1. C!ErrorCodeFromHr(hr) = C!ErrorCode(C!Uses.map.right[hr.facility], hr.code)
      BY <2>1 DEF C!ErrorCodeFromHr
    <3>2. C!Uses.map.right[hr.facility] \in C!Categories
      BY <2>1, UsesFacts DEF C!HasCategory, IsStorage, C!MapLeadsBack
    <3>3. hr.code \in 0 .. Codes - 1
      BY DEF C!Hresults
    <3> QED BY <1>1, <3>1, <3>2, <3>3 DEF C!ErrorCode
  <2>2. CASE ~C!HasCategory(hr)
    BY <1>1, <2>2 DEF C!ErrorCodeFromHr, C!ErrorCode
  <2> QED BY <2>1, <2>2
<1> QED BY <1>4, <1>5, <1>6

\* What a handler completes the task with.
LEMMA OutcomeIs ==
  ASSUME C!Inv, C!UsesStorage => storage' = C!Uses, operation.status # "Started",
         NEW type \in {"code", "exception"},
         operation.status = "Error" =>
           C!E!Buildable(type, C!E!Error("code", C!ErrorCodeFromHr(operation.hr))),
         NEW x, x = C!Outcome(type)
  PROVE  x.of = of /\ C!IsOutcome(storage', operation, x)
<1>1. /\ C!StorageInv /\ of \in {"T", "void"}
      /\ operation.status \in {"Completed", "Canceled", "Error"}
      /\ operation.status = "Error" => operation.hr \in C!Failures
  BY DEF C!Inv
<1>2. C!UsesStorage => storage'.there = TRUE /\ storage' = C!Uses
  BY <1>1, UsesFacts DEF IsStorage
<1>3. CASE operation.status = "Completed"
  <2>1. x = IF of = "void" THEN C!E!MakeValid(type) ELSE C!E!FromValue(type, "results")
    BY <1>3 DEF C!Outcome
  <2> QED BY <1>1, <1>2, <1>3, <2>1, ExpectedFacts DEF C!IsOutcome
<1>4. CASE operation.status = "Canceled"
  <2> DEFINE code == C!CanceledError.code
  <2>1. x = C!E!FromUnexpected(of, type, C!E!Error("code", code))
    BY <1>4 DEF C!Outcome, C!CanceledError, C!E!Error
  <2>2. code # Null /\ C!IsError(code)
    BY <1>1, CodesAreNotNull
  <2> HIDE DEF code
  <2>3. x.of = of /\ x.has = "error" /\ x.error.type = type /\ x.error.code = code
    BY <2>1, ExpectedFacts
  <2>4. C!E!Holds(x.error)
    BY <2>2, <2>3 DEF C!E!Holds
  <2> QED BY <1>1, <1>2, <1>4, <2>2, <2>3, <2>4 DEF C!IsOutcome, code
<1>5. CASE operation.status = "Error"
  <2> DEFINE hr == operation.hr
             code == C!ErrorCodeFromHr(hr)
  <2>1. x = C!E!FromUnexpected(of, type, C!E!Error("code", code))
    BY <1>5 DEF C!Outcome
  <2>2. hr \in C!Hresults
    BY <1>1, <1>5 DEF C!Failures
  <2>3. code # Null
    BY <1>1, <2>2, CodesAreNotNull
  <2>4. C!ComesFrom(storage', code, hr)
    BY <1>2, <1>5 DEF C!ErrorCodeFromHr, C!HasCategory, C!ComesFrom, C!UsesStorage
  <2> HIDE DEF code
  <2>5. x.of = of /\ x.has = "error" /\ x.error.type = type /\ x.error.code = code
    BY <2>1, ExpectedFacts
  <2>6. C!E!Holds(x.error)
    <3>1. CASE type = "code"
      <4>1. C!E!Holds(C!E!Error("code", code))
        BY <1>5, <3>1 DEF C!E!Buildable, C!E!Error, code
      <4>2. C!IsError(code)
        BY <4>1 DEF C!E!Holds, C!E!Error
      <4> QED BY <2>3, <2>5, <4>2 DEF C!E!Holds
    <3>2. CASE type = "exception"
      BY <2>3, <2>5, <3>2 DEF C!E!Holds
    <3> QED BY <3>1, <3>2
  <2> QED BY <1>1, <1>2, <1>5, <2>3, <2>4, <2>5, <2>6 DEF C!IsOutcome
<1> QED BY <1>1, <1>3, <1>4, <1>5

\* A conversion keeps what it was.
LEMMA ConvertedIs ==
  ASSUME NEW s, NEW op, NEW x, C!IsOutcome(s, op, x), x.error.type = "code",
         op.status \in {"Completed", "Canceled", "Error"},
         NEW y, y = C!E!Convert(x, "exception")
  PROVE  y.of = x.of /\ C!IsOutcome(s, op, y)
<1>1. x.of \in {"T", "void"}
  BY DEF C!IsOutcome
<1>2. CASE op.status = "Completed"
  <2>1. ~C!E!HasError(x)
    BY <1>1, <1>2 DEF C!IsOutcome, C!E!HasError, C!E!Holds
  <2>2. y = IF x.of = "void" THEN C!E!MakeValid("exception")
                             ELSE C!E!FromValue("exception", x.value)
    BY <2>1 DEF C!E!Convert
  <2>3. x.of = "T" => x.value = "results"
    BY <1>2 DEF C!IsOutcome
  <2> QED BY <1>1, <1>2, <2>2, <2>3, ExpectedFacts DEF C!IsOutcome
<1>3. CASE op.status # "Completed"
  <2>1. x.has = "error" /\ x.error.code # Null /\ (x.of = "void" => C!E!Holds(x.error))
    BY <1>3 DEF C!IsOutcome
  <2>2. C!E!HasError(x)
    BY <1>1, <2>1 DEF C!E!HasError
  <2>3. y = C!E!FromUnexpected(x.of, "exception", x.error)
    BY <2>2 DEF C!E!Convert
  <2>4. /\ y.of = x.of /\ y.has = "error"
        /\ y.error.type = "exception" /\ y.error.code = x.error.code
    BY <2>3 DEF C!E!FromUnexpected, C!E!ConvertError, C!E!Error
  <2>5. C!E!Holds(y.error)
    BY <2>1, <2>4 DEF C!E!Holds
  <2> QED BY <1>1, <1>3, <2>1, <2>4, <2>5 DEF C!IsOutcome
<1> QED BY <1>2, <1>3

LEMMA ConversionsInit == C!Init => C!Inv
<1> SUFFICES ASSUME C!Init PROVE C!Inv
  OBVIOUS
<1>1. C!StorageInit /\ result = Null /\ operation = [status |-> "Started", hr |-> C!EFail]
      /\ of \in {"T", "void"}
  BY DEF C!Init
<1>2. /\ storage = [there |-> FALSE, map |-> C!EmptyBimap, next |-> 0] /\ added = {}
      /\ adder = [t \in Threads |-> [at |-> "idle", category |-> HresultCategory]]
  BY <1>1 DEF C!StorageInit, C!NoStorage
<1>3. C!OneMaker
  BY <1>2 DEF C!OneMaker
<1>4. C!StorageInv
  BY <1>2, <1>3 DEF C!StorageInv
<1> QED BY <1>1, <1>4 DEF C!Inv

\* A conversion keeps the invariant of the storage: it makes one only while
\* no thread is adding a category.
LEMMA UsesKeeps ==
  ASSUME ~FirstUseRaces, C!StorageInv, C!MayUse, storage' = C!Uses, UNCHANGED <<adder, added>>
  PROVE  C!StorageInv'
<1>1. IsStorage(storage')
  BY UsesFacts
<1>2. CASE storage.there
  <2>1. UNCHANGED <<storage, adder, added>>
    BY <1>2, UsesFacts
  <2> QED BY <2>1 DEF C!StorageInv, C!OneMaker, C!MapLeadsBack
<1>3. CASE ~storage.there
  <2>1. added = {} /\ \A t \in Threads : adder[t].at = "idle"
    BY <1>3 DEF C!StorageInv, C!MayUse
  <2>2. C!OneMaker'
    BY <2>1 DEF C!OneMaker
  <2>3. StorageRecord(storage') /\ storage'.there = TRUE /\ storage'.next \in Nat
        /\ C!MapLeadsBack(storage')
    BY <1>1 DEF IsStorage
  <2>4. /\ adder' \in [Threads -> [at : {"idle", "make", "add"},
                                   category : Own \cup {HresultCategory}]]
        /\ \A t \in Threads : adder'[t].at # "idle" => adder'[t].category \in Own
    BY DEF C!StorageInv
  <2> QED BY <2>1, <2>2, <2>3, <2>4 DEF C!StorageInv, StorageRecord
<1> QED BY <1>2, <1>3

LEMMA ConversionsStep ==
  ASSUME ~FirstUseRaces, C!Inv, [C!Next]_(C!vars)
  PROVE  C!Inv'
<1>1. /\ C!StorageInv /\ of \in {"T", "void"}
      /\ operation.status \in {"Started", "Completed", "Canceled", "Error"}
      /\ operation.status = "Error" => operation.hr \in C!Failures
      /\ result # Null => result.of = of /\ C!IsOutcome(storage, operation, result)
  BY DEF C!Inv
<1>2. CASE UNCHANGED C!vars
  <2>1. UNCHANGED <<storage, adder, added, operation, of, result>>
    BY <1>2 DEF C!vars, C!storageVars, C!asyncVars
  <2>2. C!StorageInv'
    BY <1>1, <2>1 DEF C!StorageInv, C!OneMaker, C!MapLeadsBack
  <2> QED BY <1>1, <2>1, <2>2 DEF C!Inv
<1>3. CASE C!StorageNext /\ UNCHANGED C!asyncVars
  <2>1. UNCHANGED <<operation, of, result>>
    BY <1>3 DEF C!asyncVars
  <2>2. C!StorageInv' /\ (storage.there => storage'.there /\ Keeps(storage, storage'))
    BY <1>1, <1>3, StorageStep
  <2>3. result # Null => C!IsOutcome(storage', operation, result)
    BY <1>1, <2>2, StaysOutcome
  <2> QED BY <1>1, <2>1, <2>2, <2>3 DEF C!Inv
<1>4. CASE C!OperationEnds
  <2>1. /\ UNCHANGED <<storage, adder, added, of, result>> /\ operation.status = "Started"
    BY <1>4 DEF C!OperationEnds, C!storageVars
  <2>2. C!StorageInv'
    BY <1>1, <2>1 DEF C!StorageInv, C!OneMaker, C!MapLeadsBack
  <2>3. result = Null
    BY <1>1, <2>1 DEF C!IsOutcome
  <2>4. /\ operation'.status \in {"Completed", "Canceled", "Error"}
        /\ operation'.status = "Error" => operation'.hr \in C!Failures
    <3>1. CASE \E s \in {"Completed", "Canceled"} : operation' = [operation EXCEPT !.status = s]
      BY <3>1
    <3>2. CASE \E hr \in C!Failures : operation' = [status |-> "Error", hr |-> hr]
      BY <3>2
    <3> QED BY <1>4, <3>1, <3>2 DEF C!OperationEnds
  <2> QED BY <1>1, <2>1, <2>2, <2>3, <2>4 DEF C!Inv
<1>5. CASE C!CreateTask
  <2>1. UNCHANGED <<storage, adder, added, operation, of, result>>
    BY <1>5 DEF C!CreateTask, C!storageVars
  <2>2. C!StorageInv'
    BY <1>1, <2>1 DEF C!StorageInv, C!OneMaker, C!MapLeadsBack
  <2> QED BY <1>1, <2>1, <2>2 DEF C!Inv
<1>6. CASE C!HandlerRuns
  <2>1. /\ IF C!UsesStorage THEN C!MayUse /\ storage' = C!Uses ELSE storage' = storage
        /\ UNCHANGED <<adder, added, operation, of>> /\ operation.status # "Started"
    BY <1>6 DEF C!HandlerRuns
  <2>2. C!StorageInv'
    <3>1. CASE C!UsesStorage
      BY <1>1, <2>1, <3>1, UsesKeeps
    <3>2. CASE ~C!UsesStorage
      BY <1>1, <2>1, <3>2 DEF C!StorageInv, C!OneMaker, C!MapLeadsBack
    <3> QED BY <3>1, <3>2
  <2>3. ASSUME result' = result PROVE C!Inv'
    <3>1. storage.there => storage'.there /\ Keeps(storage, storage')
      BY <1>1, <2>1, UsesFacts DEF Keeps
    <3>2. result # Null => C!IsOutcome(storage', operation, result)
      BY <1>1, <3>1, StaysOutcome
    <3> QED BY <1>1, <2>1, <2>2, <2>3, <3>2 DEF C!Inv
  <2>4. ASSUME NEW type \in {"code", "exception"}, result' = C!Outcome(type),
               operation.status = "Error" =>
                 C!E!Buildable(type, C!E!Error("code", C!ErrorCodeFromHr(operation.hr)))
        PROVE  C!Inv'
    <3>1. result'.of = of /\ C!IsOutcome(storage', operation, result')
      BY <2>1, <2>4, OutcomeIs
    <3> QED BY <1>1, <2>1, <2>2, <3>1 DEF C!Inv
  <2>5. PICK type \in {"code", "exception"} :
          \/ result' = result
          \/ /\ result' = C!Outcome(type)
             /\ operation.status = "Error" =>
                  C!E!Buildable(type, C!E!Error("code", C!ErrorCodeFromHr(operation.hr)))
    BY <1>6 DEF C!HandlerRuns
  <2> QED BY <2>3, <2>4, <2>5
<1>7. CASE C!ConvertResult
  <2>1. /\ UNCHANGED <<storage, adder, added, operation, of>>
        /\ result # Null /\ result.error.type = "code"
        /\ result' = C!E!Convert(result, "exception")
    BY <1>7 DEF C!ConvertResult, C!storageVars
  <2>2. C!StorageInv'
    BY <1>1, <2>1 DEF C!StorageInv, C!OneMaker, C!MapLeadsBack
  <2>3. operation.status \in {"Completed", "Canceled", "Error"}
    BY <1>1, <2>1 DEF C!IsOutcome
  <2>4. result'.of = result.of /\ C!IsOutcome(storage, operation, result')
    BY <1>1, <2>1, <2>3, ConvertedIs
  <2> QED BY <1>1, <2>1, <2>2, <2>4 DEF C!Inv
<1> QED BY <1>2, <1>3, <1>4, <1>5, <1>6, <1>7 DEF C!Next

LEMMA ConversionsAreSafe == C!Inv => OutcomeSurvives
<1> SUFFICES ASSUME C!Inv PROVE OutcomeSurvives
  OBVIOUS
<1>1. /\ C!StorageInv /\ of \in {"T", "void"}
      /\ operation.status \in {"Started", "Completed", "Canceled", "Error"}
      /\ operation.status = "Error" => operation.hr \in C!Failures
      /\ result # Null => result.of = of /\ C!IsOutcome(storage, operation, result)
  BY DEF C!Inv
<1>2. C!OutcomeSurvives
  <2> SUFFICES ASSUME result # Null
               PROVE  CASE operation.status = "Completed" ->
                             /\ ~C!E!HasError(result)
                             /\ of = "T" => C!E!ValueOr(result, Null) = "results"
                        [] operation.status = "Canceled" ->
                             /\ C!E!HasError(result)
                             /\ C!SameCode(result.error.code, C!CanceledError.code)
                        [] operation.status = "Error" ->
                             /\ C!E!HasError(result)
                             /\ LET back == C!HrFromErrorCode(result.error.code) IN
                                \/ back = operation.hr
                                \/ /\ C!OtherFacility(operation.hr)
                                   /\ C!SameCode(C!ErrorCodeFromHr(back), result.error.code)
    BY DEF C!OutcomeSurvives
  <2>1. /\ result.of = of /\ C!IsOutcome(storage, operation, result)
    BY <1>1 DEF C!IsOutcome
  <2>2. CASE operation.status = "Completed"
    <3>1. ~C!E!HasError(result)
      BY <1>1, <2>1, <2>2 DEF C!IsOutcome, C!E!HasError, C!E!Holds
    <3>2. of = "T" => result.value = "results"
      BY <2>1, <2>2 DEF C!IsOutcome
    <3> QED BY <2>2, <3>1, <3>2 DEF C!E!ValueOr
  <2>3. operation.status # "Completed" => C!E!HasError(result)
    BY <1>1, <2>1 DEF C!IsOutcome, C!E!HasError
  <2>4. CASE operation.status = "Canceled"
    BY <2>1, <2>3, <2>4 DEF C!IsOutcome, C!SameCode
  <2>5. CASE operation.status = "Error"
    <3> DEFINE ec == result.error.code
               hr == operation.hr
    <3>1. hr \in C!Failures /\ C!ComesFrom(storage, ec, hr)
      BY <1>1, <2>1, <2>5 DEF C!IsOutcome
    <3> HIDE DEF ec, hr
    <3>2. \/ C!HrFromErrorCode(ec) = hr
          \/ /\ C!OtherFacility(hr)
             /\ C!SameCode(C!ErrorCodeFromHr(C!HrFromErrorCode(ec)), ec)
      BY <1>1, <2>1, <3>1, CodesLeadBack
    <3> QED BY <2>3, <2>5, <3>2 DEF ec, hr
  <2>6. operation.status # "Started"
    BY <2>1 DEF C!IsOutcome
  <2> QED BY <1>1, <2>2, <2>4, <2>5, <2>6
<1>3. C!CategoriesRoundTrip
  <2>1. ASSUME NEW c \in added, NEW v \in 1 .. Codes - 1
        PROVE  C!SameCode(C!ErrorCodeFromHr(C!HrFromErrorCode(C!ErrorCode(c, v))),
                          C!ErrorCode(c, v))
    <3>1. storage.there /\ c \in DOMAIN storage.map.left /\ C!Uses = storage
      BY <1>1, UsesFacts DEF C!StorageInv
    <3> DEFINE f == storage.map.left[c]
               back == C!HrFromErrorCode(C!ErrorCode(c, v))
    <3>2. /\ c # HresultCategory /\ f \in DOMAIN storage.map.right /\ storage.map.right[f] = c
      BY <1>1, <3>1, NotACategory DEF C!StorageInv, C!MapLeadsBack
    <3>3. C!ErrorCode(c, v).category = c /\ C!ErrorCode(c, v).value = v
      BY DEF C!ErrorCode
    <3>4. back = [severity |-> 1, customer |-> 1, facility |-> f, code |-> v]
      BY <3>1, <3>2, <3>3 DEF C!HrFromErrorCode
    <3>5. back.customer = 1 /\ back.facility = f /\ back.code = v
      BY <3>4
    <3> HIDE DEF back, f
    <3>6. C!ErrorCodeFromHr(back) = C!ErrorCode(c, v)
      BY <3>1, <3>2, <3>5 DEF C!ErrorCodeFromHr, C!HasCategory
    <3> QED BY <3>6 DEF C!SameCode, back
  <2>2. ASSUME NEW c \in added PROVE C!LeadsBack(storage.map, c)
    BY <1>1 DEF C!StorageInv, C!MapLeadsBack, C!LeadsBack
  <2>3. ASSUME NEW hr \in C!Hresults, hr.customer = 0
        PROVE  C!HrFromErrorCode(C!ErrorCodeFromHr(hr)) = hr
    <3>1. C!ErrorCodeFromHr(hr) = C!ErrorCode(HresultCategory, hr)
      BY <2>3 DEF C!ErrorCodeFromHr, C!HasCategory
    <3>2. C!ErrorCode(HresultCategory, hr).category = HresultCategory
          /\ C!ErrorCode(HresultCategory, hr).value = hr
      BY DEF C!ErrorCode
    <3> QED BY <3>1, <3>2 DEF C!HrFromErrorCode
  <2> QED BY <2>1, <2>2, <2>3 DEF C!CategoriesRoundTrip
<1> QED BY <1>2, <1>3 DEF OutcomeSurvives

(***************************************************************************)
(* As long as nobody uses the storage of the categories for the first time *)
(* while another thread makes it, what became of an operation survives     *)
(* every conversion on its way, and error codes of registered categories   *)
(* go to an HRESULT and back unchanged.                                    *)
(***************************************************************************)
THEOREM OutcomesArrive ==
  ASSUME ~FirstUseRaces
  PROVE  Spec => []OutcomeSurvives
<1>1. Init => C!Inv
  BY ConversionsInit DEF Init
<1>2. C!Inv /\ [Next]_libraryVars => C!Inv'
  <2> SUFFICES ASSUME C!Inv, [Next]_libraryVars PROVE [C!Next]_(C!vars)
    BY ConversionsStep
  <2> QED BY DEF Next, libraryVars, conversionVars, C!vars, C!storageVars, C!asyncVars
<1>3. C!Inv => OutcomeSurvives
  BY ConversionsAreSafe
<1> QED BY <1>1, <1>2, <1>3, PTL DEF Spec

-----------------------------------------------------------------------------
(* Platform schedulers. *)

\* A callable that is given by way of a descriptor or a loop, and one that runs.
Given_(c, via) == [call |-> c, via |-> via]
Run_(c, l) == [call |-> c, on |-> l]
Givens == [call : Calls, via : Fds \cup Loops \cup Calls]
Runs_ == [call : Calls, on : Loops \cup {Pool}]

LEMMA GivenFacts ==
  ASSUME NEW g \in Seq(Givens), NEW c \in Calls, NEW v \in Fds \cup Loops \cup Calls
  PROVE  /\ Append(g, Given_(c, v)) \in Seq(Givens)
         /\ Len(g) \in Nat /\ Len(Append(g, Given_(c, v))) = Len(g) + 1
         /\ DOMAIN g = 1 .. Len(g) /\ DOMAIN Append(g, Given_(c, v)) = 1 .. Len(g) + 1
         /\ \A k \in 1 .. Len(g) : Append(g, Given_(c, v))[k] = g[k]
         /\ Append(g, Given_(c, v))[Len(g) + 1].call = c
         /\ Append(g, Given_(c, v))[Len(g) + 1].via = v
BY DEF Givens, Given_

LEMMA RunFacts ==
  ASSUME NEW r \in Seq(Runs_), NEW c \in Calls, NEW l \in Loops \cup {Pool}
  PROVE  /\ Append(r, Run_(c, l)) \in Seq(Runs_)
         /\ Len(r) \in Nat /\ Len(Append(r, Run_(c, l))) = Len(r) + 1
         /\ DOMAIN r = 1 .. Len(r) /\ DOMAIN Append(r, Run_(c, l)) = 1 .. Len(r) + 1
         /\ \A k \in 1 .. Len(r) : Append(r, Run_(c, l))[k] = r[k]
         /\ Append(r, Run_(c, l))[Len(r) + 1].call = c
         /\ Append(r, Run_(c, l))[Len(r) + 1].on = l
BY DEF Runs_, Run_

LEMMA QueueFacts ==
  ASSUME NEW q \in Seq(Calls), NEW c \in Calls
  PROVE  /\ Append(q, c) \in Seq(Calls)
         /\ Len(q) \in Nat /\ DOMAIN q = 1 .. Len(q) /\ DOMAIN Append(q, c) = 1 .. Len(q) + 1
         /\ \A k \in 1 .. Len(q) : Append(q, c)[k] = q[k]
         /\ Append(q, c)[Len(q) + 1] = c
         /\ \A k \in 1 .. Len(q) : q[k] \in Calls
OBVIOUS

LEMMA TailFacts ==
  ASSUME NEW q \in Seq(Calls), q # <<>>
  PROVE  /\ Tail(q) \in Seq(Calls) /\ Head(q) \in Calls
         /\ Len(q) \in Nat /\ 1 \in DOMAIN q /\ Head(q) = q[1]
         /\ DOMAIN q = 1 .. Len(q) /\ DOMAIN Tail(q) = 1 .. Len(q) - 1
         /\ \A k \in DOMAIN Tail(q) : Tail(q)[k] = q[k + 1] /\ k + 1 \in DOMAIN q
         /\ \A i \in DOMAIN Tail(q) : i + 1 > 1
OBVIOUS

\* Who is not in the list yet.
IsNewTo(g, c) == \A k \in DOMAIN g : g[k].call # c

LEMMA GiveKeeps ==
  ASSUME NEW g \in Seq(Givens), NEW c \in Calls, NEW v \in Fds \cup Loops \cup Calls,
         IsNewTo(g, c)
  PROVE  LET two == Append(g, Given_(c, v)) IN
         /\ \A d, w : S!Comes(two, d, w) <=> S!Comes(g, d, w) \/ (d = c /\ w = v)
         /\ \A d, e : d # c /\ e # c => (S!Earlier(two, d, e) <=> S!Earlier(g, d, e))
         /\ \A d : d # c => S!Earlier(two, d, c)
         /\ \A w : ~S!Comes(g, c, w)
<1> DEFINE two == Append(g, Given_(c, v))
           n == Len(g)
<1>1. /\ n \in Nat /\ DOMAIN g = 1 .. n /\ DOMAIN two = 1 .. n + 1
      /\ \A k \in 1 .. n : two[k] = g[k]
      /\ two[n + 1].call = c /\ two[n + 1].via = v
      /\ n + 1 \in DOMAIN two /\ \A k \in 1 .. n : k \in 1 .. n + 1 /\ n + 1 > k
      /\ \A k \in 1 .. n + 1 : k \in 1 .. n \/ k = n + 1
  BY GivenFacts
<1> HIDE DEF two, n
<1>2. ASSUME NEW d, NEW w PROVE S!Comes(two, d, w) <=> S!Comes(g, d, w) \/ (d = c /\ w = v)
  BY <1>1 DEF S!Comes
<1>3. ASSUME NEW d, NEW e, d # c, e # c PROVE S!Earlier(two, d, e) <=> S!Earlier(g, d, e)
  BY <1>1, <1>3 DEF S!Earlier
<1>4. ASSUME NEW d, d # c PROVE S!Earlier(two, d, c)
  BY <1>1, <1>4 DEF S!Earlier, IsNewTo
<1>5. ASSUME NEW w PROVE ~S!Comes(g, c, w)
  BY DEF S!Comes, IsNewTo
<1> QED BY <1>2, <1>3, <1>4, <1>5 DEF two

\* What is given next leaves those in line as they are,
LEMMA GiveInLine ==
  ASSUME NEW g \in Seq(Givens), NEW c \in Calls, NEW v \in Fds \cup Loops \cup Calls,
         IsNewTo(g, c), NEW r, \A x \in DOMAIN r : r[x].call # c,
         NEW q, NEW w, S!InLine(g, r, q, w)
  PROVE  S!InLine(Append(g, Given_(c, v)), r, q, w)
<1> DEFINE two == Append(g, Given_(c, v))
<1>1. /\ \A d, u : S!Comes(two, d, u) <=> S!Comes(g, d, u) \/ (d = c /\ u = v)
      /\ \A d, e : d # c /\ e # c => (S!Earlier(two, d, e) <=> S!Earlier(g, d, e))
      /\ \A u : ~S!Comes(g, c, u)
  BY GiveKeeps
<1> HIDE DEF two
<1>2. \A i \in DOMAIN q : q[i] # c
  BY <1>1 DEF S!InLine
<1> QED BY <1>1, <1>2 DEF S!InLine, two

\* and puts itself at the end of one line.
LEMMA GiveAtEnd ==
  ASSUME NEW g \in Seq(Givens), NEW c \in Calls, NEW v \in Fds \cup Loops \cup Calls,
         IsNewTo(g, c), NEW r, \A x \in DOMAIN r : r[x].call # c,
         NEW q \in Seq(Calls), S!InLine(g, r, q, v)
  PROVE  S!InLine(Append(g, Given_(c, v)), r, Append(q, c), v)
<1> DEFINE two == Append(g, Given_(c, v))
           p == Append(q, c)
           n == Len(q)
<1>1. /\ S!Comes(two, c, v) /\ \A d : d # c => S!Earlier(two, d, c)
      /\ \A u : ~S!Comes(g, c, u)
  BY GiveKeeps
<1>2. S!InLine(two, r, q, v)
  BY GiveInLine
<1>3. /\ DOMAIN q = 1 .. n /\ DOMAIN p = 1 .. n + 1 /\ n \in Nat
      /\ \A k \in 1 .. n : p[k] = q[k]
      /\ p[n + 1] = c
      /\ \A k \in 1 .. n + 1 : k \in 1 .. n \/ k = n + 1
      /\ \A k, m \in 1 .. n + 1 : k < m => k \in 1 .. n
  BY QueueFacts
<1>4. \A i \in DOMAIN q : q[i] # c
  BY <1>1 DEF S!InLine
<1> HIDE DEF two, p, n
<1>5. \A i \in DOMAIN p : S!Comes(two, p[i], v) /\ \A x \in DOMAIN r : r[x].call # p[i]
  BY <1>1, <1>2, <1>3 DEF S!InLine
<1>6. \A i, j \in DOMAIN p : i < j => S!Earlier(two, p[i], p[j])
  BY <1>1, <1>2, <1>3, <1>4 DEF S!InLine
<1>7. \A x \in DOMAIN r : \A i \in DOMAIN p :
         S!Comes(two, r[x].call, v) => S!Earlier(two, r[x].call, p[i])
  BY <1>1, <1>2, <1>3 DEF S!InLine
<1> QED BY <1>5, <1>6, <1>7 DEF S!InLine, two, p

LEMMA GiveOnce ==
  ASSUME NEW g \in Seq(Givens), NEW c \in Calls, NEW v \in Fds \cup Loops \cup Calls,
         IsNewTo(g, c), S!GivenOnce(g), v \in Calls => v = c,
         NEW r, \A x \in DOMAIN r : r[x].call # c, S!RanInOrder(g, r)
  PROVE  LET two == Append(g, Given_(c, v)) IN S!GivenOnce(two) /\ S!RanInOrder(two, r)
<1> DEFINE two == Append(g, Given_(c, v))
           n == Len(g)
<1>1. /\ n \in Nat /\ DOMAIN g = 1 .. n /\ DOMAIN two = 1 .. n + 1
      /\ \A k \in 1 .. n : two[k] = g[k]
      /\ two[n + 1].call = c /\ two[n + 1].via = v
      /\ \A k \in 1 .. n + 1 : k \in 1 .. n \/ k = n + 1
  BY GivenFacts
<1>2. /\ \A d, u : S!Comes(two, d, u) <=> S!Comes(g, d, u) \/ (d = c /\ u = v)
      /\ \A d, e : d # c /\ e # c => (S!Earlier(two, d, e) <=> S!Earlier(g, d, e))
  BY GiveKeeps
<1> HIDE DEF two, n
<1>3. S!GivenOnce(two)
  BY <1>1 DEF S!GivenOnce, IsNewTo
<1>4. ASSUME NEW i \in DOMAIN r, NEW j \in DOMAIN r, i < j
      PROVE  /\ r[i].call # r[j].call
             /\ \A k \in DOMAIN two :
                  S!Comes(two, r[i].call, two[k].via) /\ S!Comes(two, r[j].call, two[k].via) =>
                     S!Earlier(two, r[i].call, r[j].call)
  <2>1. r[i].call # c /\ r[j].call # c /\ r[i].call # r[j].call
    BY <1>4 DEF S!RanInOrder
  <2>2. ASSUME NEW u, S!Comes(g, r[i].call, u), S!Comes(g, r[j].call, u)
        PROVE  S!Earlier(two, r[i].call, r[j].call)
    <3>1. PICK k \in DOMAIN g : g[k].via = u
      BY <2>2 DEF S!Comes
    <3>2. S!Earlier(g, r[i].call, r[j].call)
      BY <1>4, <2>2, <3>1 DEF S!RanInOrder
    <3> QED BY <1>2, <2>1, <3>2
  <2> QED BY <1>2, <2>1, <2>2
<1> QED BY <1>3, <1>4 DEF S!RanInOrder, two

\* The first of a line runs.
LEMMA RunKeeps ==
  ASSUME NEW g \in Seq(Givens), NEW r \in Seq(Runs_), NEW v, NEW q \in Seq(Calls), q # <<>>,
         NEW l \in Loops \cup {Pool},
         S!GivenOnce(g), S!RanInOrder(g, r), S!InLine(g, r, q, v)
  PROVE  LET two == Append(r, Run_(Head(q), l)) IN
         /\ S!RanInOrder(g, two) /\ S!InLine(g, two, Tail(q), v)
         /\ \A p, w : w # v /\ S!InLine(g, r, p, w) => S!InLine(g, two, p, w)
<1> DEFINE c == Head(q)
           two == Append(r, Run_(c, l))
           n == Len(r)
           rest == Tail(q)
<1>1. /\ c \in Calls /\ c = q[1] /\ 1 \in DOMAIN q
      /\ \A k \in DOMAIN rest : rest[k] = q[k + 1] /\ k + 1 \in DOMAIN q /\ k + 1 > 1
      /\ \A k, m \in DOMAIN rest : k < m => k + 1 < m + 1
  BY TailFacts
<1>2. /\ n \in Nat /\ DOMAIN r = 1 .. n /\ DOMAIN two = 1 .. n + 1
      /\ \A k \in 1 .. n : two[k] = r[k]
      /\ two[n + 1].call = c
      /\ \A k \in 1 .. n + 1 : k \in 1 .. n \/ k = n + 1
      /\ \A k, m \in 1 .. n + 1 : k < m => k \in 1 .. n
  BY <1>1, RunFacts
<1> HIDE DEF two, n, c, rest
<1>3. \A u : S!Comes(g, c, u) => u = v
  BY <1>1 DEF S!InLine, S!Comes, S!GivenOnce
<1>4. S!Comes(g, c, v) /\ \A x \in DOMAIN r : r[x].call # c
  BY <1>1 DEF S!InLine
<1>5. \A x \in DOMAIN r : S!Comes(g, r[x].call, v) => S!Earlier(g, r[x].call, c)
  BY <1>1 DEF S!InLine
<1>6. S!RanInOrder(g, two)
  <2> SUFFICES ASSUME NEW i \in DOMAIN two, NEW j \in DOMAIN two, i < j
               PROVE  /\ two[i].call # two[j].call
                      /\ \A k \in DOMAIN g :
                           S!Comes(g, two[i].call, g[k].via) /\ S!Comes(g, two[j].call, g[k].via) =>
                              S!Earlier(g, two[i].call, two[j].call)
    BY DEF S!RanInOrder
  <2>1. i \in DOMAIN r /\ two[i] = r[i]
    BY <1>2
  <2>2. CASE j \in DOMAIN r
    BY <1>2, <2>1, <2>2 DEF S!RanInOrder
  <2>3. CASE j = n + 1
    BY <1>2, <1>3, <1>4, <1>5, <2>1, <2>3
  <2> QED BY <1>2, <2>2, <2>3
<1>7. \A k \in DOMAIN rest : S!Earlier(g, c, rest[k]) /\ rest[k] # c
  <2>1. \A k \in DOMAIN rest : S!Earlier(g, c, rest[k]) /\ S!Comes(g, rest[k], v)
    BY <1>1 DEF S!InLine
  <2>2. PICK m \in DOMAIN g : g[m].call = c
    BY <1>4 DEF S!Comes
  <2>3. m \in Nat
    OBVIOUS
  <2>4. ~S!Earlier(g, c, c)
    BY <2>2, <2>3 DEF S!Earlier
  <2> QED BY <2>1, <2>4
<1>8. S!InLine(g, two, rest, v)
  <2>1. \A i \in DOMAIN rest : S!Comes(g, rest[i], v) /\ \A x \in DOMAIN two : two[x].call # rest[i]
    BY <1>1, <1>2, <1>7 DEF S!InLine
  <2>2. \A i, j \in DOMAIN rest : i < j => S!Earlier(g, rest[i], rest[j])
    BY <1>1 DEF S!InLine
  <2>3. \A x \in DOMAIN two : \A i \in DOMAIN rest :
          S!Comes(g, two[x].call, v) => S!Earlier(g, two[x].call, rest[i])
    BY <1>1, <1>2, <1>7 DEF S!InLine
  <2> QED BY <2>1, <2>2, <2>3 DEF S!InLine
<1>9. ASSUME NEW p, NEW w, w # v, S!InLine(g, r, p, w) PROVE S!InLine(g, two, p, w)
  <2>1. ~S!Comes(g, c, w) /\ \A i \in DOMAIN p : p[i] # c
    BY <1>3, <1>9 DEF S!InLine
  <2> QED BY <1>2, <1>9, <2>1 DEF S!InLine
<1> QED BY <1>6, <1>8, <1>9 DEF two, rest, c

\* What the pool runs was in no line.
LEMMA PoolKeeps ==
  ASSUME NEW g, NEW r \in Seq(Runs_), NEW c \in Calls, \A x \in DOMAIN r : r[x].call # c,
         S!Comes(g, c, c), S!GivenOnce(g), S!RanInOrder(g, r)
  PROVE  LET two == Append(r, Run_(c, Pool)) IN
         /\ S!RanInOrder(g, two)
         /\ \A p, w : w \notin Calls /\ S!InLine(g, r, p, w) => S!InLine(g, two, p, w)
<1> DEFINE two == Append(r, Run_(c, Pool))
           n == Len(r)
<1>1. /\ n \in Nat /\ DOMAIN r = 1 .. n /\ DOMAIN two = 1 .. n + 1
      /\ \A k \in 1 .. n : two[k] = r[k]
      /\ two[n + 1].call = c
      /\ \A k \in 1 .. n + 1 : k \in 1 .. n \/ k = n + 1
      /\ \A k, m \in 1 .. n + 1 : k < m => k \in 1 .. n
  BY RunFacts
<1> HIDE DEF two, n
<1>2. \A u : S!Comes(g, c, u) => u = c
  BY DEF S!Comes, S!GivenOnce
<1>3. \A d : S!Comes(g, d, c) => d = c
  BY DEF S!Comes, S!GivenOnce
<1>4. S!RanInOrder(g, two)
  <2> SUFFICES ASSUME NEW i \in DOMAIN two, NEW j \in DOMAIN two, i < j
               PROVE  /\ two[i].call # two[j].call
                      /\ \A k \in DOMAIN g :
                           S!Comes(g, two[i].call, g[k].via) /\ S!Comes(g, two[j].call, g[k].via) =>
                              S!Earlier(g, two[i].call, two[j].call)
    BY DEF S!RanInOrder
  <2>1. i \in DOMAIN r /\ two[i] = r[i]
    BY <1>1
  <2>2. CASE j \in DOMAIN r
    BY <1>1, <2>1, <2>2 DEF S!RanInOrder
  <2>3. CASE j = n + 1
    BY <1>1, <1>2, <1>3, <2>1, <2>3
  <2> QED BY <1>1, <2>2, <2>3
<1>5. ASSUME NEW p, NEW w, w \notin Calls, S!InLine(g, r, p, w) PROVE S!InLine(g, two, p, w)
  <2>1. ~S!Comes(g, c, w) /\ \A i \in DOMAIN p : p[i] # c
    BY <1>2, <1>5 DEF S!InLine
  <2> QED BY <1>1, <1>5, <2>1 DEF S!InLine
<1> QED BY <1>4, <1>5 DEF two

-----------------------------------------------------------------------------
\* Numbers of objects.
LEMMA CardinalityOf == ASSUME NEW X PROVE S!Cardinality(X) = Cardinality(X)
BY DEF S!Cardinality, Cardinality
LEMMA FiniteOf == ASSUME NEW X PROVE S!IsFiniteSet(X) = IsFiniteSet(X)
BY DEF S!IsFiniteSet, IsFiniteSet

LEMMA CountsAre ==
  ASSUME NEW s, NEW r
  PROVE  S!RefsCounted(s, r) <=>
           \A l \in Loops : r[l] = Cardinality({o \in Places : s[o].loop = l})
BY CardinalityOf DEF S!RefsCounted

LEMMA FiniteObjects ==
  ASSUME NEW X, X \subseteq Places
  PROVE  IsFiniteSet(X) /\ Cardinality(X) \in Nat
BY FiniteOf, FS_Subset, FS_CardinalityType DEF S!SchedulersAssumption

LEMMA OneMore ==
  ASSUME NEW X, X \subseteq Places, NEW o \in Places, o \notin X
  PROVE  Cardinality(X \cup {o}) = Cardinality(X) + 1
BY FiniteObjects, FS_AddElement

LEMMA OneLess ==
  ASSUME NEW X, X \subseteq Places, NEW o \in X
  PROVE  Cardinality(X \ {o}) = Cardinality(X) - 1
BY FiniteObjects, FS_RemoveElement

LEMMA MinIsIn == ASSUME NEW X, X \subseteq Nat, X # {} PROVE S!Min(X) \in X
<1> DEFINE Less == {ss \in Nat \X Nat : ss[1] < ss[2]}
<1>1. IsWellFoundedOn(Less, Nat)
  BY Zenon, NatLessThanWellFounded DEF OpToRel
<1>2. \E x \in X : \A y \in X : ~(<<y, x>> \in Less)
  BY <1>1, WFMin
<1>3. \A x, y \in Nat : ~(<<y, x>> \in Less) => x <= y
  OBVIOUS
<1>4. \E x \in X : \A y \in X : x <= y
  BY <1>2, <1>3
<1> QED BY <1>4 DEF S!Min

\* pipe() has two descriptors to give.
LEMMA TwoFree ==
  ASSUME S!Cardinality(S!FreeFds) >= 2
  PROVE  LET in == S!Min(S!FreeFds)
             out == S!Min(S!FreeFds \ {in})
         IN  in \in S!FreeFds /\ out \in S!FreeFds /\ in # out
<1> DEFINE in == S!Min(S!FreeFds)
           out == S!Min(S!FreeFds \ {in})
<1>1. S!FreeFds \subseteq Nat /\ IsFiniteSet(S!FreeFds)
  BY FiniteOf, FS_Subset DEF S!SchedulersAssumption, S!FreeFds
<1>2. Cardinality(S!FreeFds) \in Nat /\ Cardinality(S!FreeFds) >= 2
  BY <1>1, FS_CardinalityType, CardinalityOf
<1>3. S!FreeFds # {}
  BY <1>2, FS_EmptySet
<1>4. in \in S!FreeFds
  BY <1>1, <1>3, MinIsIn
<1> HIDE DEF in
<1>5. Cardinality(S!FreeFds \ {in}) = Cardinality(S!FreeFds) - 1
  BY <1>1, <1>4, FS_RemoveElement
<1>6. S!FreeFds \ {in} # {}
  BY <1>2, <1>5, FS_EmptySet
<1>7. out \in S!FreeFds \ {in}
  BY <1>1, <1>6, MinIsIn
<1> QED BY <1>4, <1>7 DEF in

-----------------------------------------------------------------------------
LEMMA SchedulerRecords ==
  /\ S!NoScheduler \in S!SchedulerStates /\ S!NoScheduler.loop = None /\ S!NoScheduler.of = None
  /\ S!NoScheduler.in = -1 /\ S!NoScheduler.out = -1 /\ S!NoScheduler.alive = FALSE
  /\ \A x \in S!SchedulerStates : x.alive =>
       /\ S!Taken(x) \in S!SchedulerStates /\ S!Taken(x).loop = None /\ S!Taken(x).of = None
       /\ S!Taken(x).in = -1 /\ S!Taken(x).out = -1 /\ S!Taken(x).alive = TRUE
  /\ \A l \in Loops :
       /\ S!Scheduler(l, l) \in S!SchedulerStates /\ S!Scheduler(l, l).loop = l
       /\ S!Scheduler(l, l).of = l /\ S!Scheduler(l, l).alive = TRUE
       /\ S!Scheduler(l, l).in = -1 /\ S!Scheduler(l, l).out = -1
  /\ \A l \in Loops : l # None
  /\ -1 \notin Fds
BY DEF S!SchedulersAssumption, S!NoScheduler, S!Taken, S!Scheduler, S!SchedulerStates

AllSchedulers == [Places -> S!SchedulerStates]
AllFiles == [Fds -> S!FileStates]

\* t is s after a move from one object to another.
Moved(s, t, o, from) ==
  /\ o # from /\ s[o] = S!NoScheduler /\ s[from].alive = TRUE
  /\ t = [s EXCEPT ![o] = s[from], ![from] = S!Taken(s[from])]

LEMMA Handover ==
  ASSUME NEW s \in AllSchedulers, NEW fs \in AllFiles, NEW w, NEW r, NEW wa,
         S!Held(s, fs, w, r, wa), NEW o \in Places, NEW from \in Places,
         NEW t, Moved(s, t, o, from)
  PROVE  t \in AllSchedulers /\ S!Held(t, fs, w, r, wa)
<1>0. /\ o # from /\ s[o] = S!NoScheduler /\ s[from].alive = TRUE
      /\ t = [s EXCEPT ![o] = s[from], ![from] = S!Taken(s[from])]
  BY DEF Moved
<1> USE <1>0
<1>1. /\ t[o] = s[from] /\ t[from] = S!Taken(s[from])
      /\ \A p \in Places : p # o /\ p # from => t[p] = s[p]
      /\ t \in AllSchedulers
      /\ s[from] \in S!SchedulerStates
  BY SchedulerRecords DEF AllSchedulers
<1>2. /\ t[from].loop = None /\ t[from].of = None /\ t[from].in = -1 /\ t[from].out = -1
      /\ t[from].alive = TRUE
      /\ s[o].loop = None
  BY <1>1, SchedulerRecords
<1>3. S!Members(t)
  <2>1. ASSUME NEW p \in Places
        PROVE  t[p].loop = t[p].of /\ (~t[p].alive => t[p] = S!NoScheduler)
    <3>1. CASE p = from
      BY <1>2, <3>1
    <3>2. CASE p = o
      BY <1>1, <3>2 DEF S!Held, S!Members
    <3>3. CASE p # o /\ p # from
      BY <1>1, <3>3 DEF S!Held, S!Members
    <3> QED BY <3>1, <3>2, <3>3
  <2> QED BY <2>1 DEF S!Members
<1>4. ASSUME NEW p \in Places, t[p].loop # None
      PROVE  \E q \in Places : s[q] = t[p] /\ (p = o => q = from) /\ (p # o => q = p)
  BY <1>1, <1>2, <1>4
<1>5. ASSUME NEW q \in Places, s[q].loop # None
      PROVE  \E p \in Places : s[q] = t[p]
  BY <1>1, <1>2, <1>5
<1>6. S!PipesHeld(t, fs, w)
  <2>1. ASSUME NEW p \in Places
        PROVE  IF t[p].loop = None THEN t[p].in = -1 /\ t[p].out = -1 ELSE S!HasPipe(t[p], fs)
    <3>1. CASE p = from
      BY <1>2, <3>1
    <3>2. CASE p = o
      BY <1>1, <3>2 DEF S!Held, S!PipesHeld
    <3>3. CASE p # o /\ p # from
      <4>1. t[p] = s[p]
        BY <1>1, <3>3
      <4> QED BY <4>1 DEF S!Held, S!PipesHeld
    <3> QED BY <3>1, <3>2, <3>3
  <2>2. \A p, q \in Places : p # q /\ t[p].loop # None /\ t[q].loop # None =>
          {t[p].in, t[p].out} \cap {t[q].in, t[q].out} = {}
    BY <1>1, <1>2 DEF S!Held, S!PipesHeld
  <2>3. ASSUME NEW f \in Fds, fs[f].end # "free"
        PROVE  \E p \in Places : t[p].loop # None /\ f \in {t[p].in, t[p].out}
    <3>1. PICK q \in Places : s[q].loop # None /\ f \in {s[q].in, s[q].out}
      BY <2>3 DEF S!Held, S!PipesHeld
    <3>2. PICK p \in Places : s[q] = t[p]
      BY <1>5, <3>1
    <3> QED BY <3>1, <3>2
  <2>4. ASSUME NEW l \in Loops, NEW f \in Fds
        PROVE  f \in w[l] <=> \E p \in Places : t[p].loop = l /\ t[p].in = f
    <3>1. f \in w[l] <=> \E p \in Places : s[p].loop = l /\ s[p].in = f
      BY DEF S!Held, S!PipesHeld
    <3>2. l # None
      BY SchedulerRecords
    <3>3. ASSUME NEW p \in Places, t[p].loop = l, t[p].in = f
          PROVE  \E q \in Places : s[q].loop = l /\ s[q].in = f
      <4>1. PICK q \in Places : s[q] = t[p]
        BY <1>4, <3>2, <3>3
      <4> QED BY <3>3, <4>1
    <3>4. ASSUME NEW q \in Places, s[q].loop = l, s[q].in = f
          PROVE  \E p \in Places : t[p].loop = l /\ t[p].in = f
      <4>1. PICK p \in Places : s[q] = t[p]
        BY <1>5, <3>2, <3>4
      <4> QED BY <3>4, <4>1
    <3> QED BY <3>1, <3>3, <3>4
  <2> QED BY <2>1, <2>2, <2>3, <2>4 DEF S!PipesHeld
<1>7. S!RefsCounted(t, r)
  <2> SUFFICES ASSUME NEW l \in Loops
               PROVE  r[l] = Cardinality({p \in Places : t[p].loop = l})
    BY CountsAre
  <2> DEFINE S1 == {p \in Places : s[p].loop = l}
             S2 == {p \in Places : t[p].loop = l}
  <2>1. r[l] = Cardinality(S1) /\ l # None
    BY CountsAre, SchedulerRecords DEF S!Held
  <2>2. CASE s[from].loop = l
    <3>1. S2 = (S1 \ {from}) \cup {o} /\ from \in S1 /\ o \notin S1
      BY <1>1, <1>2, <2>1, <2>2
    <3>2. Cardinality(S1 \ {from}) = Cardinality(S1) - 1
      BY <3>1, OneLess
    <3>3. Cardinality((S1 \ {from}) \cup {o}) = Cardinality(S1 \ {from}) + 1
      BY <3>1, OneMore
    <3>4. Cardinality(S1) \in Nat
      BY FiniteObjects
    <3>5. Cardinality(S2) = Cardinality((S1 \ {from}) \cup {o})
      BY <3>1
    <3> HIDE DEF S1, S2
    <3>6. Cardinality(S2) = Cardinality(S1)
      BY <3>2, <3>3, <3>4, <3>5
    <3> QED BY <2>1, <3>6 DEF S1, S2
  <2>3. CASE s[from].loop # l
    <3>1. S2 = S1
      BY <1>1, <1>2, <2>1, <2>3
    <3> QED BY <2>1, <3>1
  <2> QED BY <2>2, <2>3
<1>8. S!PipesAsked(t, fs, wa)
  <2> SUFFICES ASSUME NEW p \in Places, t[p].loop # None
               PROVE  \A i \in DOMAIN fs[t[p].in].queue : wa[fs[t[p].in].queue[i]] = t[p].loop
    BY DEF S!PipesAsked
  <2>1. PICK q \in Places : s[q] = t[p]
    BY <1>4
  <2> QED BY <2>1 DEF S!Held, S!PipesAsked
<1> QED BY <1>1, <1>3, <1>6, <1>7, <1>8 DEF S!Held

\* destroy(): the pipe is closed and no longer watched, and the reference given back.
AllWatches == [Loops -> SUBSET Fds]
AllCounts == [Loops -> Int]

\* What was in a pipe is there still, or lost.
Shortened(fs, fs2) == \A f \in Fds : fs2[f].queue = fs[f].queue \/ fs2[f].queue = <<>>

\* o gave back what it held, and nothing is due there.
Released(s, t, fs, fs2, w, w2, r, r2, d, o) ==
  /\ t = [s EXCEPT ![o] = S!NoScheduler]
  /\ IF s[o].loop = None THEN fs2 = fs /\ w2 = w /\ r2 = r
     ELSE /\ w2 = [w EXCEPT ![s[o].loop] = @ \ {s[o].in}]
          /\ r2 = [r EXCEPT ![s[o].loop] = @ - 1]
          /\ fs2 = [f \in Fds |-> IF f \in {s[o].in, s[o].out} THEN S!Free ELSE fs[f]]
  /\ s[o].loop # None => s[o].in \notin d[s[o].loop]

LEMMA Release ==
  ASSUME NEW s \in AllSchedulers, NEW fs \in AllFiles, NEW w \in AllWatches,
         NEW r \in AllCounts, NEW wa, S!Held(s, fs, w, r, wa), NEW o \in Places,
         NEW t, NEW fs2, NEW w2, NEW r2,
         NEW d, S!DueIsReadable(w, d, fs), Released(s, t, fs, fs2, w, w2, r, r2, d, o)
  PROVE  /\ t \in AllSchedulers /\ fs2 \in AllFiles /\ w2 \in AllWatches /\ r2 \in AllCounts
         /\ S!Held(t, fs2, w2, r2, wa) /\ S!DueIsReadable(w2, d, fs2) /\ Shortened(fs, fs2)
<1>0. /\ t = [s EXCEPT ![o] = S!NoScheduler]
      /\ IF s[o].loop = None THEN fs2 = fs /\ w2 = w /\ r2 = r
         ELSE /\ w2 = [w EXCEPT ![s[o].loop] = @ \ {s[o].in}]
              /\ r2 = [r EXCEPT ![s[o].loop] = @ - 1]
              /\ fs2 = [f \in Fds |-> IF f \in {s[o].in, s[o].out} THEN S!Free ELSE fs[f]]
      /\ s[o].loop # None => s[o].in \notin d[s[o].loop]
      /\ w \in [Loops -> SUBSET Fds] /\ r \in [Loops -> Int]
  BY DEF Released, AllWatches, AllCounts
<1> USE <1>0 DEF AllWatches, AllCounts, Shortened
<1> DEFINE L == s[o].loop
           in == s[o].in
           out == s[o].out
<1>1. /\ t[o] = S!NoScheduler /\ t[o].loop = None /\ t[o].of = None /\ t[o].in = -1 /\ t[o].out = -1
      /\ \A p \in Places : p # o => t[p] = s[p]
      /\ t \in AllSchedulers
      /\ L \in Loops \cup {None}
  BY SchedulerRecords DEF AllSchedulers, S!SchedulerStates
<1>2. S!Members(t)
  BY <1>1 DEF S!Held, S!Members
<1>3. CASE L = None
  <2>1. \A p \in Places : t[p].loop = s[p].loop /\ t[p].in = s[p].in /\ t[p].out = s[p].out
    BY <1>1, <1>3 DEF S!Held, S!PipesHeld
  <2>2. S!PipesHeld(t, fs, w)
    <3>1. \A p \in Places : IF t[p].loop = None THEN t[p].in = -1 /\ t[p].out = -1
                                                ELSE S!HasPipe(t[p], fs)
      BY <1>1, <1>3 DEF S!Held, S!PipesHeld
    <3> QED BY <2>1, <3>1 DEF S!Held, S!PipesHeld
  <2>3. S!RefsCounted(t, r)
    <3>1. ASSUME NEW l \in Loops
          PROVE {p \in Places : t[p].loop = l} = {p \in Places : s[p].loop = l}
      BY <2>1
    <3> QED BY <3>1, CountsAre DEF S!Held
  <2>4. S!PipesAsked(t, fs, wa)
    <3>1. S!PipesAsked(s, fs, wa)
      BY DEF S!Held
    <3> SUFFICES ASSUME NEW p \in Places, t[p].loop # None, NEW i \in DOMAIN fs[t[p].in].queue
                 PROVE  wa[fs[t[p].in].queue[i]] = t[p].loop
      BY DEF S!PipesAsked
    <3>2. t[p].in = s[p].in /\ t[p].loop = s[p].loop
      BY <2>1
    <3>3. s[p].loop # None /\ i \in DOMAIN fs[s[p].in].queue
      BY <3>2
    <3>4. wa[fs[s[p].in].queue[i]] = s[p].loop
      BY <3>1, <3>3 DEF S!PipesAsked
    <3> QED BY <3>2, <3>4
  <2> QED BY <1>1, <1>2, <1>3, <2>2, <2>3, <2>4 DEF S!Held
<1>4. CASE L # None
  <2>1. /\ L \in Loops /\ w2 = [w EXCEPT ![L] = @ \ {in}] /\ r2 = [r EXCEPT ![L] = @ - 1]
        /\ fs2 = [f \in Fds |-> IF f \in {in, out} THEN S!Free ELSE fs[f]]
        /\ S!HasPipe(s[o], fs)
    BY <1>1, <1>4 DEF S!Held, S!PipesHeld
  <2>2. /\ in \in Fds /\ out \in Fds /\ in # out
    BY <2>1 DEF S!HasPipe
  <2>3. S!Free \in S!FileStates /\ S!Free.end = "free" /\ S!Free.queue = <<>>
    BY DEF S!Free, S!FileStates
  <2> HIDE DEF L, in, out
  <2>4. /\ w2 \in [Loops -> SUBSET Fds] /\ r2 \in [Loops -> Int] /\ fs2 \in AllFiles
        /\ \A l \in Loops : w2[l] = IF l = L THEN w[l] \ {in} ELSE w[l]
        /\ \A l \in Loops : r2[l] = IF l = L THEN r[l] - 1 ELSE r[l]
        /\ \A f \in Fds : f \notin {in, out} => fs2[f] = fs[f]
        /\ \A f \in {in, out} : fs2[f].end = "free" /\ fs2[f].queue = <<>>
    <3>1. w2 \in [Loops -> SUBSET Fds] /\ \A l \in Loops : w2[l] = IF l = L THEN w[l] \ {in} ELSE w[l]
      BY <2>1
    <3>2. r2 \in [Loops -> Int] /\ \A l \in Loops : r2[l] = IF l = L THEN r[l] - 1 ELSE r[l]
      BY <2>1
    <3>3. /\ \A f \in Fds : f \notin {in, out} => fs2[f] = fs[f]
          /\ \A f \in {in, out} : fs2[f] = S!Free
      BY <2>1, <2>2
    <3>4. fs2 \in AllFiles
      BY <2>1, <2>3 DEF AllFiles
    <3> QED BY <2>3, <3>1, <3>2, <3>3, <3>4
  <2>5. ASSUME NEW p \in Places, t[p].loop # None
        PROVE  /\ p # o /\ t[p] = s[p] /\ s[p].loop # None
               /\ {s[p].in, s[p].out} \cap {in, out} = {}
    <3>1. p # o /\ t[p] = s[p] /\ s[p].loop # None
      BY <1>1, <2>5
    <3> QED BY <1>4, <3>1 DEF S!Held, S!PipesHeld, L, in, out
  <2>6. S!PipesHeld(t, fs2, w2)
    <3>1. ASSUME NEW p \in Places
          PROVE  IF t[p].loop = None THEN t[p].in = -1 /\ t[p].out = -1 ELSE S!HasPipe(t[p], fs2)
      <4>1. CASE t[p].loop # None
        <5>1. S!HasPipe(s[p], fs)
          BY <2>5, <4>1 DEF S!Held, S!PipesHeld
        <5>2. fs2[s[p].in] = fs[s[p].in] /\ fs2[s[p].out] = fs[s[p].out]
          BY <2>4, <2>5, <4>1, <5>1 DEF S!HasPipe
        <5> QED BY <2>5, <4>1, <5>1, <5>2 DEF S!HasPipe
      <4>2. CASE t[p].loop = None
        BY <1>1, <4>2 DEF S!Held, S!PipesHeld
      <4> QED BY <4>1, <4>2
    <3>2. \A p, q \in Places : p # q /\ t[p].loop # None /\ t[q].loop # None =>
            {t[p].in, t[p].out} \cap {t[q].in, t[q].out} = {}
      BY <2>5 DEF S!Held, S!PipesHeld
    <3>3. ASSUME NEW f \in Fds, fs2[f].end # "free"
          PROVE  \E p \in Places : t[p].loop # None /\ f \in {t[p].in, t[p].out}
      <4>1. f \notin {in, out} /\ fs2[f] = fs[f]
        BY <2>4, <3>3
      <4>2. PICK p \in Places : s[p].loop # None /\ f \in {s[p].in, s[p].out}
        BY <3>3, <4>1 DEF S!Held, S!PipesHeld
      <4>3. p # o
        BY <4>1, <4>2 DEF in, out
      <4> QED BY <1>1, <4>2, <4>3
    <3>4. ASSUME NEW l \in Loops, NEW f \in Fds
          PROVE  f \in w2[l] <=> \E p \in Places : t[p].loop = l /\ t[p].in = f
      <4>1. f \in w[l] <=> \E p \in Places : s[p].loop = l /\ s[p].in = f
        BY DEF S!Held, S!PipesHeld
      <4>2. l # None
        BY SchedulerRecords
      <4>3. ASSUME NEW p \in Places, t[p].loop = l, t[p].in = f PROVE f \in w2[l]
        <5>1. s[p].loop = l /\ s[p].in = f /\ f # in
          BY <2>5, <4>2, <4>3
        <5> QED BY <2>4, <4>1, <5>1
      <4>4. ASSUME f \in w2[l] PROVE \E p \in Places : t[p].loop = l /\ t[p].in = f
        <5>1. f \in w[l] /\ (l = L => f # in)
          BY <2>4, <4>4
        <5>2. PICK p \in Places : s[p].loop = l /\ s[p].in = f
          BY <4>1, <5>1
        <5>3. p # o
          BY <5>1, <5>2 DEF L, in
        <5> QED BY <1>1, <5>2, <5>3
      <4> QED BY <4>3, <4>4
    <3> QED BY <3>1, <3>2, <3>3, <3>4 DEF S!PipesHeld
  <2>7. S!RefsCounted(t, r2)
    <3> SUFFICES ASSUME NEW l \in Loops
                 PROVE  r2[l] = Cardinality({p \in Places : t[p].loop = l})
      BY CountsAre
    <3> DEFINE S1 == {p \in Places : s[p].loop = l}
               S2 == {p \in Places : t[p].loop = l}
    <3>1. r[l] = Cardinality(S1) /\ l # None
      BY CountsAre, SchedulerRecords DEF S!Held
    <3>2. CASE l = L
      <4>1. S2 = S1 \ {o} /\ o \in S1
        BY <1>1, <3>1, <3>2 DEF L
      <4>2. Cardinality(S2) = Cardinality(S1) - 1
        BY <4>1, OneLess
      <4> QED BY <2>4, <3>1, <3>2, <4>2
    <3>3. CASE l # L
      <4>1. S2 = S1
        BY <1>1, <3>1, <3>3 DEF L
      <4> QED BY <2>4, <3>1, <3>3, <4>1
    <3> QED BY <3>2, <3>3
  <2>8. S!PipesAsked(t, fs2, wa)
    <3> SUFFICES ASSUME NEW p \in Places, t[p].loop # None, NEW i \in DOMAIN fs2[t[p].in].queue
                 PROVE  wa[fs2[t[p].in].queue[i]] = t[p].loop
      BY DEF S!PipesAsked
    <3>1. S!HasPipe(s[p], fs) /\ t[p] = s[p] /\ s[p].in \notin {in, out}
      BY <2>5 DEF S!Held, S!PipesHeld
    <3>2. fs2[s[p].in] = fs[s[p].in]
      BY <2>4, <3>1 DEF S!HasPipe
    <3>3. S!PipesAsked(s, fs, wa)
      BY DEF S!Held
    <3>4. fs2[t[p].in] = fs[s[p].in] /\ s[p].loop # None /\ t[p].loop = s[p].loop
      BY <3>1, <3>2
    <3>5. i \in DOMAIN fs[s[p].in].queue
      BY <3>4
    <3>6. wa[fs[s[p].in].queue[i]] = s[p].loop
      BY <3>3, <3>4, <3>5 DEF S!PipesAsked
    <3> QED BY <3>4, <3>6
  <2>9. S!DueIsReadable(w2, d, fs2)
    <3> SUFFICES ASSUME NEW l \in Loops, NEW f \in d[l]
                 PROVE  f \in w2[l] /\ fs2[f].queue # <<>>
      BY DEF S!DueIsReadable
    <3>1. f \in w[l] /\ f \in Fds /\ fs[f].queue # <<>>
      BY DEF S!DueIsReadable
    <3>2. PICK p \in Places : s[p].loop = l /\ s[p].in = f
      BY <3>1 DEF S!Held, S!PipesHeld
    <3>3. p # o
      BY <1>4, <3>2 DEF L, in
    <3>4. f \notin {in, out}
      BY <1>1, <2>5, <3>2, <3>3, SchedulerRecords
    <3> QED BY <2>4, <3>1, <3>4
  <2> QED BY <1>1, <1>2, <2>4, <2>6, <2>7, <2>8, <2>9 DEF S!Held
<1> QED BY <1>3, <1>4

\* A scheduler gets a pipe of its own.
\* The members of a scheduler on a pipe.
OnPipe(l, in, out) == [alive |-> TRUE, loop |-> l, of |-> l, in |-> in, out |-> out]

\* o has a new pipe on the looper of l.
Opened(s, t, fs, fs2, w, w2, r, r2, o, l, in, out) ==
  /\ s[o] = S!NoScheduler /\ in # out /\ fs[in].end = "free" /\ fs[out].end = "free"
  /\ t = [s EXCEPT ![o] = OnPipe(l, in, out)]
  /\ fs2 = [fs EXCEPT ![in] = [end |-> "read", peer |-> out, queue |-> <<>>],
                      ![out] = [end |-> "write", peer |-> in, queue |-> <<>>]]
  /\ w2 = [w EXCEPT ![l] = @ \cup {in}]
  /\ r2 = [r EXCEPT ![l] = @ + 1]

LEMMA Open ==
  ASSUME NEW s \in AllSchedulers, NEW fs \in AllFiles, NEW w \in AllWatches,
         NEW r \in AllCounts, NEW wa, S!Held(s, fs, w, r, wa), NEW o \in Places,
         NEW l \in Loops, NEW in \in Fds, NEW out \in Fds,
         NEW t, NEW fs2, NEW w2, NEW r2, NEW d, S!DueIsReadable(w, d, fs),
         Opened(s, t, fs, fs2, w, w2, r, r2, o, l, in, out)
  PROVE  /\ t \in AllSchedulers /\ fs2 \in AllFiles /\ w2 \in AllWatches /\ r2 \in AllCounts
         /\ S!Held(t, fs2, w2, r2, wa) /\ S!DueIsReadable(w2, d, fs2) /\ Shortened(fs, fs2)
<1> DEFINE x == OnPipe(l, in, out)
<1>0. /\ s[o] = S!NoScheduler /\ in # out /\ fs[in].end = "free" /\ fs[out].end = "free"
      /\ t = [s EXCEPT ![o] = x]
      /\ fs2 = [fs EXCEPT ![in] = [end |-> "read", peer |-> out, queue |-> <<>>],
                          ![out] = [end |-> "write", peer |-> in, queue |-> <<>>]]
      /\ w2 = [w EXCEPT ![l] = @ \cup {in}]
      /\ r2 = [r EXCEPT ![l] = @ + 1]
      /\ w \in [Loops -> SUBSET Fds] /\ r \in [Loops -> Int]
      /\ x = [alive |-> TRUE, loop |-> l, of |-> l, in |-> in, out |-> out]
  BY DEF Opened, OnPipe, AllWatches, AllCounts
<1> HIDE DEF x
<1> USE <1>0 DEF AllWatches, AllCounts, Shortened
<1>1. /\ x \in S!SchedulerStates /\ x.loop = l /\ x.of = l /\ x.in = in /\ x.out = out
      /\ x.alive = TRUE /\ l # None
  BY SchedulerRecords DEF S!SchedulerStates
<1>2. /\ t \in AllSchedulers /\ t[o] = x
      /\ \A p \in Places : p # o => t[p] = s[p]
      /\ s[o].loop = None
  BY <1>1, SchedulerRecords DEF AllSchedulers
<1> DEFINE a == [end |-> "read", peer |-> out, queue |-> <<>>]
           b == [end |-> "write", peer |-> in, queue |-> <<>>]
<1>3. /\ a \in S!FileStates /\ a.end = "read" /\ a.peer = out /\ a.queue = <<>>
      /\ b \in S!FileStates /\ b.end = "write" /\ b.peer = in /\ b.queue = <<>>
  BY DEF S!FileStates
<1> HIDE DEF a, b
<1>4. /\ fs2 \in AllFiles /\ fs2[in] = a /\ fs2[out] = b
      /\ \A f \in Fds : f # in /\ f # out => fs2[f] = fs[f]
  BY <1>3 DEF AllFiles, a, b
<1>5. /\ w2 \in [Loops -> SUBSET Fds] /\ w2[l] = w[l] \cup {in}
      /\ \A k \in Loops : k # l => w2[k] = w[k]
      /\ r2 \in [Loops -> Int] /\ r2[l] = r[l] + 1
      /\ \A k \in Loops : k # l => r2[k] = r[k]
  OBVIOUS
\* The pipes of the others are elsewhere.
<1>6. ASSUME NEW p \in Places, s[p].loop # None
      PROVE  /\ p # o /\ t[p] = s[p] /\ S!HasPipe(s[p], fs)
             /\ s[p].in \in Fds \ {in, out} /\ s[p].out \in Fds \ {in, out}
  <2>1. p # o /\ S!HasPipe(s[p], fs)
    BY <1>2, <1>6 DEF S!Held, S!PipesHeld
  <2> QED BY <1>2, <2>1 DEF S!HasPipe
<1>7. ASSUME NEW p \in Places, t[p].loop # None, p # o PROVE s[p].loop # None /\ t[p] = s[p]
  BY <1>2, <1>7
<1>8. S!Members(t)
  BY <1>1, <1>2 DEF S!Held, S!Members
<1>9. S!PipesHeld(t, fs2, w2)
  <2>1. ASSUME NEW p \in Places
        PROVE  IF t[p].loop = None THEN t[p].in = -1 /\ t[p].out = -1 ELSE S!HasPipe(t[p], fs2)
    <3>1. CASE p = o
      <4>1. S!HasPipe(x, fs2)
        <5>1. fs2[x.in] = a /\ fs2[x.out] = b
          BY <1>1, <1>4
        <5> QED BY <1>1, <1>3, <5>1 DEF S!HasPipe
      <4> QED BY <1>1, <1>2, <3>1, <4>1
    <3>2. CASE p # o /\ s[p].loop = None
      <4>1. t[p] = s[p]
        BY <1>2, <3>2
      <4> QED BY <3>2, <4>1 DEF S!Held, S!PipesHeld
    <3>3. CASE p # o /\ s[p].loop # None
      <4>1. fs2[s[p].in] = fs[s[p].in] /\ fs2[s[p].out] = fs[s[p].out]
        BY <1>4, <1>6, <3>3
      <4> QED BY <1>6, <3>3, <4>1 DEF S!HasPipe
    <3> QED BY <3>1, <3>2, <3>3
  <2>2. ASSUME NEW p \in Places, NEW q \in Places, p # q, t[p].loop # None, t[q].loop # None
        PROVE  {t[p].in, t[p].out} \cap {t[q].in, t[q].out} = {}
    <3>1. CASE p = o
      BY <1>1, <1>2, <1>6, <1>7, <2>2, <3>1
    <3>2. CASE q = o
      BY <1>1, <1>2, <1>6, <1>7, <2>2, <3>2
    <3>3. CASE p # o /\ q # o
      BY <1>7, <2>2, <3>3 DEF S!Held, S!PipesHeld
    <3> QED BY <3>1, <3>2, <3>3
  <2>3. ASSUME NEW f \in Fds, fs2[f].end # "free"
        PROVE  \E p \in Places : t[p].loop # None /\ f \in {t[p].in, t[p].out}
    <3>1. CASE f \in {in, out}
      BY <1>1, <1>2, <3>1
    <3>2. CASE f \notin {in, out}
      <4>1. PICK p \in Places : s[p].loop # None /\ f \in {s[p].in, s[p].out}
        BY <1>4, <2>3, <3>2 DEF S!Held, S!PipesHeld
      <4> QED BY <1>6, <4>1
    <3> QED BY <3>1, <3>2
  <2>4. ASSUME NEW k \in Loops, NEW f \in Fds
        PROVE  f \in w2[k] <=> \E p \in Places : t[p].loop = k /\ t[p].in = f
    <3>1. f \in w[k] <=> \E p \in Places : s[p].loop = k /\ s[p].in = f
      BY DEF S!Held, S!PipesHeld
    <3>2. f \in w2[k] <=> f \in w[k] \/ (k = l /\ f = in)
      BY <1>5
    <3>3. k # None
      BY SchedulerRecords
    <3>4. ASSUME NEW p \in Places, t[p].loop = k, t[p].in = f PROVE f \in w2[k]
      <4>1. CASE p = o
        BY <1>1, <1>2, <3>2, <3>4, <4>1
      <4>2. CASE p # o
        BY <1>7, <3>1, <3>2, <3>3, <3>4, <4>2
      <4> QED BY <4>1, <4>2
    <3>5. ASSUME f \in w[k] PROVE \E p \in Places : t[p].loop = k /\ t[p].in = f
      BY <1>6, <3>1, <3>3, <3>5
    <3>6. ASSUME k = l, f = in PROVE \E p \in Places : t[p].loop = k /\ t[p].in = f
      BY <1>1, <1>2, <3>6
    <3> QED BY <3>2, <3>4, <3>5, <3>6
  <2> QED BY <2>1, <2>2, <2>3, <2>4 DEF S!PipesHeld
<1>10. S!RefsCounted(t, r2)
  <2> SUFFICES ASSUME NEW k \in Loops
               PROVE  r2[k] = Cardinality({p \in Places : t[p].loop = k})
    BY CountsAre
  <2> DEFINE S1 == {p \in Places : s[p].loop = k}
             S2 == {p \in Places : t[p].loop = k}
  <2>1. r[k] = Cardinality(S1) /\ k # None
    BY CountsAre, SchedulerRecords DEF S!Held
  <2>2. CASE k = l
    <3>1. S2 = S1 \cup {o} /\ o \notin S1
      BY <1>1, <1>2, <2>1, <2>2
    <3>2. Cardinality(S1 \cup {o}) = Cardinality(S1) + 1
      BY <3>1, OneMore
    <3> QED BY <1>5, <2>1, <2>2, <3>1, <3>2
  <2>3. CASE k # l
    <3>1. S2 = S1
      BY <1>1, <1>2, <2>1, <2>3
    <3> QED BY <1>5, <2>1, <2>3, <3>1
  <2> QED BY <2>2, <2>3
<1>11. S!PipesAsked(t, fs2, wa)
  <2> SUFFICES ASSUME NEW p \in Places, t[p].loop # None
               PROVE  \A i \in DOMAIN fs2[t[p].in].queue : wa[fs2[t[p].in].queue[i]] = t[p].loop
    BY DEF S!PipesAsked
  <2>1. CASE p = o
    BY <1>1, <1>2, <1>3, <1>4, <2>1
  <2>2. CASE p # o
    <3>1. fs2[s[p].in] = fs[s[p].in] /\ t[p] = s[p] /\ s[p].loop # None
      BY <1>4, <1>6, <1>7, <2>2
    <3>2. \A i \in DOMAIN fs[s[p].in].queue : wa[fs[s[p].in].queue[i]] = s[p].loop
      BY <3>1 DEF S!Held, S!PipesAsked
    <3> QED BY <3>1, <3>2
  <2> QED BY <2>1, <2>2
<1>12. S!DueIsReadable(w2, d, fs2)
  <2> SUFFICES ASSUME NEW k \in Loops, NEW f \in d[k]
               PROVE  f \in w2[k] /\ fs2[f].queue # <<>>
    BY DEF S!DueIsReadable
  <2>1. f \in w[k] /\ f \in Fds /\ fs[f].queue # <<>>
    BY DEF S!DueIsReadable
  <2>2. PICK p \in Places : s[p].loop = k /\ s[p].in = f
    BY <2>1 DEF S!Held, S!PipesHeld
  <2>3. f \notin {in, out}
    BY <1>6, <2>2, SchedulerRecords
  <2> QED BY <1>4, <1>5, <2>1, <2>3
<1>13. \A f \in Fds : fs2[f].queue = fs[f].queue \/ fs2[f].queue = <<>>
  BY <1>3, <1>4
<1> QED BY <1>2, <1>4, <1>5, <1>8, <1>9, <1>10, <1>11, <1>12, <1>13 DEF S!Held

-----------------------------------------------------------------------------
\* Lines where nobody was added, and some emptied.
LEMMA LinesEmptied ==
  ASSUME NEW g, NEW r, NEW fs, NEW q, S!Lines(g, r, fs, q), NEW fs2, NEW q2,
         Shortened(fs, fs2),
         \A l \in Loops : q2[l] = q[l] \/ q2[l] = <<>>
  PROVE  S!Lines(g, r, fs2, q2)
<1>1. ASSUME NEW v PROVE S!InLine(g, r, <<>>, v)
  BY DEF S!InLine
<1>2. \A f \in Fds : S!InLine(g, r, fs2[f].queue, f)
  BY <1>1 DEF S!Lines, Shortened
<1>3. \A l \in Loops : S!InLine(g, r, q2[l], l)
  BY <1>1 DEF S!Lines
<1> QED BY <1>2, <1>3 DEF S!Lines

Wants == [Calls -> Loops \cup {None, Pool}]

\* A callable is scheduled.
\* c, which is new, was given by way of v, to run on l.
Gave(g, g2, wa, wa2, c, l, v) ==
  /\ wa[c] = None /\ (l = Pool <=> v \in Calls) /\ (v \in Calls => v = c)
  /\ g2 = Append(g, Given_(c, v)) /\ wa2 = [wa EXCEPT ![c] = l]

LEMMA GiveStep ==
  ASSUME NEW g \in Seq(Givens), NEW r \in Seq(Runs_), NEW wa \in Wants, NEW fs, NEW q,
         S!Lines(g, r, fs, q), S!Asked(g, r, q, wa),
         NEW c \in Calls, NEW v \in Fds \cup Loops \cup Calls, NEW l \in Loops \cup {Pool},
         NEW g2, NEW wa2, Gave(g, g2, wa, wa2, c, l, v)
  PROVE  /\ g2 \in Seq(Givens) /\ wa2 \in Wants
         /\ S!Lines(g2, r, fs, q) /\ S!Asked(g2, r, q, wa2)
         /\ \A p \in Seq(Calls) : S!InLine(g, r, p, v) => S!InLine(g2, r, Append(p, c), v)
         /\ wa2[c] = l
         /\ \A p, w : S!InLine(g, r, p, w) => \A i \in DOMAIN p : wa2[p[i]] = wa[p[i]]
<1>0. /\ wa[c] = None /\ (l = Pool <=> v \in Calls) /\ (v \in Calls => v = c)
      /\ g2 = Append(g, Given_(c, v)) /\ wa2 = [wa EXCEPT ![c] = l]
  BY DEF Gave
<1> USE <1>0
<1>1. /\ IsNewTo(g, c) /\ \A x \in DOMAIN r : r[x].call # c
      /\ DOMAIN r = 1 .. Len(r) /\ \A x \in DOMAIN r : r[x] \in Runs_
      /\ \A k \in DOMAIN g : g[k] \in Givens
  <2>1. \A x \in DOMAIN r : r[x] \in Runs_
    OBVIOUS
  <2>2. \A x \in DOMAIN r : r[x].on # None /\ r[x].call \in Calls
    BY <2>1 DEF Runs_, S!SchedulersAssumption
  <2> QED BY <2>1, <2>2 DEF S!Asked, IsNewTo
<1>2. /\ wa2 \in Wants /\ wa2[c] = l /\ \A d \in Calls : d # c => wa2[d] = wa[d]
  BY DEF Wants
<1>3. g2 \in Seq(Givens)
  BY GivenFacts
<1>4. /\ \A d, w : S!Comes(g2, d, w) <=> S!Comes(g, d, w) \/ (d = c /\ w = v)
      /\ \A w : ~S!Comes(g, c, w)
  BY <1>1, GiveKeeps
<1>5. \A p, w : S!InLine(g, r, p, w) => S!InLine(g2, r, p, w)
  BY <1>1, GiveInLine
<1>6. S!GivenOnce(g2) /\ S!RanInOrder(g2, r)
  BY <1>1, GiveOnce DEF S!Lines
<1>7. S!Lines(g2, r, fs, q)
  BY <1>5, <1>6 DEF S!Lines
<1>8. \A p \in Seq(Calls) : S!InLine(g, r, p, v) => S!InLine(g2, r, Append(p, c), v)
  BY <1>1, GiveAtEnd
<1>9. ASSUME NEW p, NEW w, S!InLine(g, r, p, w), NEW i \in DOMAIN p
      PROVE  wa2[p[i]] = wa[p[i]]
  <2>1. S!Comes(g, p[i], w)
    BY <1>9 DEF S!InLine
  <2>2. PICK k \in DOMAIN g : g[k].call = p[i]
    BY <2>1 DEF S!Comes
  <2>3. p[i] # c /\ p[i] \in Calls
    BY <1>1, <2>2 DEF IsNewTo, Givens
  <2> QED BY <1>2, <2>3
<1>10. S!Asked(g2, r, q, wa2)
  <2>1. ASSUME NEW k \in DOMAIN g2 PROVE wa2[g2[k].call] # None
    <3>1. \A d \in Calls : wa2[d] = None => wa[d] = None /\ d # c
      BY <1>2 DEF S!SchedulersAssumption
    <3>2. (k \in DOMAIN g /\ g2[k] = g[k]) \/ g2[k].call = c
      BY GivenFacts
    <3>3. k \in DOMAIN g => g[k].call \in Calls
      BY <1>1 DEF Givens
    <3> QED BY <3>1, <3>2, <3>3 DEF S!Asked
  <2>2. ASSUME NEW i \in DOMAIN r PROVE r[i].on = wa2[r[i].call]
    BY <1>1, <1>2 DEF S!Asked, Runs_
  <2>3. ASSUME NEW k \in Loops, NEW i \in DOMAIN q[k] PROVE wa2[q[k][i]] = k
    BY <1>9 DEF S!Lines, S!Asked
  <2>4. ASSUME NEW d \in Calls, wa2[d] = Pool PROVE S!Comes(g2, d, d)
    BY <1>2, <1>4, <2>4 DEF S!Asked
  <2> QED BY <2>1, <2>2, <2>3, <2>4 DEF S!Asked
<1> QED BY <1>2, <1>3, <1>7, <1>8, <1>9, <1>10

\* The first of a line runs where it was to.
\* The first of p ran, where it was to.
RanFirst(r, r2, wa, p, rest, l) ==
  p # <<>> /\ rest = Tail(p) /\ wa[Head(p)] = l /\ r2 = Append(r, Run_(Head(p), l))

\* What ran did so where it was to.
OnAsked(r, wa) == \A i \in DOMAIN r : r[i].on = wa[r[i].call]

LEMMA RunStep ==
  ASSUME NEW g \in Seq(Givens), NEW r \in Seq(Runs_), NEW wa, NEW fs, NEW q,
         S!Lines(g, r, fs, q), S!Asked(g, r, q, wa),
         NEW p \in Seq(Calls), NEW v, S!InLine(g, r, p, v),
         NEW l \in Loops \cup {Pool}, NEW r2, NEW rest, RanFirst(r, r2, wa, p, rest, l)
  PROVE  /\ r2 \in Seq(Runs_) /\ S!RanInOrder(g, r2) /\ S!InLine(g, r2, rest, v)
         /\ \A u, w : w # v /\ S!InLine(g, r, u, w) => S!InLine(g, r2, u, w)
         /\ OnAsked(r2, wa)
<1>0. p # <<>> /\ rest = Tail(p) /\ wa[Head(p)] = l /\ r2 = Append(r, Run_(Head(p), l))
  BY DEF RanFirst
<1> USE <1>0
<1>1. Head(p) \in Calls
  BY TailFacts
<1>2. /\ r2 \in Seq(Runs_)
      /\ DOMAIN r = 1 .. Len(r) /\ DOMAIN r2 = 1 .. Len(r) + 1 /\ Len(r) \in Nat
      /\ \A k \in 1 .. Len(r) : r2[k] = r[k]
      /\ r2[Len(r) + 1].call = Head(p) /\ r2[Len(r) + 1].on = l
  BY <1>1, RunFacts
<1>3. \A i \in DOMAIN r2 : r2[i].on = wa[r2[i].call]
  <2>1. \A i \in 1 .. Len(r) + 1 : i \in 1 .. Len(r) \/ i = Len(r) + 1
    BY <1>2
  <2> QED BY <1>2, <2>1 DEF S!Asked
<1>4. S!GivenOnce(g) /\ S!RanInOrder(g, r)
  BY DEF S!Lines
<1>5. LET two == Append(r, Run_(Head(p), l)) IN
      /\ S!RanInOrder(g, two) /\ S!InLine(g, two, Tail(p), v)
      /\ \A u, w : w # v /\ S!InLine(g, r, u, w) => S!InLine(g, two, u, w)
  BY <1>4, RunKeeps
<1> QED BY <1>2, <1>3, <1>5 DEF OnAsked

LEMMA TypeFacts ==
  ASSUME S!TypeOK
  PROVE  /\ platform \in {"android", "apple", "windows", "unix"}
         /\ sched \in AllSchedulers /\ file \in AllFiles
         /\ watch \in AllWatches /\ due \in AllWatches /\ refs \in AllCounts
         /\ queue \in [Loops -> Seq(Calls)] /\ \A l \in Loops : queue[l] \in Seq(Calls)
         /\ want \in Wants /\ given \in Seq(Givens) /\ ran \in Seq(Runs_)
         /\ \A f \in Fds : file[f].queue \in Seq(Calls)
BY DEF S!TypeOK, AllSchedulers, AllFiles, AllWatches, AllCounts, S!FileStates, Wants, Givens, Runs_

LEMMA SchedulersInit == S!Init => S!Inv
<1> SUFFICES ASSUME S!Init PROVE S!Inv
  OBVIOUS
<1>1. /\ sched = [o \in Places |-> S!NoScheduler] /\ file = [f \in Fds |-> S!Free]
      /\ watch = [l \in Loops |-> {}] /\ due = [l \in Loops |-> {}]
      /\ refs = [l \in Loops |-> 0] /\ queue = [l \in Loops |-> <<>>]
      /\ id = [l \in Loops |-> 0] /\ cache = [i \in {} |-> None]
      /\ want = [c \in Calls |-> None] /\ given = <<>> /\ ran = <<>> /\ broken = FALSE
      /\ platform \in {"android", "apple", "windows", "unix"}
  BY DEF S!Init
<1>2. S!Free \in S!FileStates /\ S!Free.end = "free" /\ S!Free.queue = <<>>
  BY DEF S!Free, S!FileStates
<1>3. /\ \A o \in Places : sched[o] = S!NoScheduler /\ sched[o].loop = None /\ sched[o].of = None
      /\ \A o \in Places : sched[o].in = -1 /\ sched[o].out = -1 /\ sched[o].alive = FALSE
      /\ \A l \in Loops : l # None
  BY <1>1, SchedulerRecords
<1>4. S!TypeOK
  <2>1. sched \in [Places -> S!SchedulerStates] /\ file \in [Fds -> S!FileStates]
    BY <1>1, <1>2, SchedulerRecords
  <2>2. DOMAIN cache = {} /\ cache \in [DOMAIN cache -> Loops]
    BY <1>1
  <2>3. given \in Seq([call : Calls, via : Fds \cup Loops \cup Calls])
        /\ ran \in Seq([call : Calls, on : Loops \cup {Pool}])
    BY <1>1
  <2>4. queue \in [Loops -> Seq(Calls)]
    BY <1>1
  <2>5. watch \in [Loops -> SUBSET Fds] /\ due \in [Loops -> SUBSET Fds]
    BY <1>1
  <2>6. refs \in [Loops -> Int] /\ id \in [Loops -> Ids \cup {0, -1}]
    BY <1>1
  <2>7. want \in [Calls -> Loops \cup {None, Pool}] /\ broken \in BOOLEAN
    BY <1>1
  <2> QED BY <1>1, <2>1, <2>2, <2>3, <2>4, <2>5, <2>6, <2>7 DEF S!TypeOK
<1>5. S!Members(sched)
  BY <1>3 DEF S!Members
<1>6. S!RefsCounted(sched, refs)
  <2> SUFFICES ASSUME NEW l \in Loops
               PROVE  refs[l] = Cardinality({o \in Places : sched[o].loop = l})
    BY CountsAre
  <2>1. {o \in Places : sched[o].loop = l} = {}
    BY <1>3
  <2> QED BY <1>1, <2>1, FS_EmptySet
<1>7. S!PipesHeld(sched, file, watch) /\ S!PipesAsked(sched, file, want)
  BY <1>1, <1>2, <1>3 DEF S!PipesHeld, S!PipesAsked
<1>8. S!NoPipes(sched, file, watch, due) /\ S!DueIsReadable(watch, due, file)
  BY <1>1, <1>2, <1>3 DEF S!NoPipes, S!DueIsReadable
<1>9. S!WindowsCached(id, cache)
  BY <1>1 DEF S!WindowsCached
<1>10. S!Lines(given, ran, file, queue) /\ S!Asked(given, ran, queue, want)
  <2>1. /\ DOMAIN given = {} /\ DOMAIN ran = {} /\ \A l \in Loops : DOMAIN queue[l] = {}
        /\ \A f \in Fds : DOMAIN file[f].queue = {}
        /\ \A c \in Calls : want[c] = None
    BY <1>1, <1>2
  <2>2. None # Pool
    BY DEF S!SchedulersAssumption
  <2>3. S!GivenOnce(given) /\ S!RanInOrder(given, ran)
    BY <2>1 DEF S!GivenOnce, S!RanInOrder
  <2>4. ASSUME NEW q, NEW v, DOMAIN q = {} PROVE S!InLine(given, ran, q, v)
    BY <2>4 DEF S!InLine
  <2>5. S!Lines(given, ran, file, queue)
    <3>1. \A f \in Fds : S!InLine(given, ran, file[f].queue, f)
      BY <2>1, <2>4
    <3>2. \A l \in Loops : S!InLine(given, ran, queue[l], l)
      BY <2>1, <2>4
    <3> QED BY <2>3, <3>1, <3>2 DEF S!Lines
  <2>6. S!Asked(given, ran, queue, want)
    <3>1. \A l \in Loops : \A i \in DOMAIN queue[l] : want[queue[l][i]] = l
      BY <2>1
    <3>2. \A c \in Calls : want[c] # Pool
      BY <2>1, <2>2
    <3> QED BY <2>1, <3>1, <3>2 DEF S!Asked
  <2> QED BY <2>5, <2>6
<1> QED BY <1>1, <1>4, <1>5, <1>6, <1>7, <1>8, <1>9, <1>10 DEF S!Inv, S!Held

LEMMA LooperConstructStep ==
  ASSUME S!Inv, NEW o \in Places, NEW l \in Loops, S!LooperConstruct(o, l) PROVE S!Inv'
<1> DEFINE in == S!Min(S!FreeFds)
           out == S!Min(S!FreeFds \ {in})
<1>1. /\ platform = "android" /\ ~sched[o].alive /\ S!Cardinality(S!FreeFds) >= 2
      /\ file' = [file EXCEPT ![in] = [end |-> "read", peer |-> out, queue |-> <<>>],
                              ![out] = [end |-> "write", peer |-> in, queue |-> <<>>]]
      /\ watch' = [watch EXCEPT ![l] = @ \cup {in}]
      /\ sched' = [sched EXCEPT ![o] =
                [alive |-> TRUE, loop |-> l, of |-> l, in |-> in, out |-> out]]
      /\ refs' = [refs EXCEPT ![l] = @ + 1]
      /\ UNCHANGED <<platform, due, queue, id, cache, want, given, ran, broken>>
  BY DEF S!LooperConstruct, S!Alive, S!callVars
<1>2. in \in S!FreeFds /\ out \in S!FreeFds /\ in # out
  BY <1>1, TwoFree
<1> HIDE DEF in, out
<1>3. in \in Fds /\ out \in Fds /\ file[in].end = "free" /\ file[out].end = "free"
  BY <1>2 DEF S!FreeFds
<1>4. /\ S!TypeOK /\ S!Held(sched, file, watch, refs, want) /\ S!DueIsReadable(watch, due, file)
      /\ S!Lines(given, ran, file, queue) /\ sched[o] = S!NoScheduler
  BY <1>1 DEF S!Inv, S!Members
<1>5. Opened(sched, sched', file, file', watch, watch', refs, refs', o, l, in, out)
  BY <1>1, <1>2, <1>3, <1>4 DEF Opened, OnPipe
<1>6. sched \in AllSchedulers /\ file \in AllFiles /\ watch \in AllWatches /\ refs \in AllCounts
  BY <1>4, TypeFacts
<1>7. /\ sched' \in AllSchedulers /\ file' \in AllFiles /\ watch' \in AllWatches /\ refs' \in AllCounts
      /\ S!Held(sched', file', watch', refs', want) /\ S!DueIsReadable(watch', due, file')
      /\ Shortened(file, file')
  BY <1>3, <1>4, <1>5, <1>6, Open
<1>8. S!Lines(given, ran, file', queue)
  BY <1>4, <1>7, LinesEmptied
<1>9. S!TypeOK'
  BY <1>1, <1>4, <1>7 DEF S!TypeOK, AllSchedulers, AllFiles, AllWatches, AllCounts
<1> QED BY <1>1, <1>7, <1>8, <1>9 DEF S!Inv, S!Held

LEMMA LooperMoveConstructStep ==
  ASSUME S!Inv, NEW o \in Places, NEW from \in Places, S!LooperMoveConstruct(o, from) PROVE S!Inv'
<1>1. /\ platform = "android" /\ ~sched[o].alive /\ sched[from].alive
      /\ sched' = [sched EXCEPT ![o] = sched[from], ![from] = S!Taken(@)]
      /\ UNCHANGED <<platform, file, watch, due, refs, queue, id, cache, want, given, ran, broken>>
  BY DEF S!LooperMoveConstruct, S!Alive, S!callVars, S!systemVars
<1>2. /\ S!TypeOK /\ S!Held(sched, file, watch, refs, want) /\ sched[o] = S!NoScheduler /\ o # from
  BY <1>1 DEF S!Inv, S!Members
<1>3. sched[from].alive = TRUE
  BY <1>1, <1>2, TypeFacts DEF AllSchedulers, S!SchedulerStates
<1>4. sched' = [sched EXCEPT ![o] = sched[from], ![from] = S!Taken(sched[from])]
  BY <1>1, <1>2, TypeFacts DEF AllSchedulers
<1>5. sched' \in AllSchedulers /\ S!Held(sched', file, watch, refs, want)
  <2>1. Moved(sched, sched', o, from)
    BY <1>2, <1>3, <1>4 DEF Moved
  <2>2. sched \in AllSchedulers /\ file \in AllFiles
    BY <1>2, TypeFacts
  <2> QED BY <1>2, <2>1, <2>2, Handover
<1>6. S!TypeOK'
  BY <1>1, <1>2, <1>5 DEF S!TypeOK, AllSchedulers
<1> QED BY <1>1, <1>5, <1>6 DEF S!Inv, S!Held

\* destroy() of an object that is in its destructor, or is assigned to.
LEMMA Destroyed ==
  ASSUME S!Inv, platform = "android", NEW o \in Places, S!MayDestroy(sched[o]),
         S!DestroyLooper(sched[o]), ~Careless,
         NEW t, t = [sched EXCEPT ![o] = S!NoScheduler]
  PROVE  /\ t \in AllSchedulers /\ file' \in AllFiles /\ watch' \in AllWatches /\ refs' \in AllCounts
         /\ S!Held(t, file', watch', refs', want) /\ S!DueIsReadable(watch', due, file')
         /\ S!Lines(given, ran, file', queue)
<1>1. /\ S!TypeOK /\ S!Held(sched, file, watch, refs, want) /\ S!DueIsReadable(watch, due, file)
      /\ S!Lines(given, ran, file, queue)
  BY DEF S!Inv
<1>2. sched[o].loop # None => sched[o].in \notin due[sched[o].loop]
  BY DEF S!MayDestroy
<1>3. IF sched[o].loop = None THEN file' = file /\ watch' = watch /\ refs' = refs
      ELSE /\ watch' = [watch EXCEPT ![sched[o].loop] = @ \ {sched[o].in}]
           /\ refs' = [refs EXCEPT ![sched[o].loop] = @ - 1]
           /\ file' = [f \in Fds |-> IF f \in {sched[o].in, sched[o].out} THEN S!Free ELSE file[f]]
  BY DEF S!DestroyLooper
<1>4. /\ t \in AllSchedulers /\ file' \in AllFiles /\ watch' \in AllWatches /\ refs' \in AllCounts
      /\ S!Held(t, file', watch', refs', want) /\ S!DueIsReadable(watch', due, file')
      /\ Shortened(file, file')
  <2>1. Released(sched, t, file, file', watch, watch', refs, refs', due, o)
    BY <1>2, <1>3 DEF Released
  <2>2. sched \in AllSchedulers /\ file \in AllFiles /\ watch \in AllWatches /\ refs \in AllCounts
    BY <1>1, TypeFacts
  <2> QED BY <1>1, <2>1, <2>2, Release
<1> QED BY <1>1, <1>4, LinesEmptied

LEMMA LooperMoveAssignStep ==
  ASSUME S!Inv, ~Careless, NEW o \in Places, NEW from \in Places, S!LooperMoveAssign(o, from)
  PROVE  S!Inv'
<1>1. /\ platform = "android" /\ sched[from].alive /\ o # from
      /\ S!MayDestroy(sched[o]) /\ S!DestroyLooper(sched[o])
      /\ sched' = [sched EXCEPT ![o] = sched[from], ![from] = S!Taken(@)]
      /\ UNCHANGED <<platform, due, queue, id, cache, want, given, ran, broken>>
  BY DEF S!LooperMoveAssign, S!Alive, S!callVars
<1> DEFINE mid == [sched EXCEPT ![o] = S!NoScheduler]
<1>2. /\ mid \in AllSchedulers /\ file' \in AllFiles /\ watch' \in AllWatches /\ refs' \in AllCounts
      /\ S!Held(mid, file', watch', refs', want) /\ S!DueIsReadable(watch', due, file')
      /\ S!Lines(given, ran, file', queue)
  BY <1>1, Destroyed
<1>3. /\ mid[o] = S!NoScheduler /\ mid[from] = sched[from] /\ sched[from].alive = TRUE
      /\ sched' = [mid EXCEPT ![o] = mid[from], ![from] = S!Taken(mid[from])]
  BY <1>1, TypeFacts DEF S!Inv, AllSchedulers, S!SchedulerStates
<1> HIDE DEF mid
<1>4. sched' \in AllSchedulers /\ S!Held(sched', file', watch', refs', want)
  <2>1. Moved(mid, sched', o, from)
    BY <1>1, <1>3 DEF Moved
  <2> QED BY <1>2, <2>1, Handover
<1>5. S!TypeOK'
  BY <1>1, <1>2, <1>4 DEF S!Inv, S!TypeOK, AllSchedulers, AllFiles, AllWatches, AllCounts
<1> QED BY <1>1, <1>2, <1>4, <1>5 DEF S!Inv, S!Held

LEMMA LooperDestroyStep ==
  ASSUME S!Inv, ~Careless, NEW o \in Places, S!LooperDestroy(o) PROVE S!Inv'
<1>1. /\ platform = "android" /\ S!MayDestroy(sched[o]) /\ S!DestroyLooper(sched[o])
      /\ sched' = [sched EXCEPT ![o] = S!NoScheduler]
      /\ UNCHANGED <<platform, due, queue, id, cache, want, given, ran, broken>>
  BY DEF S!LooperDestroy, S!callVars
<1>2. /\ sched' \in AllSchedulers /\ file' \in AllFiles /\ watch' \in AllWatches /\ refs' \in AllCounts
      /\ S!Held(sched', file', watch', refs', want) /\ S!DueIsReadable(watch', due, file')
      /\ S!Lines(given, ran, file', queue)
  BY <1>1, Destroyed
<1>3. S!TypeOK'
  BY <1>1, <1>2 DEF S!Inv, S!TypeOK, AllSchedulers, AllFiles, AllWatches, AllCounts
<1> QED BY <1>1, <1>2, <1>3 DEF S!Inv, S!Held

-----------------------------------------------------------------------------
WithQueue(fs, fs2, f, p) == fs2 = [fs EXCEPT ![f].queue = p]

LEMMA PipesApart ==
  ASSUME NEW s, NEW fs, NEW w, S!PipesHeld(s, fs, w), NEW o \in Places, NEW p \in Places,
         s[o].loop # None, s[p].loop # None, o # p
  PROVE  s[p].in \in Fds /\ s[p].in # s[o].in
<1>1. S!HasPipe(s[p], fs) /\ {s[o].in, s[o].out} \cap {s[p].in, s[p].out} = {}
  BY DEF S!PipesHeld
<1> QED BY <1>1 DEF S!HasPipe

LEMMA QueueChanged ==
  ASSUME NEW s, NEW fs \in AllFiles, NEW w, S!PipesHeld(s, fs, w), NEW f \in Fds,
         NEW p \in Seq(Calls), NEW fs2, WithQueue(fs, fs2, f, p)
  PROVE  /\ fs2 \in AllFiles /\ fs2[f].queue = p /\ S!PipesHeld(s, fs2, w)
         /\ \A k \in Fds : k # f => fs2[k] = fs[k]
<1> DEFINE x == [fs[f] EXCEPT !.queue = p]
<1>1. fs[f] \in S!FileStates
  BY DEF AllFiles
<1>2. x \in S!FileStates /\ x.queue = p /\ x.end = fs[f].end /\ x.peer = fs[f].peer
  BY <1>1 DEF S!FileStates
<1>3. fs2 = [fs EXCEPT ![f] = x]
  BY DEF WithQueue
<1> HIDE DEF x
<1>4. /\ fs2 \in AllFiles /\ fs2[f] = x /\ \A k \in Fds : k # f => fs2[k] = fs[k]
  BY <1>2, <1>3 DEF AllFiles
<1>5. \A k \in Fds : fs2[k].end = fs[k].end /\ fs2[k].peer = fs[k].peer
  BY <1>2, <1>4
<1>6. \A o \in Places : S!HasPipe(s[o], fs) => S!HasPipe(s[o], fs2)
  BY <1>5 DEF S!HasPipe
<1>7. S!PipesHeld(s, fs2, w)
  BY <1>5, <1>6 DEF S!PipesHeld
<1> QED BY <1>2, <1>4, <1>7

\* What was to run somewhere was scheduled, and is not affected by what comes.
LEMMA PipesStayAsked ==
  ASSUME NEW s, NEW fs, NEW w, S!PipesHeld(s, fs, w), NEW wa, S!PipesAsked(s, fs, wa),
         NEW g, NEW r, NEW q, S!Lines(g, r, fs, q), NEW wa2,
         \A p, v : S!InLine(g, r, p, v) => \A i \in DOMAIN p : wa2[p[i]] = wa[p[i]]
  PROVE  S!PipesAsked(s, fs, wa2)
<1> SUFFICES ASSUME NEW o \in Places, s[o].loop # None, NEW i \in DOMAIN fs[s[o].in].queue
             PROVE  wa2[fs[s[o].in].queue[i]] = s[o].loop
  BY DEF S!PipesAsked
<1>1. s[o].in \in Fds
  BY DEF S!PipesHeld, S!HasPipe
<1>2. S!InLine(g, r, fs[s[o].in].queue, s[o].in)
  BY <1>1 DEF S!Lines
<1> QED BY <1>2 DEF S!PipesAsked

LEMMA LooperScheduleStep ==
  ASSUME S!Inv, NEW o \in Places, NEW c \in Calls, S!LooperSchedule(o, c) PROVE S!Inv'
<1> DEFINE l == sched[o].loop
           in == sched[o].in
           q == file[in].queue
<1>1. /\ platform = "android" /\ l # None /\ want[c] = None
      /\ file' = [file EXCEPT ![file[sched[o].out].peer].queue = Append(@, c)]
      /\ want' = [want EXCEPT ![c] = sched[o].of]
      /\ given' = Append(given, Given_(c, in))
      /\ UNCHANGED <<platform, sched, watch, due, refs, queue, id, cache, ran, broken>>
  BY DEF S!LooperSchedule, S!IsNew, S!Given, Given_, S!systemVars
<1>2. /\ S!TypeOK /\ S!Members(sched) /\ S!PipesHeld(sched, file, watch) /\ S!RefsCounted(sched, refs)
      /\ S!PipesAsked(sched, file, want) /\ S!DueIsReadable(watch, due, file)
      /\ S!Lines(given, ran, file, queue) /\ S!Asked(given, ran, queue, want)
  BY <1>1 DEF S!Inv, S!Held
<1>3. /\ sched \in AllSchedulers /\ file \in AllFiles /\ given \in Seq(Givens)
      /\ ran \in Seq(Runs_) /\ want \in Wants
  BY <1>2, TypeFacts
<1>4. /\ l \in Loops /\ sched[o].of = l /\ S!HasPipe(sched[o], file) /\ in \in Fds
      /\ file[sched[o].out].peer = in
  <2>1. l \in Loops /\ sched[o].of = l
    BY <1>1, <1>2, <1>3 DEF S!Members, AllSchedulers, S!SchedulerStates
  <2> QED BY <1>1, <1>2, <2>1 DEF S!PipesHeld, S!HasPipe
<1>5. /\ q \in Seq(Calls) /\ S!InLine(given, ran, q, in)
      /\ Append(q, c) \in Seq(Calls) /\ Append(q, c) # <<>>
      /\ \A i \in DOMAIN Append(q, c) : (i \in DOMAIN q /\ Append(q, c)[i] = q[i]) \/ Append(q, c)[i] = c
  <2>1. q \in Seq(Calls) /\ S!InLine(given, ran, q, in)
    BY <1>2, <1>3, <1>4 DEF AllFiles, S!FileStates, S!Lines
  <2> HIDE DEF q
  <2>2. \A i \in DOMAIN Append(q, c) : (i \in DOMAIN q /\ Append(q, c)[i] = q[i]) \/ Append(q, c)[i] = c
    BY <2>1, QueueFacts
  <2> QED BY <2>1, <2>2
<1>6. WithQueue(file, file', in, Append(q, c))
  BY <1>1, <1>4 DEF WithQueue
<1> HIDE DEF l, in, q
<1>7. /\ file' \in AllFiles /\ file'[in].queue = Append(q, c) /\ S!PipesHeld(sched, file', watch)
      /\ \A k \in Fds : k # in => file'[k] = file[k]
  <2> DEFINE two == Append(q, c)
  <2>1. two \in Seq(Calls) /\ WithQueue(file, file', in, two)
    BY <1>5, <1>6
  <2> HIDE DEF two
  <2>2. /\ file' \in AllFiles /\ file'[in].queue = two /\ S!PipesHeld(sched, file', watch)
        /\ \A k \in Fds : k # in => file'[k] = file[k]
    BY <1>2, <1>3, <1>4, <2>1, QueueChanged
  <2> QED BY <2>2 DEF two
<1>8. /\ given' \in Seq(Givens) /\ want' \in Wants
      /\ S!Lines(given', ran, file, queue) /\ S!Asked(given', ran, queue, want')
      /\ \A p \in Seq(Calls) : S!InLine(given, ran, p, in) => S!InLine(given', ran, Append(p, c), in)
      /\ want'[c] = l
      /\ \A p, w : S!InLine(given, ran, p, w) => \A i \in DOMAIN p : want'[p[i]] = want[p[i]]
  <2>1. in \in Fds \cup Loops \cup Calls /\ in \notin Calls /\ l # Pool /\ l \in Loops \cup {Pool}
    BY <1>4 DEF S!SchedulersAssumption
  <2>2. Gave(given, given', want, want', c, l, in)
    BY <1>1, <1>4, <2>1 DEF Gave, l
  <2> QED BY <1>2, <1>3, <2>1, <2>2, GiveStep
<1>9. S!Lines(given', ran, file', queue)
  <2>1. ASSUME NEW f \in Fds PROVE S!InLine(given', ran, file'[f].queue, f)
    <3>1. CASE f = in
      BY <1>5, <1>7, <1>8, <3>1
    <3>2. CASE f # in
      BY <1>7, <1>8, <3>2 DEF S!Lines
    <3> QED BY <3>1, <3>2
  <2> QED BY <1>8, <2>1 DEF S!Lines
<1>10. S!PipesAsked(sched, file', want')
  <2>1. S!PipesAsked(sched, file, want')
    BY <1>2, <1>8, PipesStayAsked
  <2> SUFFICES ASSUME NEW p \in Places, sched[p].loop # None,
                      NEW i \in DOMAIN file'[sched[p].in].queue
               PROVE  want'[file'[sched[p].in].queue[i]] = sched[p].loop
    BY DEF S!PipesAsked
  <2>2. CASE p = o
    <3>1. sched[p].in = in /\ sched[p].loop = l
      BY <2>2 DEF l, in
    <3>2. \A k \in DOMAIN q : want'[q[k]] = l
      BY <1>1, <2>1, <2>2, <3>1 DEF S!PipesAsked, q
    <3> QED BY <1>5, <1>7, <1>8, <3>1, <3>2
  <2>3. CASE p # o
    <3>1. sched[p].in \in Fds /\ sched[p].in # in
      BY <1>1, <1>2, <2>3, PipesApart DEF l, in
    <3> QED BY <1>7, <2>1, <3>1 DEF S!PipesAsked
  <2> QED BY <2>2, <2>3
<1>11. S!DueIsReadable(watch, due, file')
  <2> SUFFICES ASSUME NEW k \in Loops, NEW f \in due[k]
               PROVE  f \in watch[k] /\ file'[f].queue # <<>>
    BY DEF S!DueIsReadable
  <2>1. f \in watch[k] /\ file[f].queue # <<>> /\ f \in Fds
    BY <1>2, TypeFacts DEF S!DueIsReadable, AllWatches
  <2> QED BY <1>5, <1>7, <2>1
<1>12. S!TypeOK'
  BY <1>1, <1>2, <1>7, <1>8 DEF S!TypeOK, AllFiles, Givens, Wants
<1> QED BY <1>1, <1>2, <1>7, <1>8, <1>9, <1>10, <1>11, <1>12 DEF S!Inv, S!Held

LEMMA LooperPollStep == ASSUME S!Inv, NEW l \in Loops, S!LooperPoll(l) PROVE S!Inv'
<1>1. /\ due' = [due EXCEPT ![l] = {f \in watch[l] : file[f].queue # <<>>}] /\ due'[l] # {}
      /\ UNCHANGED <<platform, sched, file, watch, refs, queue, id, cache, want, given, ran, broken>>
  BY DEF S!LooperPoll, S!callVars, S!systemVars
<1>2. S!TypeOK /\ due \in [Loops -> SUBSET Fds] /\ watch \in [Loops -> SUBSET Fds]
  BY DEF S!Inv, S!TypeOK
<1>3. /\ due' \in [Loops -> SUBSET Fds] /\ \A k \in Loops : k # l => due'[k] = due[k]
      /\ due'[l] = {f \in watch[l] : file[f].queue # <<>>}
  BY <1>1, <1>2
<1>4. platform = "android"
  BY <1>1, <1>3 DEF S!Inv, S!NoPipes
<1>5. S!Held(sched, file, watch, refs, want) /\ S!DueIsReadable(watch, due, file)
  BY <1>4 DEF S!Inv
<1>6. S!DueIsReadable(watch, due', file)
  <2> SUFFICES ASSUME NEW k \in Loops PROVE due'[k] \subseteq watch[k] /\ \A f \in due'[k] : file[f].queue # <<>>
    BY DEF S!DueIsReadable
  <2>1. CASE k = l
    BY <1>3, <2>1
  <2>2. CASE k # l
    BY <1>3, <1>5, <2>2 DEF S!DueIsReadable
  <2> QED BY <2>1, <2>2
<1>7. S!TypeOK'
  BY <1>1, <1>2, <1>3 DEF S!TypeOK
<1> QED BY <1>1, <1>4, <1>5, <1>6, <1>7 DEF S!Inv, S!Held

LEMMA LooperCallbackStep == ASSUME S!Inv, NEW l \in Loops, S!LooperCallback(l) PROVE S!Inv'
<1>1. PICK f \in due[l] :
        /\ due' = [due EXCEPT ![l] = @ \ {f}]
        /\ IF file[f].end = "read" /\ file[f].queue # <<>>
             THEN /\ file' = [file EXCEPT ![f].queue = Tail(@)]
                  /\ ran' = Append(ran, Run_(Head(file[f].queue), l))
                  /\ UNCHANGED broken
             ELSE broken' = TRUE /\ UNCHANGED <<file, ran>>
        /\ UNCHANGED <<platform, sched, watch, refs, queue, id, cache, want, given>>
  BY DEF S!LooperCallback, S!Runs, Run_, S!systemVars
<1>2. platform = "android"
  BY DEF S!Inv, S!NoPipes
<1>3. /\ S!TypeOK /\ S!Members(sched) /\ S!PipesHeld(sched, file, watch) /\ S!RefsCounted(sched, refs)
      /\ S!PipesAsked(sched, file, want) /\ S!DueIsReadable(watch, due, file)
      /\ S!Lines(given, ran, file, queue) /\ S!Asked(given, ran, queue, want) /\ ~broken
  BY <1>2 DEF S!Inv, S!Held
<1>4. /\ sched \in AllSchedulers /\ file \in AllFiles /\ due \in [Loops -> SUBSET Fds]
      /\ given \in Seq(Givens) /\ ran \in Seq(Runs_) /\ want \in Wants /\ \A k \in Fds : file[k].queue \in Seq(Calls)
  BY <1>3, TypeFacts DEF AllWatches
<1>5. f \in Fds /\ f \in watch[l] /\ file[f].queue # <<>>
  BY <1>3, <1>4 DEF S!DueIsReadable
<1>6. PICK o \in Places : sched[o].loop = l /\ sched[o].in = f
  BY <1>3, <1>5 DEF S!PipesHeld
<1>7. l # None /\ l \in Loops \cup {Pool}
  BY DEF S!SchedulersAssumption
<1>8. file[f].end = "read"
  BY <1>3, <1>6, <1>7 DEF S!PipesHeld, S!HasPipe
<1> DEFINE q == file[f].queue
<1>9. /\ q \in Seq(Calls) /\ q # <<>> /\ S!InLine(given, ran, q, f)
      /\ \A i \in DOMAIN q : want[q[i]] = l
  BY <1>3, <1>4, <1>5, <1>6, <1>7 DEF S!Lines, S!PipesAsked
<1>10. WithQueue(file, file', f, Tail(q)) /\ ran' = Append(ran, Run_(Head(q), l)) /\ ~broken'
  BY <1>1, <1>3, <1>5, <1>8 DEF WithQueue
<1> DEFINE rest == Tail(q)
<1> HIDE DEF q
<1>11. /\ rest \in Seq(Calls) /\ want[Head(q)] = l
       /\ \A i \in DOMAIN rest : want[rest[i]] = l
  BY <1>9, TailFacts
<1>12. rest = Tail(q)
  OBVIOUS
<1> HIDE DEF rest
<1>13. /\ file' \in AllFiles /\ file'[f].queue = rest /\ S!PipesHeld(sched, file', watch)
       /\ \A k \in Fds : k # f => file'[k] = file[k]
  <2>1. rest \in Seq(Calls) /\ WithQueue(file, file', f, rest)
    BY <1>10, <1>11, <1>12
  <2> QED BY <1>3, <1>4, <1>5, <2>1, QueueChanged
<1>14. /\ ran' \in Seq(Runs_) /\ S!RanInOrder(given, ran') /\ S!InLine(given, ran', rest, f)
       /\ \A u, w : w # f /\ S!InLine(given, ran, u, w) => S!InLine(given, ran', u, w)
       /\ OnAsked(ran', want)
  <2>1. RanFirst(ran, ran', want, q, rest, l)
    BY <1>9, <1>10, <1>11, <1>12 DEF RanFirst
  <2>2. S!Lines(given, ran, file, queue) /\ S!Asked(given, ran, queue, want)
        /\ given \in Seq(Givens) /\ ran \in Seq(Runs_)
    BY <1>3, <1>4
  <2>3. q \in Seq(Calls) /\ S!InLine(given, ran, q, f)
    BY <1>9
  <2> QED BY <1>7, <2>1, <2>2, <2>3, RunStep
<1>15. S!Lines(given, ran', file', queue)
  <2>1. ASSUME NEW k \in Fds PROVE S!InLine(given, ran', file'[k].queue, k)
    <3>1. CASE k = f
      BY <1>13, <1>14, <3>1
    <3>2. CASE k # f
      BY <1>3, <1>13, <1>14, <3>2 DEF S!Lines
    <3> QED BY <3>1, <3>2
  <2>2. ASSUME NEW k \in Loops PROVE S!InLine(given, ran', queue[k], k)
    <3>1. k # f /\ S!InLine(given, ran, queue[k], k)
      BY <1>3, <1>5 DEF S!Lines, S!SchedulersAssumption
    <3> QED BY <1>14, <3>1
  <2> QED BY <1>3, <1>14, <2>1, <2>2 DEF S!Lines
<1>16. S!Asked(given, ran', queue, want)
  BY <1>3, <1>14 DEF S!Asked, OnAsked
<1>17. S!PipesAsked(sched, file', want)
  <2> SUFFICES ASSUME NEW p \in Places, sched[p].loop # None,
                      NEW i \in DOMAIN file'[sched[p].in].queue
               PROVE  want[file'[sched[p].in].queue[i]] = sched[p].loop
    BY DEF S!PipesAsked
  <2>1. CASE p = o
    BY <1>6, <1>11, <1>13, <2>1
  <2>2. CASE p # o
    <3>1. sched[p].in \in Fds /\ sched[p].in # f
      BY <1>3, <1>6, <1>7, <2>2, PipesApart
    <3> QED BY <1>3, <1>13, <3>1 DEF S!PipesAsked
  <2> QED BY <2>1, <2>2
<1>18. /\ due' \in [Loops -> SUBSET Fds] /\ due'[l] = due[l] \ {f}
       /\ \A k \in Loops : k # l => due'[k] = due[k]
  BY <1>1, <1>4
<1>19. S!DueIsReadable(watch, due', file')
  <2> SUFFICES ASSUME NEW k \in Loops, NEW e \in due'[k]
               PROVE  e \in watch[k] /\ file'[e].queue # <<>>
    BY DEF S!DueIsReadable
  <2>1. e \in due[k] /\ (k = l => e # f) /\ e \in Fds
    BY <1>4, <1>18
  <2>2. e \in watch[k] /\ file[e].queue # <<>>
    BY <1>3, <2>1 DEF S!DueIsReadable
  <2>3. PICK p \in Places : sched[p].loop = k /\ sched[p].in = e
    BY <1>3, <2>1, <2>2 DEF S!PipesHeld
  <2>4. k # None
    BY DEF S!SchedulersAssumption
  <2>5. CASE p = o
    BY <1>6, <1>13, <2>1, <2>2, <2>3, <2>5
  <2>6. CASE p # o
    <3>1. sched[p].in # sched[o].in
      BY <1>3, <1>6, <1>7, <2>3, <2>4, <2>6, PipesApart
    <3> QED BY <1>6, <1>13, <2>1, <2>2, <2>3, <3>1
  <2> QED BY <2>5, <2>6
<1>20. S!TypeOK'
  BY <1>1, <1>3, <1>10, <1>13, <1>14, <1>18 DEF S!TypeOK, AllFiles, Runs_
<1> QED BY <1>1, <1>2, <1>3, <1>10, <1>13, <1>15, <1>16, <1>17, <1>19, <1>20 DEF S!Inv, S!Held

-----------------------------------------------------------------------------
LEMMA RunLoopConstructStep ==
  ASSUME S!Inv, NEW o \in Places, NEW l \in Loops, S!RunLoopConstruct(o, l) PROVE S!Inv'
<1>1. /\ platform = "apple" /\ ~sched[o].alive
      /\ sched' = [sched EXCEPT ![o] = S!Scheduler(l, l)]
      /\ refs' = [refs EXCEPT ![l] = @ + 1]
      /\ UNCHANGED <<platform, file, watch, due, queue, id, cache, want, given, ran, broken>>
  BY DEF S!RunLoopConstruct, S!Alive, S!callVars
<1>2. /\ S!TypeOK /\ S!Members(sched) /\ S!NoPipes(sched, file, watch, due) /\ S!RefsCounted(sched, refs)
  BY <1>1 DEF S!Inv
<1>3. sched \in [Places -> S!SchedulerStates] /\ refs \in [Loops -> Int]
  BY <1>2 DEF S!TypeOK
<1>4. /\ sched' \in [Places -> S!SchedulerStates]
      /\ sched'[o].loop = l /\ sched'[o].of = l /\ sched'[o].in = -1 /\ sched'[o].out = -1
      /\ sched'[o].alive = TRUE /\ \A p \in Places : p # o => sched'[p] = sched[p]
      /\ l # None /\ sched[o].loop = None
  <2>1. sched[o] = S!NoScheduler
    BY <1>1, <1>2 DEF S!Members
  <2> QED BY <1>1, <1>3, <2>1, SchedulerRecords
<1>5. /\ refs' \in [Loops -> Int] /\ refs'[l] = refs[l] + 1
      /\ \A k \in Loops : k # l => refs'[k] = refs[k]
  BY <1>1, <1>3
<1>6. S!Members(sched') /\ S!NoPipes(sched', file, watch, due)
  BY <1>2, <1>4 DEF S!Members, S!NoPipes
<1>7. S!RefsCounted(sched', refs')
  <2> SUFFICES ASSUME NEW k \in Loops
               PROVE  refs'[k] = Cardinality({p \in Places : sched'[p].loop = k})
    BY CountsAre
  <2> DEFINE S1 == {p \in Places : sched[p].loop = k}
             S2 == {p \in Places : sched'[p].loop = k}
  <2>1. refs[k] = Cardinality(S1) /\ k # None
    BY <1>2, CountsAre, SchedulerRecords
  <2>2. CASE k = l
    <3>1. S2 = S1 \cup {o} /\ o \notin S1
      BY <1>4, <2>1, <2>2
    <3>2. Cardinality(S1 \cup {o}) = Cardinality(S1) + 1
      BY <3>1, OneMore
    <3> QED BY <1>5, <2>1, <2>2, <3>1, <3>2
  <2>3. CASE k # l
    <3>1. S2 = S1
      BY <1>4, <2>1, <2>3
    <3> QED BY <1>5, <2>1, <2>3, <3>1
  <2> QED BY <2>2, <2>3
<1>8. S!TypeOK'
  BY <1>1, <1>2, <1>4, <1>5 DEF S!TypeOK
<1> QED BY <1>1, <1>6, <1>7, <1>8 DEF S!Inv

LEMMA RunLoopDestroyStep ==
  ASSUME S!Inv, NEW o \in Places, S!RunLoopDestroy(o) PROVE S!Inv'
<1> DEFINE l == sched[o].loop
<1>1. /\ platform = "apple" /\ sched[o].alive
      /\ sched' = [sched EXCEPT ![o] = S!NoScheduler]
      /\ refs' = [refs EXCEPT ![l] = @ - 1]
      /\ UNCHANGED <<platform, file, watch, due, queue, id, cache, want, given, ran, broken>>
  BY DEF S!RunLoopDestroy, S!Alive, S!callVars
<1>2. /\ S!TypeOK /\ S!Members(sched) /\ S!NoPipes(sched, file, watch, due) /\ S!RefsCounted(sched, refs)
  BY <1>1 DEF S!Inv
<1>3. sched \in [Places -> S!SchedulerStates] /\ refs \in [Loops -> Int]
  BY <1>2 DEF S!TypeOK
<1>4. /\ sched' \in [Places -> S!SchedulerStates]
      /\ sched'[o] = S!NoScheduler /\ sched'[o].loop = None /\ sched'[o].of = None
      /\ sched'[o].in = -1 /\ sched'[o].out = -1 /\ sched'[o].alive = FALSE
      /\ \A p \in Places : p # o => sched'[p] = sched[p]
  BY <1>1, <1>3, SchedulerRecords
<1>5. l \in Loops
  BY <1>1, <1>2, <1>3 DEF S!NoPipes, S!SchedulerStates
<1>6. /\ refs' \in [Loops -> Int] /\ refs'[l] = refs[l] - 1
      /\ \A k \in Loops : k # l => refs'[k] = refs[k]
  BY <1>1, <1>3, <1>5
<1>7. S!Members(sched') /\ S!NoPipes(sched', file, watch, due)
  BY <1>2, <1>4 DEF S!Members, S!NoPipes
<1>8. S!RefsCounted(sched', refs')
  <2> SUFFICES ASSUME NEW k \in Loops
               PROVE  refs'[k] = Cardinality({p \in Places : sched'[p].loop = k})
    BY CountsAre
  <2> DEFINE S1 == {p \in Places : sched[p].loop = k}
             S2 == {p \in Places : sched'[p].loop = k}
  <2>1. refs[k] = Cardinality(S1) /\ k # None
    BY <1>2, CountsAre, SchedulerRecords
  <2>2. CASE k = l
    <3>1. S2 = S1 \ {o} /\ o \in S1
      BY <1>4, <2>1, <2>2
    <3>2. Cardinality(S1 \ {o}) = Cardinality(S1) - 1
      BY <3>1, OneLess
    <3> QED BY <1>6, <2>1, <2>2, <3>1, <3>2
  <2>3. CASE k # l
    <3>1. S2 = S1
      BY <1>4, <2>1, <2>3
    <3> QED BY <1>6, <2>1, <2>3, <3>1
  <2> QED BY <2>2, <2>3
<1>9. S!TypeOK'
  BY <1>1, <1>2, <1>4, <1>6 DEF S!TypeOK
<1> QED BY <1>1, <1>7, <1>8, <1>9 DEF S!Inv

\* A loop that takes what it is given, or has gone.
\* The loop, if it is there, took c.
AllQueues == [Loops -> Seq(Calls)]
Took(q, q2, l, c) == q2 = q \/ q2 = [q EXCEPT ![l] = Append(q[l], c)]

LEMMA LoopGiven ==
  ASSUME NEW g \in Seq(Givens), NEW r \in Seq(Runs_), NEW wa \in Wants, NEW fs,
         NEW q \in AllQueues, S!Lines(g, r, fs, q), S!Asked(g, r, q, wa),
         NEW c \in Calls, NEW l \in Loops, NEW g2, NEW wa2, Gave(g, g2, wa, wa2, c, l, l),
         NEW q2, Took(q, q2, l, c)
  PROVE  /\ g2 \in Seq(Givens) /\ wa2 \in Wants /\ q2 \in AllQueues
         /\ S!Lines(g2, r, fs, q2) /\ S!Asked(g2, r, q2, wa2)
<1> USE DEF AllQueues
<1>1. l \in Fds \cup Loops \cup Calls /\ l \in Loops \cup {Pool}
  OBVIOUS
<1>2. /\ g2 \in Seq(Givens) /\ wa2 \in Wants
      /\ S!Lines(g2, r, fs, q) /\ S!Asked(g2, r, q, wa2)
      /\ \A p \in Seq(Calls) : S!InLine(g, r, p, l) => S!InLine(g2, r, Append(p, c), l)
      /\ wa2[c] = l
  BY <1>1, GiveStep
<1>3. CASE q2 = q
  BY <1>2, <1>3
<1>4. CASE q2 = [q EXCEPT ![l] = Append(q[l], c)]
  <2> DEFINE p == q[l]
             two == Append(p, c)
  <2>1. p \in Seq(Calls) /\ S!InLine(g, r, p, l) /\ \A i \in DOMAIN p : wa2[p[i]] = l
    BY <1>2 DEF S!Lines, S!Asked
  <2>2. q2 = [q EXCEPT ![l] = two]
    BY <1>4
  <2> HIDE DEF p
  <2>3. two \in Seq(Calls)
    BY <2>1, QueueFacts
  <2>4. \A i \in DOMAIN two : (i \in DOMAIN p /\ two[i] = p[i]) \/ two[i] = c
    BY <2>1, QueueFacts
  <2>5. /\ q2 \in [Loops -> Seq(Calls)] /\ q2[l] = two
        /\ \A k \in Loops : k # l => q2[k] = q[k]
    BY <2>2, <2>3
  <2>6. S!InLine(g2, r, two, l)
    BY <1>2, <2>1
  <2> HIDE DEF two
  <2>7. S!Lines(g2, r, fs, q2)
    <3>1. ASSUME NEW k \in Loops PROVE S!InLine(g2, r, q2[k], k)
      <4>1. CASE k = l
        BY <2>5, <2>6, <4>1
      <4>2. CASE k # l
        BY <1>2, <2>5, <4>2 DEF S!Lines
      <4> QED BY <4>1, <4>2
    <3> QED BY <1>2, <3>1 DEF S!Lines
  <2>8. S!Asked(g2, r, q2, wa2)
    <3>1. ASSUME NEW k \in Loops, NEW i \in DOMAIN q2[k] PROVE wa2[q2[k][i]] = k
      <4>1. CASE k = l
        BY <1>2, <2>1, <2>5, <2>4, <4>1
      <4>2. CASE k # l
        BY <1>2, <2>5, <4>2 DEF S!Asked
      <4> QED BY <4>1, <4>2
    <3> QED BY <1>2, <3>1 DEF S!Asked
  <2> QED BY <1>2, <2>5, <2>7, <2>8
<1> QED BY <1>3, <1>4 DEF Took

\* operator() of the schedulers that have no pipe.
LEMMA QueueScheduleStep ==
  ASSUME S!Inv, NEW o \in Places, NEW c \in Calls, platform # "android", sched[o].alive,
         want[c] = None, want' = [want EXCEPT ![c] = sched[o].of],
         given' = Append(given, Given_(c, sched[o].loop)),
         queue' = queue \/ queue' = [queue EXCEPT ![sched[o].loop] = Append(@, c)],
         UNCHANGED <<platform, sched, file, watch, due, refs, id, cache, ran, broken>>
  PROVE  S!Inv'
<1> DEFINE l == sched[o].loop
<1>1. /\ S!TypeOK /\ S!Members(sched) /\ S!NoPipes(sched, file, watch, due)
      /\ S!Lines(given, ran, file, queue) /\ S!Asked(given, ran, queue, want)
  BY DEF S!Inv
<1>2. /\ sched \in AllSchedulers /\ given \in Seq(Givens) /\ ran \in Seq(Runs_)
      /\ want \in Wants /\ queue \in AllQueues
  BY <1>1, TypeFacts DEF AllQueues
<1>3. l \in Loops /\ sched[o].of = l
  BY <1>1, <1>2 DEF S!NoPipes, S!Members, AllSchedulers, S!SchedulerStates
<1>4. Gave(given, given', want, want', c, l, l)
  BY <1>3 DEF Gave, S!SchedulersAssumption
<1>5. Took(queue, queue', l, c)
  BY <1>3 DEF Took
<1> HIDE DEF l
<1>6. /\ given' \in Seq(Givens) /\ want' \in Wants /\ queue' \in AllQueues
      /\ S!Lines(given', ran, file, queue') /\ S!Asked(given', ran, queue', want')
  <2>1. S!Lines(given, ran, file, queue) /\ S!Asked(given, ran, queue, want) /\ l \in Loops
    BY <1>1, <1>3
  <2> QED BY <1>2, <1>4, <1>5, <2>1, LoopGiven
<1>7. S!TypeOK'
  BY <1>1, <1>6 DEF S!TypeOK, Givens, Wants, AllQueues
<1> QED BY <1>6, <1>7 DEF S!Inv, S!Held

LEMMA RunLoopScheduleStep ==
  ASSUME S!Inv, NEW o \in Places, NEW c \in Calls, S!RunLoopSchedule(o, c) PROVE S!Inv'
<1>1. /\ platform # "android" /\ sched[o].alive /\ want[c] = None
      /\ want' = [want EXCEPT ![c] = sched[o].of]
      /\ given' = Append(given, Given_(c, sched[o].loop))
      /\ queue' = [queue EXCEPT ![sched[o].loop] = Append(@, c)]
      /\ UNCHANGED <<platform, sched, file, watch, due, refs, id, cache, ran, broken>>
  BY DEF S!RunLoopSchedule, S!Alive, S!IsNew, S!Given, Given_
<1> QED BY <1>1, QueueScheduleStep

LEMMA XamlScheduleStep ==
  ASSUME S!Inv, NEW o \in Places, NEW c \in Calls, S!XamlSchedule(o, c) PROVE S!Inv'
<1>1. /\ platform # "android" /\ sched[o].alive /\ want[c] = None
      /\ want' = [want EXCEPT ![c] = sched[o].of]
      /\ given' = Append(given, Given_(c, sched[o].loop))
      /\ queue' = queue \/ queue' = [queue EXCEPT ![sched[o].loop] = Append(@, c)]
      /\ UNCHANGED <<platform, sched, file, watch, due, refs, id, cache, ran, broken>>
  BY DEF S!XamlSchedule, S!Alive, S!IsNew, S!Given, Given_
<1> QED BY <1>1, QueueScheduleStep

LEMMA StartWindowStep ==
  ASSUME S!Inv, ~Careless, NEW l \in Loops, NEW i \in Ids, S!StartWindow(l, i) PROVE S!Inv'
<1>1. /\ \A k \in Loops : id[k] # i
      /\ i \notin DOMAIN cache /\ id' = [id EXCEPT ![l] = i]
      /\ UNCHANGED <<platform, sched, file, watch, due, refs, queue, cache, want, given, ran, broken>>
  BY DEF S!StartWindow, S!callVars
<1>2. S!TypeOK /\ id \in [Loops -> Ids \cup {0, -1}] /\ S!WindowsCached(id, cache)
  BY DEF S!Inv, S!TypeOK
<1>3. /\ id' \in [Loops -> Ids \cup {0, -1}] /\ id'[l] = i
      /\ \A k \in Loops : k # l => id'[k] = id[k]
  BY <1>1, <1>2
<1>4. S!WindowsCached(id', cache)
  <2>1. ASSUME NEW k \in Loops, NEW m \in Loops, id'[k] = id'[m], id'[k] > 0 PROVE k = m
    BY <1>1, <1>2, <1>3, <2>1 DEF S!WindowsCached
  <2>2. ASSUME NEW k \in Loops, id'[k] \in DOMAIN cache PROVE cache[id'[k]] = k
    BY <1>1, <1>2, <1>3, <2>2 DEF S!WindowsCached
  <2> QED BY <2>1, <2>2 DEF S!WindowsCached
<1>5. S!TypeOK'
  BY <1>1, <1>2, <1>3 DEF S!TypeOK
<1> QED BY <1>1, <1>4, <1>5 DEF S!Inv, S!Held

LEMMA EndWindowStep ==
  ASSUME S!Inv, NEW l \in Loops, S!EndWindow(l) PROVE S!Inv'
<1>1. /\ id' = [id EXCEPT ![l] = -1] /\ queue' = [queue EXCEPT ![l] = <<>>]
      /\ UNCHANGED <<platform, sched, file, watch, due, refs, cache, want, given, ran, broken>>
  BY DEF S!EndWindow, S!callVars
<1>2. /\ S!TypeOK /\ id \in [Loops -> Ids \cup {0, -1}] /\ S!WindowsCached(id, cache)
      /\ queue \in [Loops -> Seq(Calls)] /\ DOMAIN cache \subseteq Ids
      /\ S!Lines(given, ran, file, queue) /\ S!Asked(given, ran, queue, want)
  BY DEF S!Inv, S!TypeOK
<1>3. /\ id' \in [Loops -> Ids \cup {0, -1}] /\ id'[l] = -1
      /\ \A k \in Loops : k # l => id'[k] = id[k]
      /\ -1 \notin DOMAIN cache
  BY <1>1, <1>2 DEF S!SchedulersAssumption
<1>4. /\ queue' \in [Loops -> Seq(Calls)] /\ queue'[l] = <<>>
      /\ \A k \in Loops : k # l => queue'[k] = queue[k]
  <2>1. <<>> \in Seq(Calls)
    OBVIOUS
  <2> QED BY <1>1, <1>2, <2>1
<1>5. S!WindowsCached(id', cache)
  <2>1. ASSUME NEW k \in Loops, NEW m \in Loops, id'[k] = id'[m], id'[k] > 0 PROVE k = m
    <3>1. k # l /\ m # l
      BY <1>3, <2>1
    <3>2. id[k] = id[m] /\ id[k] > 0
      BY <1>3, <2>1, <3>1
    <3> QED BY <1>2, <3>2 DEF S!WindowsCached
  <2>2. ASSUME NEW k \in Loops, id'[k] \in DOMAIN cache PROVE cache[id'[k]] = k
    BY <1>2, <1>3, <2>2 DEF S!WindowsCached
  <2> QED BY <2>1, <2>2 DEF S!WindowsCached
<1>6. S!Lines(given, ran, file, queue')
  <2>1. Shortened(file, file)
    BY DEF Shortened
  <2>2. \A k \in Loops : queue'[k] = queue[k] \/ queue'[k] = <<>>
    BY <1>4
  <2> QED BY <1>2, <2>1, <2>2, LinesEmptied
<1>7. S!Asked(given, ran, queue', want)
  <2>1. ASSUME NEW k \in Loops, NEW i \in DOMAIN queue'[k] PROVE want[queue'[k][i]] = k
    <3>1. k # l
      BY <1>4
    <3> QED BY <1>2, <1>4, <3>1 DEF S!Asked
  <2> QED BY <1>2, <2>1 DEF S!Asked
<1>8. S!TypeOK'
  BY <1>1, <1>2, <1>3, <1>4 DEF S!TypeOK
<1> QED BY <1>1, <1>5, <1>6, <1>7, <1>8 DEF S!Inv, S!Held

LEMMA GetForCurrentWindowStep ==
  ASSUME S!Inv, NEW o \in Places, NEW l \in Loops, S!GetForCurrentWindow(o, l) PROVE S!Inv'
<1>1. /\ platform = "windows" /\ ~sched[o].alive /\ id[l] > 0
      /\ cache' = [i \in DOMAIN cache \cup {id[l]} |-> IF i = id[l] THEN S!Cached(l) ELSE cache[i]]
      /\ sched' = [sched EXCEPT ![o] = S!Scheduler(S!Cached(l), l)]
      /\ UNCHANGED <<platform, file, watch, due, refs, queue, id, want, given, ran, broken>>
  BY DEF S!GetForCurrentWindow, S!Alive, S!callVars
<1>2. /\ S!TypeOK /\ S!Members(sched) /\ S!NoPipes(sched, file, watch, due) /\ S!WindowsCached(id, cache)
      /\ sched \in [Places -> S!SchedulerStates] /\ id \in [Loops -> Ids \cup {0, -1}]
      /\ DOMAIN cache \subseteq Ids /\ cache \in [DOMAIN cache -> Loops]
  BY <1>1 DEF S!Inv, S!TypeOK
<1>3. S!Cached(l) = l
  BY <1>2 DEF S!Cached, S!WindowsCached
<1>4. id[l] \in Ids
  BY <1>1, <1>2
<1>5. /\ DOMAIN cache' = DOMAIN cache \cup {id[l]} /\ cache'[id[l]] = l
      /\ \A i \in DOMAIN cache : i # id[l] => cache'[i] = cache[i]
  BY <1>1, <1>3
<1>6. DOMAIN cache' \subseteq Ids /\ cache' \in [DOMAIN cache' -> Loops]
  BY <1>1, <1>2, <1>3, <1>4
<1>7. S!WindowsCached(id, cache')
  <2>1. ASSUME NEW k \in Loops, id[k] \in DOMAIN cache' PROVE cache'[id[k]] = k
    BY <1>1, <1>2, <1>5, <2>1 DEF S!WindowsCached
  <2> QED BY <1>2, <2>1 DEF S!WindowsCached
<1>8. /\ sched' \in [Places -> S!SchedulerStates]
      /\ sched'[o].loop = l /\ sched'[o].of = l /\ sched'[o].in = -1 /\ sched'[o].out = -1
      /\ sched'[o].alive = TRUE /\ \A p \in Places : p # o => sched'[p] = sched[p]
      /\ l # None
  BY <1>1, <1>2, <1>3, SchedulerRecords
<1>9. S!Members(sched') /\ S!NoPipes(sched', file, watch, due)
  BY <1>2, <1>8 DEF S!Members, S!NoPipes
<1>10. S!TypeOK'
  BY <1>1, <1>2, <1>6, <1>8 DEF S!TypeOK
<1> QED BY <1>1, <1>7, <1>9, <1>10 DEF S!Inv

LEMMA LoopRunsStep ==
  ASSUME S!Inv, NEW l \in Loops, S!LoopRuns(l) PROVE S!Inv'
<1> DEFINE q == queue[l]
           rest == Tail(q)
<1>1. /\ q # <<>> /\ queue' = [queue EXCEPT ![l] = rest]
      /\ ran' = Append(ran, Run_(Head(q), l))
      /\ UNCHANGED <<platform, sched, file, watch, due, refs, id, cache, want, given, broken>>
  BY DEF S!LoopRuns, S!Runs, Run_
<1>2. /\ S!TypeOK /\ S!Lines(given, ran, file, queue) /\ S!Asked(given, ran, queue, want)
  BY DEF S!Inv
<1>3. /\ given \in Seq(Givens) /\ ran \in Seq(Runs_) /\ want \in Wants /\ queue \in [Loops -> Seq(Calls)]
      /\ q \in Seq(Calls) /\ S!InLine(given, ran, q, l) /\ \A i \in DOMAIN q : want[q[i]] = l
  BY <1>2, TypeFacts DEF S!Lines, S!Asked
<1> HIDE DEF q
<1>4. rest \in Seq(Calls) /\ want[Head(q)] = l /\ \A i \in DOMAIN rest : want[rest[i]] = l
  BY <1>1, <1>3, TailFacts
<1>5. RanFirst(ran, ran', want, q, rest, l) /\ l \in Loops \cup {Pool}
  BY <1>1, <1>4 DEF RanFirst
<1> HIDE DEF rest
<1>6. /\ ran' \in Seq(Runs_) /\ S!RanInOrder(given, ran') /\ S!InLine(given, ran', rest, l)
      /\ \A u, w : w # l /\ S!InLine(given, ran, u, w) => S!InLine(given, ran', u, w)
      /\ OnAsked(ran', want)
  <2>1. l \in Loops \cup {Pool}
    OBVIOUS
  <2> QED BY <1>2, <1>3, <1>5, <2>1, RunStep
<1>7. /\ queue' \in [Loops -> Seq(Calls)] /\ queue'[l] = rest
      /\ \A k \in Loops : k # l => queue'[k] = queue[k]
  BY <1>1, <1>3, <1>4
<1>8. S!Lines(given, ran', file, queue')
  <2>1. ASSUME NEW k \in Loops PROVE S!InLine(given, ran', queue'[k], k)
    <3>1. CASE k = l
      BY <1>6, <1>7, <3>1
    <3>2. CASE k # l
      BY <1>2, <1>6, <1>7, <3>2 DEF S!Lines
    <3> QED BY <3>1, <3>2
  <2>2. ASSUME NEW f \in Fds PROVE S!InLine(given, ran', file[f].queue, f)
    <3>1. f # l /\ S!InLine(given, ran, file[f].queue, f)
      BY <1>2 DEF S!Lines, S!SchedulersAssumption
    <3> QED BY <1>6, <3>1
  <2> QED BY <1>2, <1>6, <2>1, <2>2 DEF S!Lines
<1>9. S!Asked(given, ran', queue', want)
  <2>1. ASSUME NEW k \in Loops, NEW i \in DOMAIN queue'[k] PROVE want[queue'[k][i]] = k
    <3>1. CASE k = l
      BY <1>4, <1>7, <3>1
    <3>2. CASE k # l
      BY <1>2, <1>7, <3>2 DEF S!Asked
    <3> QED BY <3>1, <3>2
  <2> QED BY <1>2, <1>6, <2>1 DEF S!Asked, OnAsked
<1>10. S!TypeOK'
  BY <1>1, <1>2, <1>6, <1>7 DEF S!TypeOK, Runs_
<1> QED BY <1>1, <1>8, <1>9, <1>10 DEF S!Inv, S!Held

LEMMA ThreadpoolStep ==
  ASSUME S!Inv, NEW c \in Calls, S!Threadpool(c) PROVE S!Inv'
<1>1. /\ want[c] = None /\ want' = [want EXCEPT ![c] = Pool]
      /\ given' = Append(given, Given_(c, c))
      /\ UNCHANGED <<platform, sched, file, watch, due, refs, queue, id, cache, ran, broken>>
  BY DEF S!Threadpool, S!IsNew, S!Given, Given_, S!systemVars
<1>2. /\ S!TypeOK /\ S!Lines(given, ran, file, queue) /\ S!Asked(given, ran, queue, want)
  BY DEF S!Inv
<1>3. given \in Seq(Givens) /\ ran \in Seq(Runs_) /\ want \in Wants
  BY <1>2, TypeFacts
<1>4. Gave(given, given', want, want', c, Pool, c)
  BY <1>1 DEF Gave
<1>5. c \in Fds \cup Loops \cup Calls /\ Pool \in Loops \cup {Pool}
  OBVIOUS
<1>6. /\ given' \in Seq(Givens) /\ want' \in Wants
      /\ S!Lines(given', ran, file, queue) /\ S!Asked(given', ran, queue, want')
      /\ \A p, w : S!InLine(given, ran, p, w) => \A i \in DOMAIN p : want'[p[i]] = want[p[i]]
  BY <1>2, <1>3, <1>4, <1>5, GiveStep
<1>7. platform = "android" => S!Held(sched, file, watch, refs, want')
  <2>1. S!PipesHeld(sched, file, watch) /\ S!PipesAsked(sched, file, want) => S!PipesAsked(sched, file, want')
    BY <1>2, <1>6, PipesStayAsked
  <2> QED BY <2>1 DEF S!Inv, S!Held
<1>8. S!TypeOK'
  BY <1>1, <1>2, <1>6 DEF S!TypeOK, Givens, Wants
<1> QED BY <1>1, <1>6, <1>7, <1>8 DEF S!Inv

LEMMA PoolRunsStep ==
  ASSUME S!Inv, NEW c \in Calls, S!PoolRuns(c) PROVE S!Inv'
<1>1. /\ want[c] = Pool /\ \A x \in DOMAIN ran : ran[x].call # c
      /\ ran' = Append(ran, Run_(c, Pool))
      /\ UNCHANGED <<platform, sched, file, watch, due, refs, queue, id, cache, want, given, broken>>
  BY DEF S!PoolRuns, S!Ran, S!Runs, Run_, S!systemVars
<1>2. /\ S!TypeOK /\ S!Lines(given, ran, file, queue) /\ S!Asked(given, ran, queue, want)
  BY DEF S!Inv
<1>3. ran \in Seq(Runs_)
  BY <1>2, TypeFacts
<1>4. /\ S!RanInOrder(given, ran')
      /\ \A p, w : w \notin Calls /\ S!InLine(given, ran, p, w) => S!InLine(given, ran', p, w)
  <2>1. S!Comes(given, c, c) /\ S!GivenOnce(given) /\ S!RanInOrder(given, ran)
    BY <1>1, <1>2 DEF S!Asked, S!Lines
  <2> QED BY <1>1, <1>3, <2>1, PoolKeeps
<1>5. S!Lines(given, ran', file, queue)
  <2>1. ASSUME NEW f \in Fds PROVE S!InLine(given, ran', file[f].queue, f)
    BY <1>2, <1>4 DEF S!Lines, S!SchedulersAssumption
  <2>2. ASSUME NEW k \in Loops PROVE S!InLine(given, ran', queue[k], k)
    BY <1>2, <1>4 DEF S!Lines, S!SchedulersAssumption
  <2> QED BY <1>2, <1>4, <2>1, <2>2 DEF S!Lines
<1>6. S!Asked(given, ran', queue, want) /\ ran' \in Seq(Runs_)
  <2>1. /\ ran' \in Seq(Runs_)
        /\ DOMAIN ran = 1 .. Len(ran) /\ DOMAIN ran' = 1 .. Len(ran) + 1 /\ Len(ran) \in Nat
        /\ \A k \in 1 .. Len(ran) : ran'[k] = ran[k]
        /\ ran'[Len(ran) + 1].call = c /\ ran'[Len(ran) + 1].on = Pool
    BY <1>1, <1>3, RunFacts
  <2>2. \A i \in 1 .. Len(ran) + 1 : i \in 1 .. Len(ran) \/ i = Len(ran) + 1
    BY <2>1
  <2>3. \A i \in DOMAIN ran' : ran'[i].on = want[ran'[i].call]
    BY <1>1, <1>2, <2>1, <2>2 DEF S!Asked
  <2> QED BY <1>2, <2>1, <2>3 DEF S!Asked
<1>7. S!TypeOK'
  BY <1>1, <1>2, <1>6 DEF S!TypeOK, Runs_
<1> QED BY <1>1, <1>5, <1>6, <1>7 DEF S!Inv, S!Held

LEMMA SchedulersStep == ~Careless /\ S!Inv /\ [S!Next]_(S!vars) => S!Inv'
<1> SUFFICES ASSUME ~Careless, S!Inv, [S!Next]_(S!vars) PROVE S!Inv'
  OBVIOUS
<1>1. ASSUME NEW o \in Places, NEW l \in Loops,
             S!LooperConstruct(o, l) \/ S!RunLoopConstruct(o, l) \/ S!GetForCurrentWindow(o, l)
      PROVE  S!Inv'
  BY <1>1, LooperConstructStep, RunLoopConstructStep, GetForCurrentWindowStep
<1>2. ASSUME NEW o \in Places, NEW from \in Places,
             S!LooperMoveConstruct(o, from) \/ S!LooperMoveAssign(o, from)
      PROVE  S!Inv'
  BY <1>2, LooperMoveConstructStep, LooperMoveAssignStep
<1>3. ASSUME NEW o \in Places, S!LooperDestroy(o) \/ S!RunLoopDestroy(o) PROVE S!Inv'
  BY <1>3, LooperDestroyStep, RunLoopDestroyStep
<1>4. ASSUME NEW o \in Places, NEW c \in Calls,
             S!LooperSchedule(o, c) \/ S!RunLoopSchedule(o, c) \/ S!XamlSchedule(o, c)
      PROVE  S!Inv'
  BY <1>4, LooperScheduleStep, RunLoopScheduleStep, XamlScheduleStep
<1>5. ASSUME NEW l \in Loops, S!LooperPoll(l) \/ S!LooperCallback(l) \/ S!LoopRuns(l) \/ S!EndWindow(l)
      PROVE  S!Inv'
  BY <1>5, LooperPollStep, LooperCallbackStep, LoopRunsStep, EndWindowStep
<1>6. ASSUME NEW l \in Loops, NEW i \in Ids, S!StartWindow(l, i) PROVE S!Inv'
  BY <1>6, StartWindowStep
<1>7. ASSUME NEW c \in Calls,
             \/ S!AndroidThreadpool(c) \/ S!AppleThreadpool(c) \/ S!WindowsThreadpool(c)
             \/ S!UnixThreadpool(c) \/ S!PoolRuns(c)
      PROVE  S!Inv'
  <2>1. S!Threadpool(c) \/ S!PoolRuns(c)
    BY <1>7 DEF S!AndroidThreadpool, S!AppleThreadpool, S!WindowsThreadpool, S!UnixThreadpool
  <2> QED BY <2>1, ThreadpoolStep, PoolRunsStep
<1>8. CASE UNCHANGED S!vars
  BY <1>8 DEF S!vars, S!Inv, S!TypeOK
<1> QED BY <1>1, <1>2, <1>3, <1>4, <1>5, <1>6, <1>7, <1>8 DEF S!Next

LEMMA InvMeansAsked == S!Inv => S!RunsWhereAsked
<1> SUFFICES ASSUME S!Inv PROVE S!RunsWhereAsked
  OBVIOUS
<1>1. /\ ~broken /\ S!Members(sched) /\ S!RanInOrder(given, ran)
      /\ \A i \in DOMAIN ran : ran[i].on = want[ran[i].call]
  BY DEF S!Inv, S!Lines, S!Asked
<1>2. ASSUME NEW i \in DOMAIN ran, NEW j \in DOMAIN ran, i < j
      PROVE  /\ ran[i].call # ran[j].call
             /\ \A k, n \in DOMAIN given :
                  /\ given[k].call = ran[i].call /\ given[n].call = ran[j].call
                  /\ given[k].via = given[n].via
                  => k < n
  <2>1. ran[i].call # ran[j].call
    BY <1>1, <1>2 DEF S!RanInOrder
  <2>2. ASSUME NEW k \in DOMAIN given, NEW n \in DOMAIN given,
               given[k].call = ran[i].call, given[n].call = ran[j].call,
               given[k].via = given[n].via
        PROVE  k < n
    <3>1. S!Comes(given, ran[i].call, given[k].via) /\ S!Comes(given, ran[j].call, given[k].via)
      BY <2>2 DEF S!Comes
    <3>2. S!Earlier(given, ran[i].call, ran[j].call)
      BY <1>1, <1>2, <3>1 DEF S!RanInOrder
    <3> QED BY <2>2, <3>2 DEF S!Earlier
  <2> QED BY <2>1, <2>2
<1>3. \A o \in Places : sched[o].loop = sched[o].of
  BY <1>1 DEF S!Members
<1> QED BY <1>1, <1>2, <1>3 DEF S!RunsWhereAsked

LEMMA InvMeansHeld == S!Inv => S!ResourcesAreHeld
<1> SUFFICES ASSUME S!Inv, platform \in {"android", "apple"} PROVE S!ResourcesAreHeld
  BY DEF S!ResourcesAreHeld
<1>1. S!TypeOK /\ sched \in AllSchedulers /\ file \in AllFiles /\ watch \in AllWatches
  BY TypeFacts DEF S!Inv
<1>2. S!RefsCounted(sched, refs)
  BY DEF S!Inv, S!Held
<1>3. \A l \in Loops : refs[l] = S!Cardinality(S!Holding(l))
  BY <1>2, CountsAre, CardinalityOf DEF S!Holding
<1>4. CASE platform = "android"
  <2>1. S!PipesHeld(sched, file, watch)
    BY <1>4 DEF S!Inv, S!Held
  <2>2. ASSUME NEW l \in Loops
        PROVE  watch[l] = {sched[o].in : o \in S!Holding(l)} \ {-1}
    <3>1. watch[l] \subseteq Fds /\ -1 \notin Fds /\ l # None
      BY <1>1, SchedulerRecords DEF AllWatches
    <3>2. ASSUME NEW o \in S!Holding(l) PROVE sched[o].in \in watch[l]
      <4>1. o \in Places /\ sched[o].loop = l
        BY DEF S!Holding
      <4>2. sched[o].in \in Fds
        BY <2>1, <3>1, <4>1 DEF S!PipesHeld, S!HasPipe
      <4> QED BY <2>1, <4>1, <4>2 DEF S!PipesHeld
    <3>3. ASSUME NEW f \in watch[l] PROVE \E o \in S!Holding(l) : sched[o].in = f
      BY <2>1, <3>1 DEF S!PipesHeld, S!Holding
    <3> QED BY <3>1, <3>2, <3>3
  <2>3. ASSUME NEW f \in Fds \ S!FreeFds
        PROVE  S!Cardinality({o \in Places : f \in {sched[o].in, sched[o].out}}) = 1
    <3>1. PICK o \in Places : sched[o].loop # None /\ f \in {sched[o].in, sched[o].out}
      BY <2>1 DEF S!PipesHeld, S!FreeFds
    <3>2. ASSUME NEW p \in Places, f \in {sched[p].in, sched[p].out} PROVE p = o
      <4>1. sched[p].loop # None
        BY <2>1, <3>2, SchedulerRecords DEF S!PipesHeld
      <4> QED BY <2>1, <3>1, <3>2, <4>1 DEF S!PipesHeld
    <3>3. {p \in Places : f \in {sched[p].in, sched[p].out}} = {o}
      BY <3>1, <3>2
    <3>4. S!Cardinality({o}) = 1
      BY FS_Singleton, CardinalityOf
    <3> QED BY <3>3, <3>4
  <2>4. ASSUME NEW o \in Places, NEW f \in {sched[o].in, sched[o].out} \ {-1}
        PROVE  f \notin S!FreeFds
    <3>1. S!HasPipe(sched[o], file)
      BY <2>1, <2>4 DEF S!PipesHeld
    <3> QED BY <3>1 DEF S!HasPipe, S!FreeFds
  <2> QED BY <1>3, <2>2, <2>3, <2>4 DEF S!ResourcesAreHeld
<1>5. CASE platform = "apple"
  <2>1. S!NoPipes(sched, file, watch, due)
    BY <1>5 DEF S!Inv
  <2>2. ASSUME NEW l \in Loops
        PROVE  watch[l] = {sched[o].in : o \in S!Holding(l)} \ {-1}
    BY <2>1 DEF S!NoPipes, S!Holding
  <2>3. Fds \ S!FreeFds = {}
    BY <2>1 DEF S!NoPipes, S!FreeFds
  <2> QED BY <1>3, <2>1, <2>2, <2>3 DEF S!ResourcesAreHeld, S!NoPipes
<1> QED BY <1>4, <1>5

(***************************************************************************)
(* As long as the program does not destroy a looper's scheduler while an   *)
(* event of it is due, and ids of threads with windows do not come back,   *)
(* every callable runs at most once, where it was asked to and in the      *)
(* order of its scheduler, and pipes and references to loops are held by   *)
(* the schedulers that are alive, each by one.                             *)
(***************************************************************************)
THEOREM CallablesArrive ==
  ASSUME ~Careless
  PROVE  Spec => []RunsWhereAsked
<1>1. Init => S!Inv
  BY SchedulersInit DEF Init
<1>2. S!Inv /\ [Next]_libraryVars => S!Inv'
  <2> SUFFICES ASSUME S!Inv, [Next]_libraryVars PROVE [S!Next]_(S!vars)
    BY SchedulersStep
  <2> QED BY DEF Next, libraryVars, schedulerVars, S!vars
<1>3. S!Inv => RunsWhereAsked
  BY InvMeansAsked, InvMeansHeld DEF RunsWhereAsked
<1> QED BY <1>1, <1>2, <1>3, PTL DEF Spec
=============================================================================
