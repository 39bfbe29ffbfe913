-------------------------------- MODULE Library --------------------------------
(***************************************************************************)
(* The classes and functions of the library that stand for themselves, each *)
(* driven by a program of its own: subject names the one of a behaviour,   *)
(* and the others stay as they begin.  Every state of a module is a state  *)
(* of one of these programs, so the states add up and do not multiply.     *)
(***************************************************************************)
EXTENDS Naturals, Sequences

CONSTANTS
    Regions, Names, NoName, Cookies,                                \* TraceRegion
    Functions, Targets, Garbage, MaxInstances, SwapsFunctors,       \* InplaceFunction
    Threads, Standard, Own, HresultCategory, Facilities, Codes,
    FirstUseRaces, Null, Generic, CanceledCode,                     \* TaskConversions
    Objects, Addresses, NoAddress,                                  \* WeakTable
    Elements, Keys, MaxLen, MaxRange, Comparator,                   \* OrderedVectors
    Places, Loops, Ids, Calls, Fds, None, Pool, Careless,           \* Schedulers
    Modulus, Data, Numbers, MaxInput                                \* Algorithm

VARIABLES
    subject,
    build, enabled, nextCookie, session, sessions, uses, registered, control, copy, ending,
    region, events, overtaken, restarted,
    function, instances,
    storage, adder, added, operation, handler, result, of, misused,
    alive, map, cell, ticket, passed, current,
    kind, key, data, count,
    platform, sched, file, watch, due, refs, queue, id, cache, want, given, ran, broken,
    input

traceVars == <<build, enabled, nextCookie, session, sessions, uses, registered,
    control, copy, ending, region, events, overtaken, restarted>>
functionVars == <<function, instances>>
conversionVars == <<storage, adder, added, operation, handler, result, of,
    misused>>
tableVars == <<alive, map, cell, ticket, passed, current>>
vectorVars == <<kind, key, data, count>>
schedulerVars == <<platform, sched, file, watch, due, refs, queue, id, cache,
    want, given, ran, broken>>

libraryVars == <<subject, traceVars, functionVars, conversionVars, tableVars,
    vectorVars, schedulerVars, input>>

T == INSTANCE TraceRegion
I == INSTANCE InplaceFunction
C == INSTANCE TaskConversions
W == INSTANCE WeakTable
O == INSTANCE OrderedVectors
S == INSTANCE Schedulers WITH Objects <- Places
A == INSTANCE Algorithm WITH MaxRange <- MaxInput

ASSUME LibraryAssumption ==
    /\ T!TraceAssumption /\ I!InplaceAssumption /\ C!ConversionsAssumption
    /\ W!WeakTableAssumption /\ O!OrderedVectorsAssumption
    /\ S!SchedulersAssumption /\ A!AlgorithmAssumption

Subjects ==
    {"trace", "function", "conversions", "table", "vectors", "schedulers", "algorithm"}

\* The others begin in one of their initial states.
Is(s) == subject = s

Init ==
    /\ subject \in Subjects
    /\ T!Init /\ (Is("trace") \/ (build = "windows" /\ nextCookie = 0))
    /\ I!Init
    /\ C!Init /\ (Is("conversions") \/ of = "T")
    /\ W!Init
    /\ O!Init /\ (Is("vectors") \/ (kind = "sorted" /\ key = [e \in Elements |-> 1]))
    /\ S!Init /\ (Is("schedulers") \/ platform = "unix")
    /\ IF Is("algorithm") THEN A!Init ELSE input = [call |-> "none"]

\* A step of the subject leaves the others alone.
Next ==
    \/ /\ Is("trace") /\ T!Next
       /\ UNCHANGED <<subject, functionVars, conversionVars, tableVars, vectorVars, schedulerVars, input>>
    \/ /\ Is("function") /\ I!Next
       /\ UNCHANGED <<subject, traceVars, conversionVars, tableVars, vectorVars, schedulerVars, input>>
    \/ /\ Is("conversions") /\ C!Next
       /\ UNCHANGED <<subject, traceVars, functionVars, tableVars, vectorVars, schedulerVars, input>>
    \/ /\ Is("table") /\ W!Next
       /\ UNCHANGED <<subject, traceVars, functionVars, conversionVars, vectorVars, schedulerVars, input>>
    \/ /\ Is("vectors") /\ O!Next
       /\ UNCHANGED <<subject, traceVars, functionVars, conversionVars, tableVars, schedulerVars, input>>
    \/ /\ Is("schedulers") /\ S!Next
       /\ UNCHANGED <<subject, traceVars, functionVars, conversionVars, tableVars, vectorVars, input>>

Spec == Init /\ [][Next]_libraryVars

-----------------------------------------------------------------------------
(***************************************************************************)
(* trace_region: intervals pair up, whatever was moved.                    *)
(***************************************************************************)
IntervalsPair == T!IntervalsPair

(***************************************************************************)
(* trace_region of Windows: the provider is registered while the switch or *)
(* an active region needs it, until a constructor or a restart interferes. *)
(***************************************************************************)
RegisteredWhileNeeded == T!RegisteredWhileNeeded

(***************************************************************************)
(* trace_region of Windows: two claims of its comments, which do not hold. *)
(***************************************************************************)
ActiveRegionsAreRegistered == T!ActiveRegionsAreRegistered
StaysRegisteredInTurns == T!StaysRegisteredInTurns

(***************************************************************************)
(* inplace_function: targets are destroyed once, and called while whole.   *)
(***************************************************************************)
TargetsAreOwned == I!TargetsAreOwned /\ I!CallableIsWhole

(***************************************************************************)
(* task_conversions.h, expected.h, hresult.cpp: what became of an operation *)
(* survives every conversion on its way.                                   *)
(***************************************************************************)
OutcomeSurvives == C!OutcomeSurvives /\ C!CategoriesRoundTrip

(***************************************************************************)
(* weak_table: a ticket removes its own value or nothing.                  *)
(***************************************************************************)
TicketsFindTheirTable == W!TicketsFindTheirTable

(***************************************************************************)
(* sorted_vector, unique_vector: sorted, complete, and searchable.         *)
(***************************************************************************)
HoldsItsElements == O!HoldsItsElements

(***************************************************************************)
(* Platform schedulers: callables run once, in order, on the right thread, *)
(* and what the schedulers hold of the system is given back with them.     *)
(***************************************************************************)
RunsWhereAsked == S!RunsWhereAsked /\ S!ResourcesAreHeld

(***************************************************************************)
(* algorithm.h, math.h: the functions do what they are for.                *)
(***************************************************************************)
AgreeWithReference == Is("algorithm") => A!AgreeWithReference
=============================================================================
