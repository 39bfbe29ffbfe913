------------------------------- MODULE Schedulers -------------------------------
(***************************************************************************)
(* The schedulers of the platforms (threading/task_schedulers.h of         *)
(* Android, Apple, Windows and Unix): objects that take a callable to the  *)
(* loop of one thread, and threadpool_scheduler, which takes it anywhere.  *)
(*                                                                         *)
(* looper_scheduler owns a pipe through which pointers to callables go; its *)
(* read end is watched by the thread's looper.  run_loop_scheduler retains *)
(* the run loop.  xaml_scheduler is found in a map by the id of the thread *)
(* that asks; what an object of it stands for here is a reference.         *)
(*                                                                         *)
(* The loops, pipes and reference counts of the systems are external.      *)
(***************************************************************************)
EXTENDS Integers, Sequences, FiniteSets, FiniteSetsExt, SequencesExt

CONSTANTS
    Objects,        \* where the program keeps schedulers
    Loops,          \* threads with a loop or a window
    Ids,            \* thread ids
    Calls,          \* callables, each scheduled once
    Fds,            \* file descriptors, a set of numbers
    None,
    Pool,           \* the threads of the pool
    Careless        \* whether the program destroys a looper's scheduler while
                    \* an event of it is due, or has windows on threads that
                    \* get the id of an earlier one

SchedulersAssumption ==
    /\ IsFiniteSet(Objects)
    /\ Fds \subseteq Nat /\ IsFiniteSet(Fds)
    /\ Ids \subseteq Nat \ {0}
    /\ None \notin Loops /\ Pool \notin Loops \cup {None}
    /\ Calls \cap (Fds \cup Loops) = {} /\ Fds \cap Loops = {}
    /\ Careless \in BOOLEAN

VARIABLES
    platform,   \* "android", "apple", "windows" or "unix"
    sched,      \* sched[o]: the members of a scheduler
    file,       \* file[f]: what a descriptor stands for
    watch,      \* watch[l]: the descriptors a looper watches
    due,        \* due[l]: those whose callback it is about to call
    refs,       \* refs[l]: the references to a loop that schedulers hold
    queue,      \* queue[l]: the blocks and callables a loop holds
    id,         \* id[l]: the id of the thread, 0 before and -1 after it
    cache,      \* s_schedulers
    want,       \* want[c]: where a callable was to run
    given,      \* the callables in the order they were scheduled, each with the
                \* read end or the loop it went to
    ran,        \* what ran, and where
    broken      \* a callback read from what is not its pipe

vars == <<platform, sched, file, watch, due, refs, queue, id, cache, want, given, ran, broken>>
systemVars == <<refs, queue, id, cache>>

\* m_looper or m_runLoop with m_fd; "of" is the thread that asked for it.
NoScheduler == [alive |-> FALSE, loop |-> None, of |-> None, in |-> -1, out |-> -1]
Scheduler(l, asked) == [alive |-> TRUE, loop |-> l, of |-> asked, in |-> -1, out |-> -1]
Free == [end |-> "free", peer |-> -1, queue |-> <<>>]

SchedulerStates == [alive : BOOLEAN, loop : Loops \cup {None}, of : Loops \cup {None},
                    in : Fds \cup {-1}, out : Fds \cup {-1}]
FileStates == [end : {"free", "read", "write"}, peer : Fds \cup {-1}, queue : Seq(Calls)]

TypeOK ==
    /\ platform \in {"android", "apple", "windows", "unix"}
    /\ sched \in [Objects -> SchedulerStates]
    /\ file \in [Fds -> FileStates]
    /\ watch \in [Loops -> SUBSET Fds] /\ due \in [Loops -> SUBSET Fds]
    /\ refs \in [Loops -> Int]
    /\ queue \in [Loops -> Seq(Calls)]
    /\ id \in [Loops -> Ids \cup {0, -1}]
    /\ DOMAIN cache \subseteq Ids /\ cache \in [DOMAIN cache -> Loops]
    /\ want \in [Calls -> Loops \cup {None, Pool}]
    /\ given \in Seq([call : Calls, via : Fds \cup Loops \cup Calls])
    /\ ran \in Seq([call : Calls, on : Loops \cup {Pool}])
    /\ broken \in BOOLEAN

Init ==
    /\ platform \in {"android", "apple", "windows", "unix"}
    /\ sched = [o \in Objects |-> NoScheduler]
    /\ file = [f \in Fds |-> Free]
    /\ watch = [l \in Loops |-> {}] /\ due = [l \in Loops |-> {}]
    /\ refs = [l \in Loops |-> 0]
    /\ queue = [l \in Loops |-> <<>>]
    /\ id = [l \in Loops |-> 0]
    /\ cache = [i \in {} |-> None]
    /\ want = [c \in Calls |-> None]
    /\ given = <<>> /\ ran = <<>>
    /\ broken = FALSE

Alive(o) == sched[o].alive
IsNew(c) == want[c] = None
Given(c, l, via) ==
    /\ want' = [want EXCEPT ![c] = l]
    /\ given' = Append(given, [call |-> c, via |-> via])
Runs(c, l) == ran' = Append(ran, [call |-> c, on |-> l])
callVars == <<want, given, ran, broken>>

-----------------------------------------------------------------------------
(* Android.  Definitions named "Bug..." are wrong variants of the one that   *)
(* follows; no action uses them.                                             *)

FreeFds == {f \in Fds : file[f].end = "free"}

\* get_for_current_thread on the thread of l, and the constructor: pipe(), which
\* takes the lowest descriptors, ALooper_acquire and ALooper_addFd.
LooperConstruct(o, l) ==
    /\ platform = "android" /\ ~Alive(o)
    /\ Cardinality(FreeFds) >= 2
    /\ LET in == Min(FreeFds)
           out == Min(FreeFds \ {in})
       IN  /\ file' = [file EXCEPT ![in] = [end |-> "read", peer |-> out, queue |-> <<>>],
                                   ![out] = [end |-> "write", peer |-> in, queue |-> <<>>]]
           /\ watch' = [watch EXCEPT ![l] = @ \cup {in}]
           /\ sched' = [sched EXCEPT ![o] =
                [alive |-> TRUE, loop |-> l, of |-> l, in |-> in, out |-> out]]
    /\ refs' = [refs EXCEPT ![l] = @ + 1]
    /\ UNCHANGED <<platform, due, queue, id, cache, callVars>>

\* What a move leaves behind.
BugTaken(s) == [s EXCEPT !.in = -1, !.out = -1]
Taken(s) == [NoScheduler EXCEPT !.alive = s.alive]

\* destroy()
DestroyLooper(s) ==
    IF s.loop = None THEN UNCHANGED <<file, watch, refs>>
    ELSE /\ watch' = [watch EXCEPT ![s.loop] = @ \ {s.in}]
         /\ refs' = [refs EXCEPT ![s.loop] = @ - 1]
         /\ file' = [f \in Fds |-> IF f \in {s.in, s.out} THEN Free ELSE file[f]]

\* A looper calls back for an event that was due when its descriptor was removed.
MayDestroy(s) == s.loop # None /\ ~Careless => s.in \notin due[s.loop]

LooperMoveConstruct(o, from) ==
    /\ platform = "android" /\ ~Alive(o) /\ Alive(from)
    /\ sched' = [sched EXCEPT ![o] = sched[from], ![from] = Taken(@)]
    /\ UNCHANGED <<platform, file, watch, due, systemVars, callVars>>

LooperMoveAssign(o, from) ==
    /\ platform = "android" /\ Alive(o) /\ Alive(from) /\ o # from
    /\ MayDestroy(sched[o])
    /\ DestroyLooper(sched[o])
    /\ sched' = [sched EXCEPT ![o] = sched[from], ![from] = Taken(@)]
    /\ UNCHANGED <<platform, due, queue, id, cache, callVars>>

\* What is in the pipe is lost with it.
LooperDestroy(o) ==
    /\ platform = "android" /\ Alive(o)
    /\ MayDestroy(sched[o])
    /\ DestroyLooper(sched[o])
    /\ sched' = [sched EXCEPT ![o] = NoScheduler]
    /\ UNCHANGED <<platform, due, queue, id, cache, callVars>>

\* operator(), by any thread: the pointer goes into the pipe.
LooperSchedule(o, c) ==
    /\ platform = "android" /\ Alive(o) /\ sched[o].loop # None
    /\ IsNew(c)
    /\ file' = [file EXCEPT ![file[sched[o].out].peer].queue = Append(@, c)]
    /\ Given(c, sched[o].of, sched[o].in)
    /\ UNCHANGED <<platform, sched, watch, due, systemVars, ran, broken>>

\* The looper polls.
LooperPoll(l) ==
    /\ due[l] = {}
    /\ due' = [due EXCEPT ![l] = {f \in watch[l] : file[f].queue # <<>>}]
    /\ due'[l] # {}
    /\ UNCHANGED <<platform, sched, file, watch, systemVars, callVars>>

\* looper_callback for one of them: a closed descriptor is an exception, an
\* empty pipe does not return.
LooperCallback(l) ==
    \E f \in due[l] :
        /\ due' = [due EXCEPT ![l] = @ \ {f}]
        /\ IF file[f].end = "read" /\ file[f].queue # <<>>
             THEN /\ file' = [file EXCEPT ![f].queue = Tail(@)]
                  /\ Runs(Head(file[f].queue), l)
                  /\ UNCHANGED broken
             ELSE broken' = TRUE /\ UNCHANGED <<file, ran>>
        /\ UNCHANGED <<platform, sched, watch, systemVars, want, given>>

-----------------------------------------------------------------------------
(* Apple: CFRetain and CFRelease.  The copies the compiler would make, which   *)
(* retain nothing, are left out: get_for_current_thread makes each in place.   *)

RunLoopConstruct(o, l) ==
    /\ platform = "apple" /\ ~Alive(o)
    /\ sched' = [sched EXCEPT ![o] = Scheduler(l, l)]
    /\ refs' = [refs EXCEPT ![l] = @ + 1]
    /\ UNCHANGED <<platform, file, watch, due, queue, id, cache, callVars>>

RunLoopDestroy(o) ==
    /\ platform = "apple" /\ Alive(o)
    /\ sched' = [sched EXCEPT ![o] = NoScheduler]
    /\ refs' = [refs EXCEPT ![sched[o].loop] = @ - 1]
    /\ UNCHANGED <<platform, file, watch, due, queue, id, cache, callVars>>

\* CFRunLoopPerformBlock and CFRunLoopWakeUp.
RunLoopSchedule(o, c) ==
    /\ platform = "apple" /\ Alive(o) /\ IsNew(c)
    /\ queue' = [queue EXCEPT ![sched[o].loop] = Append(@, c)]
    /\ Given(c, sched[o].of, sched[o].loop)
    /\ UNCHANGED <<platform, sched, file, watch, due, refs, id, cache, ran, broken>>

-----------------------------------------------------------------------------
(* Windows. *)

\* A thread with a window starts, and ends with it.
StartWindow(l, i) ==
    /\ platform = "windows" /\ id[l] = 0
    /\ \A k \in Loops : id[k] # i
    /\ Careless \/ i \notin DOMAIN cache
    /\ id' = [id EXCEPT ![l] = i]
    /\ UNCHANGED <<platform, sched, file, watch, due, refs, queue, cache, callVars>>

EndWindow(l) ==
    /\ platform = "windows" /\ id[l] > 0
    /\ id' = [id EXCEPT ![l] = -1]
    /\ queue' = [queue EXCEPT ![l] = <<>>]
    /\ UNCHANGED <<platform, sched, file, watch, due, refs, cache, callVars>>

\* find in s_schedulers, or emplace.
Cached(l) == IF id[l] \in DOMAIN cache THEN cache[id[l]] ELSE l

GetForCurrentWindow(o, l) ==
    /\ platform = "windows" /\ ~Alive(o) /\ id[l] > 0
    /\ cache' = [i \in DOMAIN cache \cup {id[l]} |-> IF i = id[l] THEN Cached(l) ELSE cache[i]]
    /\ sched' = [sched EXCEPT ![o] = Scheduler(Cached(l), l)]
    /\ UNCHANGED <<platform, file, watch, due, refs, queue, id, callVars>>

\* RunAsync of the dispatcher; nothing runs where the window is gone.
XamlSchedule(o, c) ==
    /\ platform = "windows" /\ Alive(o) /\ IsNew(c)
    /\ queue' = IF id[sched[o].loop] = -1 THEN queue
                ELSE [queue EXCEPT ![sched[o].loop] = Append(@, c)]
    /\ Given(c, sched[o].of, sched[o].loop)
    /\ UNCHANGED <<platform, sched, file, watch, due, refs, id, cache, ran, broken>>

\* The run loop or the dispatcher of a thread takes what it holds, in order.
LoopRuns(l) ==
    /\ queue[l] # <<>>
    /\ queue' = [queue EXCEPT ![l] = Tail(@)]
    /\ Runs(Head(queue[l]), l)
    /\ UNCHANGED <<platform, sched, file, watch, due, refs, id, cache, want, given, broken>>

-----------------------------------------------------------------------------
(* threadpool_scheduler: a detached thread, or the pool of the system. *)

Threadpool(c) ==
    /\ IsNew(c)
    /\ Given(c, Pool, c)
    /\ UNCHANGED <<platform, sched, file, watch, due, systemVars, ran, broken>>

AndroidThreadpool(c) == platform = "android" /\ Threadpool(c)
AppleThreadpool(c) == platform = "apple" /\ Threadpool(c)
WindowsThreadpool(c) == platform = "windows" /\ Threadpool(c)
UnixThreadpool(c) == platform = "unix" /\ Threadpool(c)

Ran(c) == \E i \in DOMAIN ran : ran[i].call = c

PoolRuns(c) ==
    /\ want[c] = Pool /\ ~Ran(c)
    /\ Runs(c, Pool)
    /\ UNCHANGED <<platform, sched, file, watch, due, systemVars, want, given, broken>>

Next ==
    \/ \E o \in Objects, l \in Loops :
         LooperConstruct(o, l) \/ RunLoopConstruct(o, l) \/ GetForCurrentWindow(o, l)
    \/ \E o, from \in Objects :
         LooperMoveConstruct(o, from) \/ LooperMoveAssign(o, from)
    \/ \E o \in Objects : LooperDestroy(o) \/ RunLoopDestroy(o)
    \/ \E o \in Objects, c \in Calls :
         LooperSchedule(o, c) \/ RunLoopSchedule(o, c) \/ XamlSchedule(o, c)
    \/ \E l \in Loops :
         LooperPoll(l) \/ LooperCallback(l) \/ LoopRuns(l) \/ EndWindow(l)
    \/ \E l \in Loops, i \in Ids : StartWindow(l, i)
    \/ \E c \in Calls :
         \/ AndroidThreadpool(c) \/ AppleThreadpool(c) \/ WindowsThreadpool(c)
         \/ UnixThreadpool(c) \/ PoolRuns(c)

Spec == Init /\ [][Next]_vars

-----------------------------------------------------------------------------
(***************************************************************************)
(* A callable runs at most once, on the thread whose scheduler took it,    *)
(* and never before one that the same scheduler took earlier, although     *)
(* schedulers are moved and destroyed and descriptors come back.           *)
(***************************************************************************)
RunsWhereAsked ==
    /\ ~broken
    /\ \A o \in Objects : sched[o].loop = sched[o].of
    /\ \A i \in DOMAIN ran : ran[i].on = want[ran[i].call]
    /\ \A i, j \in DOMAIN ran : i < j =>
         /\ ran[i].call # ran[j].call
         /\ \A k, n \in DOMAIN given :
              /\ given[k].call = ran[i].call /\ given[n].call = ran[j].call
              /\ given[k].via = given[n].via
              => k < n

(***************************************************************************)
(* Pipes and references to loops are held by the schedulers that are       *)
(* alive, each by one, and are given back with the last: whatever was      *)
(* moved, no descriptor leaks or is closed under another's feet.           *)
(***************************************************************************)
Holding(l) == {o \in Objects : sched[o].loop = l}

ResourcesAreHeld ==
    platform \in {"android", "apple"} =>
        /\ \A l \in Loops : refs[l] = Cardinality(Holding(l))
        /\ \A l \in Loops : watch[l] = {sched[o].in : o \in Holding(l)} \ {-1}
        /\ \A f \in Fds \ FreeFds :
             Cardinality({o \in Objects : f \in {sched[o].in, sched[o].out}}) = 1
        /\ \A o \in Objects : \A f \in {sched[o].in, sched[o].out} \ {-1} : f \notin FreeFds

-----------------------------------------------------------------------------
(* What the proofs need besides.  The operators have the variables they      *)
(* speak of as parameters.                                                   *)

Members(s) ==
    \A o \in Objects : s[o].loop = s[o].of /\ (~s[o].alive => s[o] = NoScheduler)

HasPipe(x, fs) ==
    /\ x.in \in Fds /\ x.out \in Fds /\ x.in # x.out
    /\ fs[x.in].end = "read" /\ fs[x.in].peer = x.out
    /\ fs[x.out].end = "write" /\ fs[x.out].peer = x.in

\* Each pipe has one scheduler, and its loop watches the read end.
PipesHeld(s, fs, w) ==
    /\ \A o \in Objects : IF s[o].loop = None THEN s[o].in = -1 /\ s[o].out = -1
                                             ELSE HasPipe(s[o], fs)
    /\ \A o, p \in Objects : o # p /\ s[o].loop # None /\ s[p].loop # None =>
         {s[o].in, s[o].out} \cap {s[p].in, s[p].out} = {}
    /\ \A f \in Fds : fs[f].end # "free" =>
         \E o \in Objects : s[o].loop # None /\ f \in {s[o].in, s[o].out}
    /\ \A l \in Loops : \A f \in Fds :
         f \in w[l] <=> \E o \in Objects : s[o].loop = l /\ s[o].in = f

RefsCounted(s, r) ==
    \A l \in Loops : r[l] = Cardinality({o \in Objects : s[o].loop = l})

\* A callback finds what it was called for.
DueIsReadable(w, d, fs) ==
    \A l \in Loops : d[l] \subseteq w[l] /\ \A f \in d[l] : fs[f].queue # <<>>

NoPipes(s, fs, w, d) ==
    /\ \A o \in Objects : s[o].in = -1 /\ s[o].out = -1 /\ (s[o].alive => s[o].loop # None)
    /\ \A f \in Fds : fs[f].end = "free"
    /\ \A l \in Loops : w[l] = {} /\ d[l] = {}

\* The map finds a window by the id of its own thread.
WindowsCached(ids, map) ==
    /\ \A l, k \in Loops : ids[l] = ids[k] /\ ids[l] > 0 => l = k
    /\ \A l \in Loops : ids[l] \in DOMAIN map => map[ids[l]] = l

Comes(g, c, via) == \E k \in DOMAIN g : g[k].call = c /\ g[k].via = via
Earlier(g, c, d) == \A k, n \in DOMAIN g : g[k].call = c /\ g[n].call = d => k < n

GivenOnce(g) ==
    /\ \A k, n \in DOMAIN g : g[k].call = g[n].call => k = n
    /\ \A k \in DOMAIN g : g[k].via \in Calls => g[k].via = g[k].call

\* Those in q were given by way of via, in their order, and come after all that
\* went the same way and ran.
InLine(g, r, q, via) ==
    /\ \A i \in DOMAIN q : Comes(g, q[i], via) /\ \A x \in DOMAIN r : r[x].call # q[i]
    /\ \A i, j \in DOMAIN q : i < j => Earlier(g, q[i], q[j])
    /\ \A x \in DOMAIN r : \A i \in DOMAIN q :
         Comes(g, r[x].call, via) => Earlier(g, r[x].call, q[i])

RanInOrder(g, r) ==
    \A i, j \in DOMAIN r : i < j =>
        /\ r[i].call # r[j].call
        /\ \A k \in DOMAIN g :
             Comes(g, r[i].call, g[k].via) /\ Comes(g, r[j].call, g[k].via) =>
                Earlier(g, r[i].call, r[j].call)

Lines(g, r, fs, q) ==
    /\ GivenOnce(g) /\ RanInOrder(g, r)
    /\ \A f \in Fds : InLine(g, r, fs[f].queue, f)
    /\ \A l \in Loops : InLine(g, r, q[l], l)

\* Whatever waits or ran does so where it was to: in a loop or in the pool, or in
\* the pipe of a scheduler.
Asked(g, r, q, w) ==
    /\ \A k \in DOMAIN g : w[g[k].call] # None
    /\ \A i \in DOMAIN r : r[i].on = w[r[i].call]
    /\ \A l \in Loops : \A i \in DOMAIN q[l] : w[q[l][i]] = l
    /\ \A c \in Calls : w[c] = Pool => Comes(g, c, c)

PipesAsked(s, fs, w) ==
    \A o \in Objects : s[o].loop # None =>
        \A i \in DOMAIN fs[s[o].in].queue : w[fs[s[o].in].queue[i]] = s[o].loop

\* What is on the descriptors, in the hands of the schedulers.
Held(s, fs, w, r, wanted) ==
    /\ Members(s) /\ PipesHeld(s, fs, w) /\ RefsCounted(s, r) /\ PipesAsked(s, fs, wanted)

Inv ==
    /\ TypeOK /\ ~broken /\ Members(sched)
    /\ IF platform = "android"
         THEN Held(sched, file, watch, refs, want) /\ DueIsReadable(watch, due, file)
         ELSE NoPipes(sched, file, watch, due)
    /\ platform = "apple" => RefsCounted(sched, refs)
    /\ WindowsCached(id, cache)
    /\ Lines(given, ran, file, queue) /\ Asked(given, ran, queue, want)
=============================================================================
