# Verification of arcana.cpp

TLA+ models of arcana.cpp, its concurrency first and the classes around it, the
TLC runs that check them on small instances, and TLAPS proofs about them. Paths below are relative to
`src/Source/Shared/arcana/` unless they say otherwise.

Run a model with `tlc -config X.cfg M`, a proof with `tlapm M.tla`. PROJECT.json
lists the runs, the source lines behind every definition, the mutants that show
each property can fail, the findings and the hazards.

## 1. The system

| part | state it keeps | operations | talks to |
|---|---|---|---|
| `cancellation`, `cancellation_source`, `ticketed_collection` (threading/cancellation.h, containers/ticketed_collection.h) | atomic flag, `m_signaled`, numbered listeners under a mutex | `add_listener`, `cancel`, `cancelled`, destroying a ticket | everybody: the token of queues, tasks and state machines |
| `blocking_concurrent_queue` (threading/) | items, mutex, condition variable | `push`, `blocking_pop`/`drain`, `try_pop`/`drain`, `clear`, `cancelled` | a token it only reads |
| `dispatcher`, `manual_dispatcher`, `background_dispatcher` (threading/dispatcher.h) | a queue, a workload, a thread, a cancellation source with one listener | `queue`, `tick`, `cancel`, destruction | queue and cancellation; a scheduler for tasks |
| task payloads (threading/internal/internal_task.h, threading/task.h) | completed flag, continuations, redirect, result | `then`, `complete`, `make_task`, unwrapping of a task of a task | schedulers; cancellation tokens read when a continuation starts |
| `when_all` (threading/task.h), `pending_task_scope` | a counter, the first error, a completion source | adding tasks, callbacks of tasks | tasks |
| `state_machine_driver`, `state_machine_observer` (scheduling/state_machine.h) | map from states to pairs of completion sources | `move_to`, `enter`, `exit`, `cancel_enter`, `cancel_exit`, `on` | tasks, cancellation, a dispatcher for the work |
| `router`, `mediator` (messaging/) | listeners, pending listeners, a sentry per event | `fire`, `add_listener`, destroying a ticket; `send` | a dispatcher |
| coroutine adapters (threading/coroutine.h) | the coroutine and its task, the awaiter's result | `co_await` of a task or a scheduler, `co_return`, exceptions | tasks, schedulers |
| `sorted_vector`, `unique_vector` (containers/) | a sorted vector | insertions, merges, erasures, `find` | - |
| `weak_table` (containers/) | a map by the addresses of the cells of its tickets | `insert`, `apply_to_all`, `clear`, moving and destroying tickets | - |
| `inplace_function` (functional/) | a target in a buffer, two function pointers | construction, assignment, `swap`, destruction | dispatcher and schedulers keep their work in it |
| algorithm.h, math.h | - | pure functions | - |
| platform schedulers (task_schedulers.h of Android, Apple, Windows, Unix) | a pipe and a looper, a run loop, windows by thread id | scheduling, moves, destruction | tasks; loops of the system |
| `create_task` of WinRT operations, hresult.cpp, expected.h, `unordered_bimap` | a category storage, results | the handler of an operation, registration, conversions of results and HRESULTs | tasks |
| `trace_region` (tracing/ of Windows, Android, Apple) | a switch, cookies, the registration of a provider | `enable`, `disable`, regions that are moved | the system's trace |

What is hard in it: listeners are called from a copy made under a lock that is
released; the queue notifies outside its mutex and, on cancellation, without
ever taking it; `complete` assigns its result before it tests anything; a task
may be completed, unwrapped and continued by three threads at once while one
more inline continuation runs with mutexes of its ancestors held; the state
machine finds its entries by the state's address each time it takes the lock,
so what it finds may be another call's; a router's listeners fire, add and
remove while the list they are in is being iterated, and an exception of theirs
leaves the dispatcher's tick in the middle; regions, looper schedulers, function
objects and tickets are moved by hand-written members, one of which may forget
what the source still owns.

What makes each part correct:

- cancellation: each listener is called once or not at all, none is missed, in
  reverse order, none after its ticket was removed before the signal;
- queue: first in, first out, once; no waiting consumer beside a queued item;
- dispatcher: everything queued is run, once and in order, until it is
  cancelled; after `cancel()` nothing runs and nothing is kept; `cancel()` returns;
- tasks: a continuation runs once, after and with the result of the task at the
  end of its chain of redirections, and it does run; a task keeps its result;
- chains of tasks and coroutines: errors and cancellations reach the end of the
  chain, none is lost, everything completes;
- state machine: states exclude each other, a move ends when its work has, an
  observer that is cancelled leaves;
- when_all / pending_task_scope: completes when, and only when, the last task
  has, with the first error; router: who is registered during a `fire` hears
  it, who was removed does not, ids find their listeners;
- mediator: events are fired in the order of their sends, and none is lost;
- schedulers: a callable runs at most once, on the thread that was asked for, in order;
- what is owned by hand (targets, pipes, registrations, cells) is given back once,
  and conversions of results and errors can be undone.

## 2. Modules

| module | models | checked by |
|---|---|---|
| `OneShotSignal` | abstract: what a cancellation source promises, without threads | `ImplementsSignal` |
| `Cancellation` | cancellation.h with ticketed_collection.h | `MCCancellation` |
| `CancellationProofs` | proofs about `Cancellation` | tlapm |
| `BlockingConcurrentQueue` | blocking_concurrent_queue.h | `MCBlockingConcurrentQueue` |
| `BlockingConcurrentQueueProofs` | proofs about `BlockingConcurrentQueue` | tlapm |
| `BackgroundDispatcher` | dispatcher.h; instances of the two components it is made of | `MCBackgroundDispatcher` |
| `BackgroundDispatcherProofs` | proofs about `BackgroundDispatcher`, with instances of the two modules of proofs above | tlapm |
| `TaskPromise` | abstract: what a task promises to those who continue it | `KeepsPromise` |
| `TaskPayload` | internal_task.h with `task`, `task_completion_source`, `task_factory` | `MCTaskPayload` |
| `TaskPayloadProofs` | proofs about `TaskPayload` | tlapm |
| `TaskWork` | make_task, `task::then` and the wrappers of internal_task.h, over results | through `TaskChain` |
| `Coroutine` | coroutine.h | through `TaskChain` |
| `TaskChain` | tasks and coroutines together: instances of the two modules above that share the results | `MCTaskChain` |
| `StateMachine` | state_machine.h | `MCStateMachine` |
| `StateMachineProofs` | proofs about `StateMachine` | tlapm |
| `Router` | router.h with sentry.h | through `Mediator`, `MCRouter` |
| `Mediator` | mediator.h and `manual_dispatcher`; extends `Router` | `MCMediator` |
| `MediatorProofs` | proofs about `Router` and about `Mediator` | tlapm |
| `WhenAll` | `when_all` of task.h | through `TaskGroups` |
| `PendingTaskScope` | pending_task_scope.h | through `TaskGroups` |
| `TaskGroups` | `scope += when_all(...)`: instances of the two modules above that share their tasks | `MCTaskGroups` |
| `GroupsAndChainsProofs` | proofs about `TaskGroups`, about `TaskChain` and about the modules they are made of | tlapm |
| `OrderedVectors` | sorted_vector.h, unique_vector.h, `string_compare` | through `Library` |
| `WeakTable` | weak_table.h | through `Library` |
| `InplaceFunction` | inplace_function.h | through `Library` |
| `Algorithm` | algorithm.h, math.h | through `Library` |
| `Schedulers` | task_schedulers.h of the four platforms | through `Library` |
| `TraceRegion` | trace_region.h of three platforms | through `Library` |
| `TaskConversions` | task_conversions.h; extends `Hresult`, an instance of `Expected` | through `Library` |
| `Hresult`, `UnorderedBimap` | hresult.cpp, unordered_bimap.h | through `TaskConversions` |
| `Expected` | expected.h | through `TaskConversions` |
| `Library` | instances of seven of the modules above, of which one moves in a behaviour | `MCLibrary` |
| `LibraryProofs` | proofs about `WeakTable`, `InplaceFunction`, `TraceRegion`, `TaskConversions` and `Schedulers`, as parts of `Library` | tlapm |

A step of a model is a critical section, an atomic operation, or a stretch of
code between two of them; the thread's place between its steps is its `pc`.
Definitions keep the names of the functions they translate. A definition whose
name starts with `Bug` is a wrong variant of the definition after it, used by
the mutants only.

**Cancellation.** `requested` is the atomic flag, `signaled` is `m_signaled`,
`items`/`id`/`seed` the ticketed collection. `Cancel` is the exchange;
`SignalCancelled` the copy under the mutex; `CallListener` and `ListenerReturns`
one call each, in the order of decreasing `id`. `AddListenerLate` inserts and
leaves the call of the copied callback to `RunCopied`, outside the mutex. A
listener does with the source what another thread would; it holds no lock.
Every element of `Listeners` is one call of `add_listener`.

**BlockingConcurrentQueue.** `push` and `clear` are one step under the mutex and
one that notifies. A consumer's call is `Call`, `Test` (the loop condition, with
the mutex), `Wait` (releases it and sleeps), `Check`, `TakeOne`/`TakeAll`; `lock`
says who is between two of them, because the token can change there. Spurious
wake-ups are a step. `Items` are pushed once each, so that order and duplication
can be seen.

**BackgroundDispatcher.** `Q` and `C` are instances of the two modules above with
the worker as the only consumer, the owner as the only canceller, and
`requested` of `C` as the token of `Q`. The owner's life is `opc`: construct,
open, cancel (signal, listener, join, clear), again or into the destructor. The
one listener of `C` is a call of the queue's `cancelled()`. Work does not throw
and does not cancel its own dispatcher, which both end the process.

**TaskPayload.** A payload has `completed`, `redirect` (`m_taskRedirect`), `conts`
(`m_continuation`, whose three forms are one sequence), `result` and `lock`, the
holder of `m_mutex` while it forwards. `add_continuations` is `Forward`, `Store`
or `RunIt` at one payload after the other; `do_completion` is `Cannibalize` or
`Reject`, then the `dispatch` loop; `collapse_left_into_right` is `CollapseLeft`
followed by an addition. Continuations are actors too: an inline run is nested
in the actor that starts it, any other starts when its scheduler gets to it.
Each callable makes at most one call.

**TaskPromise.** Of a task only this is left: who was `made` and `follows` whom, what a
stand-in `standsFor`, whose work `ran` and who `completed`. A continuation runs once, behind
the task it follows, and completes behind its run; a stand-in never completes, and
whoever follows it and has not run is handed on. `Promise` of `TaskPayload` maps the payloads
to it: adding a continuation is `Continue`, `Begin` is `Run`, an accepted completion `Complete`, a
collapse `StandIn`, one that is forwarded later `Redirect`, and all that happens between
these, under mutexes or with batches in hand, is a stutter. The fairness of the
abstract task is about those who follow: they are handed on, run and complete.
This is what the guards of `TaskWork`, `WhenAll`, `PendingTaskScope` and `Coroutine`
take for granted of any task.

**TaskWork, Coroutine, TaskChain.** A task is here its `result`: "none", "ok", an
error of the program, or "canceled" for `std::errc::operation_canceled`. A work
is one call of `make_task` or `then`; it is refused or invoked any time after its
parent completed (what `TaskPayload` shows), and may end by returning a task,
which it then stands for. `TaskFrom` is a source that is completed at once. A refusal is what `input_output_wrapper` returns
without the callable. A coroutine's `awaited` and `got` are the tasks it awaited
and the copies of their results; `hand` is the copy in the temporary result
object or in the exception in flight, `kept` the one in a variable. The converting
operators and the destructor of the result object are `TakeExpected`, `TakeValue`,
`LookAtKept`, `UseKept` and `ThrowsKept`. `co_return` is two steps, the completion
and the destruction of the variables (`Leave`). "broken" is a coroutine that
completed its task twice, "terminated" the end of the process by an exception
during unwinding, after which nothing happens. Types are the compiler's work and
stand in the guards of `TaskChain`, as does the rule that no task waits for itself (its
specification is `ChainSpec`, its types `ChainTypeOK`, so that one module of proofs can extend it and `TaskGroups`);
a coroutine of `error_code` tasks catches what is not `unobserved_error`, as the
assertion in `UnhandledException` asks.

**StateMachine.** An entry is one `completions` object; `current` is `m_states`.
The critical sections are `MoveTo` and `Enter` (with `fetch_state`), `CancelTake`
and `ExitTake`. Between them, completing `StateEntered` is two steps (the result
is assigned, then the completion is accepted or throws, as in `TaskPayload`);
completing `StateExited` is one, since `OneCompleter` shows that only one
process does it. Each actor has one token and a canceller thread that may cancel
it once; a listener is one actor's registration, called from the canceller's
snapshot with the state it was registered for, or inline. The assertion of
`enter`, that nobody is entered in the state, is the callers' obligation and a
guard of `Enter`.

**Router.** One thread; `stack` holds the calls of `fire` that have begun, each
with what its guard will restore. While it is empty, or its top is inside a
listener, the thread may fire, add or destroy a ticket (`CallerRuns`). A listener
returns or throws; an exception ends one `fire` at a time, and who called it may
catch it. `nextId` starts with any value and wraps around after `Ids`: more ids
than listeners, as 2^64 are. `DestroysPending` says whether tickets of pending
listeners are destroyed (finding 3); the assertion is not part of a release build,
so the step that does it goes on. `Valid` is what `remove_if` keeps: the k-th entry
of it is the one with k valid entries up to it, which is the form proofs can use.

**Mediator.** It has `Router`'s variables and those of the dispatcher: `work` is
the queue, `workload` what `try_drain` appended to, `at` the place of the loop in
`internal_tick`. `Send`, `Clear` and `CancelToken` are other threads' (or a
listener's); `Tick`, `RunWork`, `WorkReturns` and `FinishTick` the ticking
thread's. The callable of a send is a `Fire`. `WorkThrows` is the exception of a
listener that nobody catches: it ends `fire`, the callable and the tick, and
leaves `workload` as it is. In a behaviour that is wired "direct" the application
fires the router itself. Nothing ticks inside a tick.

**WhenAll, PendingTaskScope, TaskGroups.** A task is here its `outcome`: it is
completed once, and a continuation runs once, any time after it was added and its
task completed. (This is what `TaskPromise` says, which
`TaskPayload` implements.) A continuation is two steps, the section under the mutex and what
the last one does behind it. `operator+=` counts in and adds the continuation in
two steps; `when_all` of a scope has its task (`WhenAllReturns`) after the
section. In `TaskGroups` the result of one is a member of the other.

**OrderedVectors.** `partition_point` is the binary search it is, so that a
vector that is not sorted shows. `key` is what the comparison sees of an element,
`==` sees all of it. `Comparator` chooses between an order and `string_compare`.
The assertions of `insert_presorted` are guards. Iterators are positions.

**WeakTable.** `cell[a]` is the heap cell of a ticket at address `a`, which other
cells get after it; it leads to the table, or is null after a `clear`. The loop
of `apply_to_all` stands at `current` while the callable inserts, moves and
destroys; the callable keeps the entry it is called for.

**InplaceFunction.** Every target that is ever built is an instance, whole,
moved from or destroyed. `invoke` and `managed` are the two function pointers.
`swap` passes the buffers in the order in which the code passes them.

**Algorithm** has no steps: an initial state is one input, and `AgreeWithReference`
compares each function with what it is for. Numbers wrap around.

**Schedulers.** `platform` selects the implementation. A pipe is two entries of
`file`, whose numbers are given out again, lowest first; `LooperPoll` is the
system's choice of what is due, and `LooperCallback` the code's reading of it.
`cache` is `s_schedulers`. `Careless` adds two uses that nothing forbids (below).

**TraceRegion.** `build` selects the platform. On Windows `session` is what
`s_registration` refers to and `uses` the count of each object it ever referred
to. The pointer is a plain `shared_ptr` (line 215), so everything that touches it is
taken apart. A constructor reads the flag and draws its cookie (`WindowsTakeCookie`),
reads where the count is (`WindowsReadCount`), and raises it and takes the pointer as it
was or is by now (`WindowsConstruct`). `disable` clears the flag, empties the
pointer and gives up what it held, in three steps; who gives up the last
reference, the switch or a region, unregisters the provider in a step of its own
(`WindowsUnregister`), during which the others go on. (The outcomes of the data race
are those of a pointer whose two words are each read whole.) A moved region hands its
reference over uncounted. One thread calls `enable` and `disable`. `overtaken` and
`restarted` remember, for the properties alone, that `disable` emptied the pointer
under a constructor that has drawn a cookie, and that `enable` was called over a region of an
earlier session. Cookies wrap around to 0, which is "none".

**TaskConversions, Hresult, Expected, UnorderedBimap.** An HRESULT has a severity,
the customer bit, a facility and a code; the reserved bits beside them, one of which
(bit 30) is not in what `HRESULT_FACILITY` and `HRESULT_CODE` give and would be lost
with the customer bit set, are 0 in every HRESULT that is one. `storage` is `s_categoryStorage`, made in
one step (`MakeStorage`) by the first who uses it; `FirstUseRaces` lets others begin
before that. The handler completes the task with an expected, which is then converted along
the chain, and `HrFromErrorCode` is asked at its end.

**Library.** `subject` names the one of seven programs that a behaviour runs;
the others stay as they begin, so that their states add up and do not multiply.
`MCLibrary` gives the constants that need a definition their values.

## 3. Runs

| run | cfg | bounds | states | what it shows |
|---|---|---|---|---|
| cancellation | MCCancellation | 3 threads, 3 listeners | 12 k | all properties and the refinement of `OneShotSignal` |
| queue | MCBlockingConcurrentQueue | 1 producer, 2 consumers, 1 controller, 3 items, limit 2 | 133 k | order, no duplicate, no lost wake-up of a push |
| dispatcher | MCBackgroundDispatcher | 2 clients, 3 items | 18 k | nothing lost before a cancel, nothing run or kept after it, batches finish |
| dispatcher_cancel | MCDispatcherCancel | 1 client, 1 item | - | **violated**: `cancel()` may hang |
| task_payload | MCTaskPayload | 1 thread, 2 sources, 2 continuations, 2 completions per source | 77 k | continuations run once, with their task's result, and do run: the refinement of `TaskPromise`, with its fairness |
| task_reentrant | MCTaskReentrant | 1 thread, 2 sources, 2 continuations | - | `ContinuationsRun` **violated**: reuse of an unwrapped task inside its continuation deadlocks |
| state_machine | MCStateMachine | 2 observers, 2 states, 2 entries, one observer and the driver cancellable | 126 k | completions are owned by one process; the map holds the open entries; exclusion, findability and progress without cancellations |
| messaging | MCMediator | 2 events, 3 listeners, 4 ids, 3 fires deep, 2 sends | 446 k | who is registered hears an event once, who was removed does not, ids find listeners, iterations see no change; sends are fired in order, none is lost |
| router_pending | MCRouterPending | 2 events, 3 listeners, 4 ids, 1 fire deep | - | **violated**: the ticket of a pending listener finds nothing |
| task_groups | MCTaskGroups | when_all of 2 tasks, a scope of it and 1 more, 2 closers, 2 errors | 63 k | completed once, by the last, with the right outcome, and always |
| task_chain | MCTaskChain | 2 works (one of each error type), 1 coroutine with 2 awaits, 1 token, 1 error | 69 k | errors travel, none is swallowed, everything completes |
| library | MCLibrary | see below | 221 k | what each of the seven programs promises, through every sequence of calls |

Why the bounds are enough for the cases that matter:

- three threads and three listeners contain two cancels racing with an addition,
  and a listener before, in and after the copy, in each order;
- two consumers, three items and a limit of two contain the push that does not
  notify, the trimming push, and two sleepers competing for one notification;
- the dispatcher runs a batch of several items, an item queued during it, a
  cancel in the middle, a second cancel, and clients that queue in between; its
  limit of four is above its three items because the dispatcher's queue has none
  in practice (`size_t` max);
- the continuations are actors, so a thread and two of them are three competing
  completers, additions and unwrappings; two completions per source contain the
  rejected one. (Two threads with one completion per source, and chains of two
  redirections over three sources, were checked with the same properties as
  well: 115 k and 124 k states.)
- two entries contain an entry that is taken while another of the same state is
  made; three entries over one state, and over two states with one cancellable
  observer, were checked with the same properties as well (162 k and 115 k
  states). `MaxEntries` only stops new calls.
- two listeners of one event and one of another contain a listener that removes
  itself, its predecessor or its successor, and a fire of the other event in
  between; three fires deep is a fire of the same event inside one inside one.
  Two sends are an exception with one more event behind it in the workload, and
  a send from inside a listener while the batch is being run;
- two regions, two names and two sessions contain a region assigned to one that
  is active, one that outlives its session, and one whose construction straddles
  `disable` while the other gives up its share; cookies begin anywhere and wrap;
  (`RegisteredWhileNeeded` and the invariant behind it were checked with three
  regions as well: 3.8 M states);
- three function objects and four instances contain a copy, a move and an
  exception over the same buffer, self-assignment, and a chain of two moves;
- three tickets over three addresses contain an address that is used again, and
  a ticket that outlives the table;
- four descriptors are two pipes, the second of which can have the numbers of a
  first that was closed; two loops tell whose thread ran a callable;
- vectors of at most four over three elements, for every assignment of three
  keys, contain equivalent elements, repeated ones, and merges of two;
- ranges of at most four elements, numbers at both ends of 0 .. 63, where sums
  wrap, and subsets of up to one element more than the range has;
- two threads add two categories to the four of the system, with room for three,
  so that one is registered twice; an operation fails with every HRESULT there is.
- the two works and the coroutine contain each pair of neighbours in a chain (a
  work or the coroutine behind, inside or awaited by the other) and chains of all
  three, with the token on any of the works; two awaits contain a kept result
  beside an exception. One work and two coroutines, one of each error type, with
  two awaits each, were checked with the same properties as well (225 k states).
- two inputs, the group and one more member contain each order of the last
  completion, the last addition and the two calls that close the scope.

Deadlock is checked for the cancellation source, the queue and the mediator, where
some thread can always begin a call. It is off for the others, which really stop:
the dispatcher is destroyed at the end, tasks have all been completed, and the
state machine's entries are used up (or a completion threw); a chain of tasks
has completed, or the process has ended; the programs of the library end, and an
input of an algorithm has no step.

**Fairness** is weak and only on threads that are inside a call, on schedulers
that hold work, and on callables and listeners, which return. Nobody has to
push, queue, add, cancel, complete, move or enter, and no spurious wake-up is
assumed. In `TaskChain` callables and coroutine bodies come to
their end, and what schedulers hold runs. In `TaskGroups` the calls that have begun go on;
no task has to finish, nobody has to add one to the scope or close it. `MediatorSpec` says that the
application goes on ticking and that listeners return or throw; nobody has to
send, and a token that is cancelled or an exception ends what is claimed. The queue's run checks safety only, and the library has
no progress to check; that what is queued is received is checked where a worker loop calls again, by `EverythingRuns` of the dispatcher.
Weak fairness on the mutexes is enough because their holders release them in
bounded time; where two consumers compete for one (the end of a call after a
cancellation) nothing is claimed. The notified worker of `NotifiedWorkerStops`
is the dispatcher's only consumer.

## 4. Findings

1. *Lost wake-up on cancellation.* `cancelled()` notifies without the mutex, and
   the flag it follows is set without it. Between the worker's test and its wait
   both can pass: the worker sleeps, `join` waits. `NotifiedWorkerStops` is the
   half that holds.
2. *Deadlock through a redirect.* `add_continuations` forwards with its mutex
   held, and a completed target runs inline continuations there. The passing
   run therefore has callables that do not use unwrapped tasks (`Reentrant`).
3. *The ticket of a pending listener finds nothing.* A listener that is added
   during a fire of its event waits in `m_pending`, which `internal_remove_listener`
   does not search: the assertion fires, or the listener outlives its ticket.
   The passing run has tickets whose listeners are not pending (`DestroysPending`).

More are in the models and have no run of their own. Those of a constant are
seen by giving it the other value in `MCLibrary.cfg`, the first two of the following by
naming the property there:

- *An active region without a provider* (`ActiveRegionsAreRegistered`). On Windows a
  constructor tests `s_enabled` and draws its cookie before it copies `s_registration`
  (trace_region.h:73-76), which `disable` may have emptied by then: the region is
  active and writes its events, but does not keep the provider registered, though
  lines 169-170 say that each active region does. The copy is also a data race with
  lines 171 and 187: it can raise a count that has already fallen to zero, and the
  region then holds a registration that was taken back. Both are behaviours of the
  library's run.
- *A second session ends with the first one's regions* (`StaysRegisteredInTurns`).
  After `disable` and `enable` there are two registration objects for one provider
  (line 171); the last region of the first session unregisters it under the second,
  although lines 192-193 say that it "stays registered as long as any trace_region is
  alive". This needs no second thread. `RegisteredWhileNeeded` is what holds until one of
  the two happens: the provider is registered for every active region, and for
  nothing else.
- *A rejected completion overwrites the result* (internal_task.h:305). `Result`
  is assigned before `cannibalize` throws "tried to complete a task twice".
  `ObservesWinner` is what holds when no source is contested.
- *A stale exit breaks exclusion.* `exit` takes whatever entry its state has by
  now (state_machine.h:179). An observer cancelled in `enter` has lost its own
  entry to `cancel_enter` and still calls `exit`: it takes the entry that a later
  move and another observer have made, and the driver moves on while that
  observer works, although state_machine_state.h:5-6 says that a state
  "represents work that can't run at the same time as any other
  state_machine_state". It needs two observers that share a state and whose
  calls overlap in that moment, which the assertion in `enter` allows; so
  `ExclusiveUntilCancelled` is what holds. The same exit can take an entry the
  driver has not moved into; its observer's cancellation then finds no entry, and
  it stays in `enter`.
- *A kept error comes too late.* A result object that is still in a variable at
  `co_return`, with an error nobody looked at, throws when the variable is
  destroyed, which is after `return_value` completed the task. `set_exception`
  then completes it again: the result is replaced, and "tried to complete a task
  twice" leaves the coroutine. The comment at coroutine.h:173-176 says that the
  final task "is set to an error state and contains the unobserved error"; its
  continuations have seen a success. This is `Leave`; `ErrorsTravel` of
  `TaskChain` allows no other such end.
- *An exception stops a batch* (dispatcher.h:93-98). What a tick had drained stays in
  `m_workload`, what threw and what ran before it included; a later tick runs it
  again from the start, but only when `try_drain` finds something new.
  `EverySendFires` claims nothing after an exception.
- *swap does not exchange functors* (inplace_function.h:230). It passes the source
  of each move where the manager builds, so targets are built over others and
  never destroyed, and what is called afterwards is not what line 229 ("Swaps two
  targets") says. `SwapsFunctors`, `SwapExchanges`, `TargetsAreOwned`. Functions
  without an object in the buffer are swapped correctly.
- *string_compare is no order for string views* (string.h:42): it returns
  `a.compare(b)` as a bool. `Comparator`, `HoldsItsElements`.
- *The category storage is made without a lock* (hresult.cpp:86-91): of two first
  users the later one throws away what the earlier one registered.
  `FirstUseRaces`, `CategoriesRoundTrip`.
- *What outlives a scheduler* (`Careless`, `RunsWhereAsked`): a looper's callback
  that is due when its scheduler is destroyed reads a closed descriptor or another
  pipe; a thread with the id of one that has ended gets that one's window
  (task_schedulers.h of Windows, line 47).
- A copy of `run_loop_scheduler`, which the compiler would make, releases the run
  loop without having retained it (Apple). The assertion of `unique_vector`'s
  `insert_presorted` on a range (line 158) tests an iterator, and `std::unique` moves
  the caller's elements where assertions are on. Two converting assignments of expected.h (lines 168, 307) return
  nothing. These were read and are not modelled.

## 5. Proofs

Every theorem holds for any sets of threads, listeners, tasks, items and events
and for any bounds, under the named assumptions of its module's constants. Each
invariant was first checked with TLC on the run's instance; the states this took
are those of the table in section 3. The inductive invariants stand, in named parts, at the
beginning of the modules of proofs, and those of the parts of a composition at the end of
the modules they are about.

### Cancellation (`CancellationProofs`)

| theorem | statement |
|---|---|
| `TypeCorrect` | `Spec => []TypeOK` |
| `InductiveInvariant` | `Spec => []IInv` |
| `CalledAtMostOnce`, `NoneMissed`, `TicketsMatch`, `CalledInReverse`, `FlagBeforeCalls` | the safety invariants of the run |
| `RemovedStaysSilent` | `Spec => RemovedIsSilent`, an action property |
| `Refinement` | `Spec => Signal!SafeSpec`: each step of the source is a step or a stutter of `OneShotSignal` |

The only assumption is
`CancellationAssumption`, that `NoListener` is not a listener. None of the properties is inductive. `AtMostOnce` needs to know that
what is in a copy has not been called (`TodoIsFresh`), that a late addition owns
its listener and is the only one to call it (`LateOwnsListener`), and that
nothing was called before the signal (`QuietBeforeSignal`). These rest on there
being one signalling thread, ever (`OneSignaller`: the exchange lets one thread
through, and the copy is made once). `ReverseOrder` further needs the numbers to
be drawn in order, and late ones after every copied one (`IdsInOrder`).
`NoMissedListener` follows with `ItemsMatchTickets`. `IInv` is the conjunction;
the proof has a step per action and takes the conjuncts in groups. The
refinement maps `owed` to those in a copy or on the late path.

`TicketsMatch` (the assertions about the collection cannot fail) and
`FlagBeforeCalls` state `ItemsMatchTickets` and `RequestedFirst`, which no run
lists: they are parts of `IInv`.

### Queue (`BlockingConcurrentQueueProofs`)

| theorem | statement |
|---|---|
| `TypeCorrect` | `Spec => []TypeOK` |
| `FrontIsThere` | `Spec => [](FrontExists /\ MutexHeld)`: `m_data.front()` is there when it is taken |
| `NobodyStranded` | `Spec => []NoStrandedItem`, if `"blocking_pop" \notin Calls` |
| `FirstInFirstOut` | `Spec => []Fifo` |

`TypeOK` needs `FrontExists`, since what is received is the front; that needs
`MutexHeld`, which ties `lock` to the program counters, so nobody else pops
between a consumer's test and its take. `NoStrandedItem` is strengthened to
`HelpComes`: whoever is on the way takes everything. Here the proof found the
assumption: a consumer woken in `blocking_pop` takes one item and leaves the
others asleep, so the theorem is about consumers that block in `blocking_drain`
(the dispatcher) and otherwise try. `Fifo` follows from `OrderInv`: the queue is
the end of the sequence of pushes (`QueuedIsSuffix`), whatever was received lies
before it (`ReceivedIsGone`) and in order, at one consumer. The assumption on the
constants is `QueueAssumption`: the sets of threads do not overlap, none of them has `NoThread`, the
limit is a natural number, and the calls are among the four.

### Dispatcher (`BackgroundDispatcherProofs`)

| theorem | statement |
|---|---|
| `TypeCorrect` | `Spec => []TypeOK` |
| `CancellationUsed` | `Spec => UsesItsCancellation`: the dispatcher's steps are steps of `Cancellation` |
| `QueueUsed` | `Spec => UsesItsQueue`: they are steps of `BlockingConcurrentQueue`, under a mapping |
| `DestroyedIsClean` | `Spec => []NothingLeaks` |
| `QuietOnceCancelled` | `Spec => QuietAfterCancel`, an action property |
| `NoWorkIsLost` | `Spec => []NothingLost`, if there are finitely many `Items`, no more than `MaxSize` |

The proof is by composition. `CancellationUsed` and `QueueUsed` say that the
dispatcher keeps to the specifications of its parts; then the modules of proofs
above are instantiated here, and what they prove of every queue and every source holds of
these two. The mapping of the queue replaces its `dest`, which the dispatcher's
worker empties when it clears its workload, by `Received`: all that the worker ever
took, run or still held. What is added is `Control`, the lives of the two
threads: where the owner waits (`OwnerWaits`), that the worker is inside the
queue exactly while it drains (`WorkerInTurn`), that the owner notifies from one
place at a time (`OwnerNotifies`), and that the queue stays empty once it was closed and
cleared (`ClosedIsEmpty`), which is what `NothingLeaks` needs.

`NothingLost` follows from the order of the queue and from a count: all that was
pushed was received or is queued, because no push trimmed the queue. The
hypothesis says just that; the dispatcher gives its queue no limit, so `max_size`
is the greatest `size_t`. `DispatcherAssumption` says that the threads
are different ones and that `MaxSize` is a number.

### Task payloads (`TaskPayloadProofs`)

| theorem | statement |
|---|---|
| `TypeCorrect` | `Spec => []TypeOK` |
| `OnceAndNotLost` | `Spec => []RunsOnce` |
| `GivenWhatWasAccepted` | `Spec => []ObservesWinner` |
| `PromiseKept` | `Spec => Promise!SafeSpec`: each step of the payloads is a step or a stutter of `TaskPromise` |

They hold for both values of `Reentrant`, and whatever `MaxClaims` is. `RunsOnce`
says where a continuation is, and is not inductive because it does not say what
the places know of each other. The parts of `IInv`: no sequence holds a
continuation twice (`NoDuplicates`, or taking it out would leave one behind); who
is kept is kept by its parent, which is incomplete (`Kept`), and who is carried is
carried by one actor that is in a call for its parent (`Carried`), so that the
collapse, which moves `conts` from one payload to another, also has to move
`parent`; nobody pending is in neither (`NotLost`); and runs follow from the
place (`RunsCounted`). `ObservesWinner` needs that a complete payload has a result
or a stand-in (`HasResult`), that who calls has left its result there before it takes
the continuations (`InCalls`), that a continuation that
started found its parent complete and no stand-in (`FindsParent`), and who has undertaken to
complete a source: with one claim, its result is that of the one claimant, or
of the winner (`ClaimsCounted`). A continuation completes its own payload, so
nobody contests it (`CompletesItself`). `TaskAssumption` keeps the
kinds of actors apart. Both properties are proved with `IInv` of one lemma per
action and, for the longer actions, one per group of conjuncts.

`PromiseKept` reads the same invariant: who is handed on is pending, so it has not run
(`Carried`, `Kept`, `RunsCounted`); who runs finds its parent complete and no stand-in
(`InCalls`, `FindsParent`); a continuation that completes has run (`CompletesItself`); and
what is collapsed was incomplete, so it stood for nobody yet (`HasResult`). That a task never
stands for itself is one more invariant, `Ahead`.

### State machine (`StateMachineProofs`)

| theorem | statement |
|---|---|
| `TypeCorrect` | `Spec => []TypeOK` |
| `OneCompletes` | `Spec => []OneCompleter` |
| `OpenInTheMap` | `Spec => []MapHoldsOpen` |
| `OneStateAtATime` | `Spec => []ExclusiveUntilCancelled` |

What makes them inductive is ownership: whoever took an entry out of the map has
it to itself (`Owned`), since no entry is in the map under two states
(`OneStateEach`) and none that left it returns (`Fresh`). Then nobody else can
have completed it (`NotExitedYet`), and what the map holds is open (`MapIsOpen`),
where the driver's own entry is the exception to account for (`DriversEntry`).
`Undisturbed` is the invariant of the runs without a cancellation: nobody takes
from the map but the observer whose entry it is (`NobodyTakes`, `OwnEntries`), and
an observer is admitted only by the driver's move (`WorkIsTheMoves`), which
can be found (`MoveIsFound`). That cancellers act only when asked is
`CancelsAsAsked`. The assumption had to say that the driver is not an observer and
that there is a state, without which the driver's entry has no state.

### Router and mediator (`MediatorProofs`)

| theorem | statement |
|---|---|
| `StableUnderIteration` | `Spec => IterationStable`, an action property |
| `TicketsAndListeners` | `Spec => []TicketsFindListeners` (*) |
| `SilentOnceRemoved` | `Spec => RemovedIsSilent` (*), an action property |
| `HeardInOrderByAll` | `Spec => []HeardByAudience` (*) |
| `RouterUsed` | `MediatorSpec => Spec`: the mediator implements the router |
| `SentInOrder` | `MediatorSpec => []SendsInOrder` |
| `RouterBehindMediator` | the four properties of a router, of the one behind a mediator (*) |
| `TypeCorrect` | `MediatorSpec => []MediatorTypeOK` |

(*) if `~DestroysPending` and `EnoughIds`. The first leaves out tickets of
listeners that are pending, for which the properties are false (finding 3). The
second says that no more listeners are added than there are ids; the code's are
`int64`, and with fewer the wrap-around would give an id that is in use.

`IterationStable` rests on `Guarded`: the sentry of an event is taken exactly
while a `fire` of it is on the stack, and what each guard restores is whether there
was one below it. So the guard that clears the sentry, and with it cleans up the
list, is the outermost one. Every other action leaves the names in a list under iteration as they
are, whether it calls, skips, invalidates, returns or throws. The tickets need that ids
that are out are apart and lie behind `nextId` on the circle (`IdsApart`), that
an entry is of its ticket (`EntriesMatch`) and its listener's only one
(`EntriesApart`), and that nobody's entry is dropped while its ticket lives
(`AliveIsListed`). The clean-up is `Valid` of a list followed by the pending one:
the lemmas `Ranks` and `ValidPositions` say that what `remove_if` keeps is in
one-to-one correspondence with the valid positions, in their order. `HeardByAudience`
is about a moment, the end of `fire`, and becomes `FiresKnow`: each call on the stack
knows who it was begun for, in the order of the list (`AudienceInOrder`), has called who
is behind its place and in the audience (`PassedIsHeard`), and only those
(`HeardInOrder`).

`SendsInOrder` is strengthened with the numbers' order from what was fired over
the workload to the queue (`NumbersRise`), the same since the last exception for
what the tick has yet to run (`RestComesLater`), and with `TickInTurn`: a tick fires
one piece of work at a time. It needs neither hypothesis.

### Task groups (`GroupsAndChainsProofs`)

| theorem | statement |
|---|---|
| `TypeCorrect` | `Spec => []TypeOK` |
| `OneLastCompletes` | `Spec => []LastCompletes` |
| `OutcomeOfTheTasks` | `Spec => []TellsOutcome` |
| `CompletesOnce` | no task that is complete changes its outcome, the two groups among them |
| `NobodyInside` | `Spec => NoContinuationInside`, an action property |

The counters are the point: `pendingCount` of `when_all` and `pending` of the scope
are the cardinalities of the sets of tasks that are still to be counted out
(`InputsCounted`, `LiveCounted`), so a counter that reaches 0 has counted all.
The rest of `IInv` belongs to the two parts, one conjunct each, and what each asks of the
other is that a task that is complete stays as it is (`Grows`) and that only its
owner completes a group: the scope takes its tasks once (`TakenOnce`), the error
that is kept is one of a task that failed (`KeepsError`, `KeepsOutcomes`), and nothing is
counted out before it was counted in (`AddedInOrder`, `InTime`).

### Chains of tasks (`GroupsAndChainsProofs`)

| theorem | statement |
|---|---|
| `ChainTypeCorrect` | `ChainSpec => []ChainTypeOK` |
| `ErrorsAreNotLost` | `ChainSpec => []ErrorsTravel` |
| `ResultsStay` | no task that is complete changes its result, but for a coroutine that completes it again |

`ErrorsTravel` looks from a task that has ended at those it depends on, whose results
must not have changed since it read them. So the invariant `ChainInv` is about what tasks
`Give`: their result, and the first one too if a coroutine replaced it. What a
task gave it goes on giving (`Kept`, which every step is shown to satisfy), and then the rest of the
invariant concerns one work or one coroutine at a time, and is disturbed by its own
steps alone:

- `WorkInv`: a callable that takes a value is running, or has returned a task, only
  behind a parent that gave a success; a failure is the body's, the parent's, that of
  the task it stands for, or the token's.
- `CoroInv`: the i-th result a coroutine has was given by the i-th task it awaited
  (`Handed`); a failure it has not looked at is in its variable, in its hand or in the
  exception in flight (`Holding`), which is where the destructor of the result
  object finds it; and while it leaves, its task's result is its body's (`Ended`).

`ResultsStay` follows from `Kept`. `TaskChainAssumption` says that works and coroutines are
different ones, and errors none of the other results. Neither theorem needs the rule that no task
waits for itself: it is there for `EveryTaskCompletes`.

### Library (`LibraryProofs`)

| theorem | statement |
|---|---|
| `TableIsFound` | `Spec => []TicketsFindTheirTable` |
| `EachTargetHasItsOwner` | `Spec => []TargetsAreOwned`, if `~SwapsFunctors` |
| `ProviderStays` | `Spec => []RegisteredWhileNeeded`, if there are finitely many `Regions` |
| `IntervalsAreClosedByTheirHolders` | `Spec => []IntervalsPair`, if there are fewer `Regions` than `Cookies`, and finitely many |
| `OutcomesArrive` | `Spec => []OutcomeSurvives`, if `~FirstUseRaces` |
| `CallablesArrive` | `Spec => []RunsWhereAsked`, if `~Careless` |

An invariant of one of the seven programs is one of `Library`, since the steps of
the others leave its variables alone. The hypotheses are the findings of section 4:
`SwapsFunctors`, `FirstUseRaces` and `Careless` are the uses for which the property is false.

- *Tables.* A ticket's cell leads to the table exactly while the table holds the
  cell's address, and no two tickets have one address. This is `Inv` of `WeakTable`,
  of which the property is a part.
- *Functions.* Every instance that was not destroyed has one owner, a managed function
  whose data it is, and a function that is managed has one that is not destroyed
  (`Rest` of `InplaceFunction`). It is inductive over the calls; inside a call of
  two moves it is restored by the second, so a step is taken apart into what it
  builds and what it destroys.
- *Provider.* The theorem is about every behaviour; what it claims of one ends where the first
  two findings without a run begin, as the property says. `SwitchInv` says when
  `s_registration` refers to an object, and that it is the last one made.
  `RegionsShare` says that exactly the active regions refer to it, and that a
  constructor with a cookie has read nothing else. That would suffice if counts were sets;
  they are numbers that many threads raise and lower, so `Counted` says that the
  count is the number of regions that share, one more for the switch
  (`Own`), and that who counts down to zero is alone in the destructor. A move changes
  who shares and not how many (`MovedShares`), whatever it assigns over gives up one
  (`GivenUp`), and a constructor only raises a count that the switch keeps above zero
  (`ConstructedShares`), which is what being overtaken would break.
- *Intervals.* `IntervalsPair` talks of an end and the begin before it. `Pairs` adds who
  holds an open interval (`OpenIsHeld`), and that cookies in use are apart, of objects and of what
  is in the trace (`CookiesApart`, `EventsPair`). Cookies come from a counter that wraps around and skips 0, and here
  the proof found the hypothesis: with as many constructions as cookies the counter comes
  round to one that is in use, and two intervals have one cookie. The cookies
  that were drawn lie behind the counter on the circle (`Behind`), and there are fewer of them
  than the circle is long. The code's counter has 32 or 64 bits.
- *Outcomes.* The storage leads from a category to its facility and back, whatever was
  registered twice (`MapLeadsBack`); it is made by one thread before anybody uses it
  (`OneMaker`, which is what `FirstUseRaces` breaks); nothing is ever taken out of it. Then an error code
  that was made by the storage of its time (`ComesFrom`) is led back by a later one,
  and each conversion of `Expected` keeps what the result is (`IsOutcome`).
  The assumptions on the constants are that there are four standard categories, that
  `hresult_category` is none of the registered ones and that the null pointer is no error code.
- *Schedulers.* A callable that waits does so in the pipe of the scheduler that took it,
  in the loop of a thread or in the pool. Order is a matter of each of these lines: who is in
  one comes after all that went the same way and ran (`InLine`), also across two
  pipes that had the same descriptor one after the other, since what the first still held
  was lost with it. Place is a matter of who holds which pipe: `PipesHeld` gives each
  of the two descriptors to one scheduler, and says that its loop watches the read end, so the
  callback of a descriptor that is due reads the pipe it was called for
  (`DueIsReadable`). That is what destroying a scheduler whose event is due would
  break, and what `~Careless` excludes. Moves hand the pipe over and leave nothing behind
  (`Handover`), and references are counted by objects that hold one (`RefsCounted`). The
  assumptions on the constants are that there are finitely many objects and descriptors
  and that callables, descriptors and threads are different things.

### What is only model-checked

Liveness (`CancelReachesAll`, `EverythingRuns`, `NotifiedWorkerStops`,
`MoveCompletes`, `EverySendFires`, `ScopeCompletes`, `EveryTaskCompletes` and the
fairness of `ImplementsSignal` and `KeepsPromise`) is out of the
prover's reach, which handles neither fairness nor `ENABLED`. `OrderedVectors` and
`Algorithm` compute with recursion, over data, and would need induction.
So `HoldsItsElements` and `AgreeWithReference` stay with TLC; every other safety property
of the runs is proved.

## 6. Plan

Written so far, in order of importance: cancellation (on which everything else
waits), queue, dispatcher, tasks, state machine, router, task groups, task
chains, mediator, the library around them; proofs of every safety property of
all of these except the vectors and the algorithms, and of the refinements of
`OneShotSignal` and `TaskPromise`. What could follow: `WhenAll`, `PendingTaskScope` and
`TaskWork` with the tasks of `TaskPromise` as a part, as the dispatcher has its queue;
today they have its rules in their guards.

The number of runs is kept small: a module of the plan brings one run or joins
another module's, and properties that are proved need no run.

## 7. Not modelled

- `affinity`: a contract check on the calling thread.
- Type traits, iterators, `finally_scope`, arrays, macros: compile-time definitions
  and stateless helpers. Conversions of strings between encodings.
- Thread names, the debug log of trace regions and the texts of errors: output.
- A tick inside a tick of the same dispatcher, and a callable that destroys the entry
  of a `weak_table` it is called for: undefined behaviour of uses nothing in the
  repository makes.
- That a vector merged with itself, which ContainerUnitTest.cpp does (lines 44 and 51),
  inserts its own range if it is a `sorted_vector` (sorted_vector.h:230). The standard
  leaves this undefined for `std::vector`; `MergeItself` has the outcome that the test expects
  and that implementations which copy the range have. `unique_vector` merges
  into a vector of its own.
- System calls of the schedulers that fail: the constructors throw.
- The loops, pipes, run loops and asynchronous operations of the systems are
  modelled from how the code uses them.
- Promises of `std::future`, and the build without `set_exception`: an exception
  that leaves the coroutine ends the process there.
- Lifetimes: weak and shared references, and what happens to a continuation
  whose parent is gone. The models keep every object.
- The value with which a state is exited, and the values and errors of tasks
  beyond whose they are.
