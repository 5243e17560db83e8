# Specifications of cpp-cosplays

cpp-cosplays is a collection of thirteen small header-only C++ components that
rebuild parts of the standard library: five concurrent ones (`mutex`,
`spinlock`, `semaphore`, `rw-lock`, `mpmc-bounded-queue`) and eight sequential
ones (`set`, `deque`, `smart-ptrs`, `intrusive-list`, `list`, `vector`,
`optional`, `any`). No component includes another: each is a system of its own,
used by the threads or the sequential program of its caller. This directory
holds TLA+ specifications of them, configurations for TLC, and proofs for
TLAPS.

Contents: [inventory](#inventory), [modules](#modules-and-how-they-correspond-to-the-code),
[runs](#the-runs-what-they-check-and-show), [findings](#findings),
[fairness](#fairness), [proofs](#proofs), [limits](#what-is-only-model-checked-and-what-is-not-modelled),
[plan](#plan), [how to run](#how-to-run).

## Inventory

| component | state | operations | who interacts | what is hard | what makes it correct |
|---|---|---|---|---|---|
| Mutex `mutex/mutex.h` | the word `locked_` (0 free, 1 locked, 2 locked and perhaps somebody asleep) | `Lock`, `Unlock`, inside them `TryLock`, `Parking`, `FutexWait`, `FutexWake` | threads through the word; the kernel's futex queue | lost wakeups, the window between `fetch_sub` and `store(0)`, relaxed store of 2, spurious `compare_exchange_weak` and futex returns | exclusion, happens-before of critical sections, a sleeper always has a waker, waiters do not burn the cpu |
| SpinLock `spinlock/spinlock.h` | `locked_`, the local `num_tries` | `Lock`, `Unlock` | threads through the flag | relaxed polls, yielding to a preempted owner | the same lock contract, spinners yield |
| Semaphore `semaphore/semaphore.h` | `count_`, `ticket_`, `top_`, one mutex, one condition variable | `Acquire`, `Acquire(callback)`, `Release` | threads through mutex and condition variable | `notify_one` wakes anybody, the predicate hands the notification on, `top_` moves without one and does not move when the callback throws | permits conserved, first come first served, nobody forgotten |
| RWLock `rw-lock/rw_lock.h` | one 32 bit word: readers below, the writer's bit above | `Read(func)`, `Write(func)`, `EndRead` | threads through the word and `atomic::wait` | readers announce themselves while a writer leaves, waits on old values, `func` may throw | writers alone, the word is exact, no lost wakeup, readers preferred |
| MPMCBoundedQueue `mpmc-bounded-queue/mpmc.h` | `head_`, `tail_`, a ring of (epoch, data) | `Enqueue`, `Dequeue` | producers and consumers through the epochs | positions claimed by CAS and published later, stale relaxed loads, laps, weak CAS | slots exclusive, data race free, FIFO, false only for a reason, lock-free |
| Deque `deque/deque.h` | `blocks_`, the pointers just outside the used blocks, two cell indices, `size_` | constructors, assignments, `Swap`, `PushBack/Front`, `PopBack/Front`, `operator[]`, `Clear` | objects share the heap | pointers outside the array, reallocation in the middle, lazily freed blocks | one owner per block, elements do not move, a sequence |
| Set `set/set.h` | AVL nodes (left and right own, parent is weak), fakeroot, `leftmost_node_ptr`, `size` | `insert`, `erase`, `find`, `lower_bound`, `begin`, `end`, copy, `++`, `--` | iterators hold node and tree | exchange of adjacent nodes in `Erase`, balance formulas, cascades of rotations | links agree, balances real, order kept, an ordered set |
| SharedPtr, WeakPtr `smart-ptrs/smart_ptr.h` | `obj_ptr_`, `counter_`, the shared `LinkCounter` | constructors, destructors, assignments, `Reset`, `Lock`, `IsExpired` | pointers share counters | last strong and last weak in either order, self-assignment, `Reset` by destructor call | exact counts, no leak, no double delete, no resurrection |
| IntrusiveList `intrusive-list/intrusive_list.h` | `next_`, `prev_` of hooks and roots | link, unlink, push, pop, move, destroy, iterate | items and lists destroy each other's links | destruction in any order, moves of empty lists and to itself | rings agree, an item in one list, a sequence |
| List `list/list.h` | nodes in a ring with an allocated root, `size_` | constructors, assignments, push, pop, `Erase`, iterate | iterators | `End()` travels with the root in a move, a list moved to itself, a destructor that counts on `size_` | one owner per node, `size_` exact, a sequence |
| Vector `vector/vector.h` | array, `size_`, `capacity_` | constructors, assignments, `Swap`, push, pop, `Reserve`, `Clear`, iterate | iterators are raw pointers | growth from capacity 0, which iterators outlive which call, moves to itself | one owner per array, nothing read before it is written, a sequence that doubles |
| Optional `optional/optional.h` | buffer and flag | construct, assign, `Reset`, `Value` | a `T` may own another `Optional` | a `T` whose copy throws between destruction and construction, a source inside the value that is replaced | the flag says whether a `T` lives in the buffer |
| Any `any/any.h` | pointer to a typed holder | construct, assign, `Clear`, `Swap`, `GetValue` | a value may have an `Any` inside | a source inside the value that is replaced, self-assignment, `Clear` by destructor call | one owner per holder, value and type kept |

The remaining files (`test.cpp`, `tests.cpp`, `run.cpp`, `*.sh`, READMEs) are
tests, a vendored test framework, benchmarks and build scripts. They were read
for what callers do and for what the components promise.

## Modules and how they correspond to the code

Every component has a detailed module and an abstract module that says what it
promises in the fewest words. TLC runs the detailed module with the constants its
configuration gives, or an `MC` module that adds what a configuration cannot say (symmetry,
a `VIEW`, constants that are computed, several headers in one run). The detailed module instantiates the abstract one under a refinement mapping
(`INSTANCE ... WITH`); the property is called `Implements...`.

| component | detailed | promises | TLC | proofs |
|---|---|---|---|---|
| Mutex | `Mutex` | `AbstractLock` | `Mutex` | `MutexProofs` |
| SpinLock | `SpinLock` | `AbstractLock` | `SpinLock` | `SpinLockProofs` |
| Semaphore | `Semaphore` | `FairSemaphore` | `Semaphore` | `SemaphoreProofs` |
| RWLock | `RWLock` | `AbstractRWLock` | `RWLock` | `RWLockProofs` |
| MPMC queue | `MPMC` | `BoundedQueue` | `MCMPMC` | `MPMCProofs` |
| Deque | `Deque` | `AbstractDeque` | `MCDeque` | `StorageProofs` |
| Set | `Set` | `OrderedSet` | `MCValues` | |
| smart pointers | `SmartPtr` | `SharedOwnership` | `MCSmartPtr` | `OwnershipProofs` |
| IntrusiveList | `IntrusiveList` | `AbstractLists` | `MCContainers` | `IntrusiveListProofs` |
| List | `List` | `AbstractList` | `MCContainers` | `IntrusiveListProofs` |
| Vector | `Vector` | `AbstractVector` | `MCContainers` | `OwnershipProofs` |
| Optional | `Optional` | `AbstractOptional` | `MCValues` | `StorageProofs` |
| Any | `Any` | `AbstractAny` | `MCContainers` | `OwnershipProofs` |

`MCContainers` puts four sequential headers into one run (`IntrusiveList`,
`List`, `Vector`, `Any`), `MCValues` two more (`Optional`, `Set`). They share
nothing, so a program is taken to use one of them: the variable `header`,
chosen at the start, says which, and the variables of the others stay as they
are. A module whose names do not clash with the others' is extended; `List`,
`Vector`, `Any` and `Deque` are wrapped, in `NamedList`, `NamedVector`, `NamedAny` and
`NamedDeque`: each
holds its component's variables, one instance of the component, the names
`ArraysOwned`, `ImplementsVector` and so on for its properties, and the assumptions
of its theorems. The proofs use the same wrappers, so that the run checks the
very definitions the theorems are about. `Named` has the constants they share.

**Granularity.** In the concurrent modules one action is one atomic access, one
system call or one access to the data the component protects; `pc[t]` names the
place in the code the thread has reached. In `Semaphore` an action is what a
thread does between two releases of `mutex_`, because all of its state is
guarded by it. In the sequential modules an action is one call of a member
function, the trailing normalisations (`Rebalance`, `Reallocate`, destruction
of by-value parameters) included. The helper functions of the code are
operators on a *memory* value (`m`, or the tree `t`), composed in the order the
code calls them.

**Memory order.** `Mutex`, `SpinLock` and `MPMC` carry ghost variables for the
C++ happens-before relation of the last access to the protected data: to whom it
is visible (`seen`, `fresh`) and whether the atomic's release sequence carries
it to the next acquire (`carried`). A relaxed store ends the sequence, a
read-modify-write keeps it. `NoDataRace` is checked on them. The values of the
atomics themselves are sequentially consistent except that the relaxed loads of
`head_` and `tail_` in `MPMC` may return any older value. `RWLock` uses
`seq_cst` only.

**Data.** Values, keys, strings and addresses are numbers or model values.
`SmartPtr` chooses the address of a fresh allocation
deterministically, `Deque` and `List` count on from the highest one in use; a `VIEW` identifies states that differ in addresses only.
The view of a `List` has its ring in both directions, what `prev` points to as
well as the walk by `next`, so that a state in which they disagree is never taken
for one that has been seen. The views of a `Vector`, an `Any` and a `Deque` leave
out the heap but for its size; there the theorems say what the view drops.
`Set` names a node by its key, since a key has at most one node and a node never
changes its key; the fakeroot is 0. `List`, `Vector` and `Any` keep a heap of
nodes, arrays or holders as a function whose domain are the allocated addresses,
so that a leak is an address nobody has. `Optional` and `Any` model a `T` that has
another `Optional` or `Any` inside: only then can the source of an assignment die
with the value it replaces.

**Mutants.** Operators called `Mut...` stand before the definition they would
replace: each is a plausible slip in that code (a lost reset, a weaker memory
order, a swapped field), and one property fails when it is put in place. They
are not used by the specifications.

## The runs: what they check and show

| run | module, configuration | instance | distinct states | properties |
|---|---|---|---|---|
| `mutex` | `Mutex`, `Mutex.cfg` | 4 threads | 41 859 | `NoDataRace` `SleeperHasWaker` `ImplementsLock` `LockProgress` `WaitersSleep` |
| `spinlock` | `SpinLock`, `SpinLock.cfg` | 3 threads, 10 polls | 113 564 | `NoDataRace` `ImplementsLock` `WaitersYield` |
| `semaphore` | `Semaphore`, `Semaphore.cfg` | 5 threads, 1 permit, 6 tickets | 48 878 | `FreeSemaphoreWakes` `ImplementsFairSemaphore` `EveryWaiterServed` |
| `semaphore_stranded` | `Semaphore`, `Semaphore_stranded.cfg` | 3 threads, 2 permits | violated | `NoStrandedWaiter` |
| `rwlock` | `RWLock`, `RWLock.cfg` | 3 threads | 51 272 | `WordCountsUsers` `SleepersHaveWaker` `ImplementsRWLock` `ReaderProgress` `WriterProgress` |
| `mpmc` | `MCMPMC`, `MPMC.cfg` | 3 threads, 2 slots, 4 positions, 2 values | 349 437 | `ClaimsExclusive` `NoDataRace` `FalseIsJustified` `ImplementsQueue` |
| `mpmc_lockfree` | `MCMPMC`, `MPMC_lockfree.cfg` | 2 threads, 2 slots, 4 positions | 11 286 | `LockFree` |
| `deque` | `MCDeque`, `Deque.cfg` | 2 objects, blocks of 2, 3 elements, 6 block pointers | 21 956 | `BlocksOwned` `ElementsStay` `ImplementsDeque` |
| `deque_outside` | `MCDeque`, `Deque_outside.cfg` | the same | violated | `NeverStops` |
| `smart_ptr` | `MCSmartPtr`, `SmartPtr.cfg` | 4 shared, 2 weak pointers | 7 879 | `OwnershipExact` `ImplementsOwnership` |
| `containers` | `MCContainers`, `Containers.cfg` | 3 intrusive lists and 4 items, 2 lists, 2 vectors, 2 Anys, see below | 9 314 | `HooksConsistent` `EndsRespected` `ImplementsLists` `NodesOwned` `ImplementsList` `ArraysOwned` `ImplementsVector` `HoldersOwned` `ImplementsAny` |
| `values` | `MCValues`, `Values.cfg` | 2 Optionals; 12 keys, an iterator in sets of up to 5 | 95 374 | `FlagTellsLife` `ImplementsOptional` `TreeSound` `SearchExact` `ImplementsSet` |

Each property has a comment in its module that states it in words. The type
invariant of a module is the first conjunct of `ClaimsExclusive`,
`BlocksOwned`, `TreeSound` (in `WellLinked`), `OwnershipExact` (in `CountsExact`),
`HooksConsistent`, `NodesOwned`, `ArraysOwned`, `FlagTellsLife` and
`HoldersOwned`, or proved (`TypeCorrect` in the proof modules, where it says more than types: the lock
word stays in 0..2, the readers-writer word below its capacity). Mutual
exclusion and the conservation of permits follow from the `Implements...`
property of their run and are theorems as well.

Why the bounds are enough:

- **Mutex, SpinLock, RWLock.** The state is finite without bounds. Three threads
  are an owner, a sleeper and one in between; the fourth in `mutex` gives two
  sleepers beside a thread in `Parking()`. The theorems hold for any number.
- **Semaphore.** With one permit, four threads are enough for one to starve: a
  holder that releases, and three that queue, two of which hand the notification to
  each other. The fifth makes queues of four, and `MaxTickets` = 6 lets a thread
  come back while the others still queue. Every callback may throw. With two permits and a
  thread more there are 443 559 states, which takes TLC too long for a run that is repeated;
  what this one checks as a safety property is proved for every number of
  permits (`BatonKept`, `FairnessRefinement`), and the run of the finding has
  two. Deadlock is not checked, because all threads are idle once the tickets
  are used up.
- **MPMC.** `MaxPos` = 4 positions are two laps over two slots: the smallest
  ring, in which every slot is reused and an old `prev_tail` can be a whole lap
  behind. Three threads are a stopped producer, a stopped consumer and a third
  party. No `Enqueue` starts that could pass the bound.
- **Deque.** `BlockSize` = 2 makes both cells of a block boundary cells. Three
  elements span up to three blocks, and six block pointers shared by two objects
  allow one `Reallocate` from 2 to 4 beside a second deque. The bounds are on
  both objects together. Deadlock is not checked: after `stopped` nothing
  happens.
- **Set.** Twelve keys are the fewest for which one erasure needs two rotations
  (an AVL tree of height five has at least twelve nodes, and a cascade needs the
  sparsest one; 94 474 states). All tree shapes reachable with up to twelve keys are visited;
  the iterator is only followed in sets of up to five, `MaxWalked`, while
  `SearchExact` examines every node of every tree.
- **SmartPtr.** Four `SharedPtr`s and two `WeakPtr`s give two objects with two
  owners each and a watcher, or one object all share. There is a counter for
  every variable and one to spare for a call that allocates before it frees;
  that addresses do not matter is what the `VIEW` says. `MaxLeaked` = 1: one
  string may be leaked by an exception, any number of pointers lost.
- **IntrusiveList.** Two lists and a third are source, target and bystander of a
  move; four items give a list with an interior.
- **List.** Two lists of at most three nodes: both ends and a node between them,
  a list moved to the other and to itself, and one iterator, at a node or at
  either `End()`. `new` and copies may throw (1 826 states).
- **Vector.** Two vectors of at most three elements and `Reserve` up to four:
  growth from 0 to 1, 2 and 4, arrays with and without spare cells (6 756 states).
- **Optional, Any.** Two variables and values nested three deep: a source that
  is the value, is inside of it, or is inside of what is inside of it. In `Optional` every
  constructor of `T` may throw.

Deadlock is not checked in `values` and `containers` because both Optionals, or
both Lists, may be lost: an exception has left them in a state in which not even their
destructor may run.

Symmetry is used in `mpmc`, `deque`, `smart_ptr` and `containers`: the
permuted sets occur in the modules only under quantifiers and as indices. None
of those runs checks a liveness property. (In `SmartPtr`, `Deque`, `List`, `Vector` and `Any` addresses
are picked by `CHOOSE` or `Min` but are not in a permuted set.)

## Findings

**A waiter can be stranded beside a free permit** (`semaphore_stranded`,
`semaphore.h:23`). `Acquire()` ends with `++top_`, which passes the turn to the
next ticket, but notifies nobody. Two threads hold both permits, a third queues;
two `Release()` calls notify it once, and before it runs the first thread queues
again: its turn has not come, its predicate's `notify_one` has no sleeper to
reach, it sleeps. Now the woken thread takes its permit and advances `top_`: one
permit is free, it is the sleeper's turn, and no one will wake it until the next
`Release()`. It is delayed until then, not deadlocked. With a single permit it cannot happen (theorem
`SinglePermitNotStranded`).

**PopBack and PopFront read outside `blocks_`** (`deque_outside`, `deque.h:123`
and `:155`). When the block just emptied is the last of the array,
`tail_block_ptr_` equals `blocks_ + num_blocks_`; the next `PopBack()`
dereferences it to see whether a spare block has to be deleted and calls
`delete[]` on what it finds unless that is null. `Deque(kBlockSize + 1)` and two
`PopBack()`s suffice; `PopFront` reads `blocks_[-1]` likewise. The model lets
the word read be null, and the call goes on, or not, and the program is
`stopped`. All other properties of `Deque` are about the executions that go on.

The models record more, without a run of their own:

- **A callback that throws stops the semaphore** (`semaphore.h:22-23`, action
  `Throw`): `++top_` is not reached, the ticket is nobody's, and no later one gets
  its turn. `ThrowIsFatal` says so and is proved (theorem `ThrowStops`).
- **A writer that throws** in `RWLock::Write()` leaves the writer's bit set for
  ever (`WriteThrows`; `Read()` has a `catch`), so the liveness properties of
  `RWLock` are stated for executions in which no writer throws. `SleepersHaveWaker`
  says both: before, a sleeper has a waker; afterwards nobody enters any more.
- **Assignment to an `Optional` may lose the Optional** (`optional.h:50` and
  `:72`): the old value is destroyed, then `T`'s constructor throws, and
  `has_value_` stays true over a buffer in which nothing lives. The next
  destructor, `Reset()` or `Value()` uses the dead object. The variable is then
  in `lost`, and `FlagTellsLife` says that this is the only way to get there.
- **Move assignment may lose a `List`** (`list.h:147`): it has destroyed its own
  root and taken that of the other when `new` throws, and two lists delete
  one root. Every other call that throws leaves `List` alone: `CopyThrows`
  shows that of the copy constructor, which delegates to `List()`.
- **`Reset` may lose a `SharedPtr`** (`smart_ptr.h:61-63`): its count is given up
  when `new LinkCounter` throws, and its destructor gives it up again
  (`ResetThrows`). The constructor leaks its argument in that case
  (`smart_ptr.h:17`; `std::shared_ptr` deletes it).
- **An `MPMCBoundedQueue` of size 1 overwrites its element**: the epochs "full at
  p" and "free for p + 1" coincide. The commented assertion at `mpmc.h:20` admits
  it; the assumptions `SizeAssumption` and `PowerOfTwoAssumption` do not, and
  the theorems about `MPMC` need the first.

Read in the code and not in a model, as it changes no state: `GetValue` of an empty
`Any` (`any.h:116`) dereferences its null `inner_ptr_`, where `any/test.cpp:144`
expects `std::bad_cast`.

## Fairness

- `Mutex`, `SpinLock`: weak fairness of the steps *inside* `Lock()` of each
  thread: the operating system schedules a runnable thread. Nobody has to call
  `Lock()`, and a critical section may last for ever; `LockProgress` names the
  extra assumption that critical sections end as its premise. `WaitersSleep`
  assumes that spurious futex returns cease. Weak `compare_exchange` failures
  are actions, but not assumed to end except through fairness of the other steps.
- `Semaphore`: weak fairness of `Resume` (a woken thread gets the mutex) and
  `Release` (a holder releases), and nothing about whom `notify_one` wakes, as
  the C++ standard promises nothing. Therefore threads may starve: with three or
  more in the queue two of them can pass the notification between each other
  for ever while the third, whose turn it is, sleeps. `EveryWaiterServed` says
  that there is no other way: everybody is served if in the end at most two
  threads queue, or if nobody sleeps through notifications for ever
  (`NonePassedOver`). With `<= 3` in place of `<= 2` TLC shows two threads that do
  this. A ticket whose callback has thrown ends
  everybody's turn: the property is stated up to `Skipped`, and `ThrowStops` is
  the theorem about what follows.
- `RWLock`: weak fairness of the steps inside `Read` and `Write`, `func` ending
  included. Writers may starve, as `rw-lock/README.md` says; `WriterProgress`
  asks only that a writer enters when readers stop coming.
- `MPMC`: none in the specification. `LockFree` says that weak fairness of *one*
  thread's own steps is enough for that thread's call to return. With a bounded
  number of positions the others can interfere only finitely often, which is the
  difference between lock-free and wait-free; spurious CAS failures are switched
  off here, as they could go on for ever.
- The sequential components have safety properties only.

## Proofs

The proof modules extend the component's module and prove, for every set of
threads (finite where counting needs it) and every value of the other
parameters, `Spec => []P` for the safety properties and the refinement of the
abstract module. Each follows the same argument: an inductive invariant `IInv`,
`Init => IInv`, one lemma per group of actions for `IInv /\ [Next]_vars =>
IInv'`, then `IInv => P`; the refinement lemma `StepRefines` maps every step to
an abstract step or a stutter, and the temporal theorems combine these by PTL.

- **MutexProofs.** `MutualExclusion` is not inductive: it needs that the word is
  nonzero while somebody owns the mutex (`WordTellsOwner`). `DataRaceFree` needs
  that owners have seen the last access and that a free word carries it
  (`OwnerHasSeen`, `FreeWordCarries`). `SleeperHasWaker` is a conjunct of its
  own: it is preserved only together with the meaning of the word.
- **SpinLockProofs.** `FlagTellsOwner`, `OwnerHasSeen`, `FreeFlagCarries`.
- **SemaphoreProofs.** Tickets of queued threads are exactly `top .. ticket-1`,
  or without `top` when a callback has thrown, in which case nobody passes again;
  permits are conserved; while all permits are free and no callback has
  thrown some queued thread is awake (the baton is kept). Steps are first summarised by what they do to the holders
  and the queue (`Admitted`, `Queued`, `Released`).
- **RWLockProofs.** The word equals readers plus 65536 times writers
  (`WordMeaning` reads it back the way the code does), whoever waits, waits for a
  reason (`WaitsForReason`) and for somebody who is inside (`WaitsForSomebody`). Until a writer throws, that
  somebody is awake and comes to `notify_all` (`WakerKept`); a writer that has
  thrown stays inside, and nobody enters beside it (`ThrownStays`): `NoLostWakeup` says the two. The assumption `ThreadsAssumption` (fewer
  than 65536 threads) is needed: one more reader is a writer.

- **MPMCProofs.** Threads, slots and positions in any number. A claim and its
  publication are two steps, and a stalled thread may be laps behind, so the
  invariant speaks of every position at once: those in `head..tail-1` are full or
  being written, those in the lap after them are free or being read
  (`SlotsCovered`); whoever holds a slot has a position of its own next to the
  window, and the epoch says so (`HoldersPlaced`); epochs never go back, so a check
  that has succeeded stays true until the `compare_exchange` (`ChecksLast`). With
  that, a successful claim finds its slot free and `ClaimsExclusive` follows.
  `DataRaceFree` adds that the last access to a slot is known to its holder and to
  everybody whose `compare_exchange` can still succeed (`ViewsPassedOn`). In
  the refinement an item of the queue is in its slot or in the hands of the
  thread that writes it, so that a claim is the operation and a write a stutter.
  That positions less than a lap apart have different slots is a fact of
  division proved on the way (`SlotsDiffer`).
- **OwnershipProofs, smart pointers.** Any number of `SharedPtr`s, `WeakPtr`s, counters and strings.
  The invariant (`Balanced`) says what the counters must be: `strong` is the number
  of `SharedPtr`s with that counter, by cardinality of a set, `weak` that of the
  `WeakPtr`s, a counter is allocated while either is positive, a string while the
  first is, and every pointer to a counter has the string that counter counts.
  Each call is one or two changes of a number, in the order of the code: an
  assignment counts the new owner before it releases the old one, a move is a copy
  that empties its source, `Reset` releases and then constructs. That `new`
  finds room when memory is larger than what the pointers can hold is a
  pigeonhole argument (`CounterRoom`, `StringRoom`).
- **OwnershipProofs, Vector.** Any number of `Vector`s of any size, any addresses.
  The invariant (`VectorInv`) says that every vector in use has an array that is
  allocated and no other vector has, that every array allocated is some
  vector's, that `size_` is at most `capacity_`, the capacity is the array's and
  the cells below `size_` hold values (`VectorsSound`), and that the iterator, if there is
  one, is in its vector's array (`IteratorGood`). A call is composed, as in the code, of
  giving a variable a new array (`Reallocated`), changing the cells and the size inside
  one (`Changed`), exchanging two variables (`Moved`, `Swap`) and deleting an array;
  one lemma for each. `VectorRefinement` follows from what these do to
  `ItemsOf`, `CapacitiesOf` and `PositionOf`, the maps to the abstract vector; a
  fresh array is found because there are more addresses than vectors
  (a pigeonhole argument again).
- **OwnershipProofs, Any.** Any number of `Any` variables, of any nesting depth. The
  invariant (`AnyInv`) says that every variable has a chain of holders, from the
  one it points to into the values, that the chains have no holder in common and
  no holder twice, and that together they are the whole heap (`Forest`); what a
  variable holds is the sequence of the values in its chain (`Keeps`). The
  temporary of a call is one more owner (`Temp`), and every call is composed of
  three changes: holders are put around what the temporary has (`WrapKeeps`), two
  owners exchange what they have (`TradeKeeps`, also with the temporary: this is
  `Swap` as well as a move), one is deleted with its chain (`DropKeeps`). A source
  inside of what is replaced needs no case of its own, because the temporary has its
  values before anything is deleted. That `Chain`, which follows the pointers, finds
  the chain of the invariant is an induction on a number (`ChainIs`), that `new` finds
  room a pigeonhole argument (`HolderRoom`). `AnyRefinement` follows from what each
  call does to what the variables hold (`AnyEffect`).
- **StorageProofs, Deque.** Any number of `Deque`s, of any size, with blocks of any
  size. The invariant (`DequeInv`) says that there are contents `K`, a sequence for
  each deque, which the members and the heap hold (`AllHold`): the pointers between the
  two ends are those of different blocks, at most one beyond each end is not
  null (`Pointers`, `Ends`), `size_` counts the cells between the ends (`Sized`), the
  blocks of two deques are apart and together the whole heap (`Apart`), and
  `operator[]` reads the sequence (`ReadAs`). Cells are numbered through the blocks,
  so that the division in `operator[]` finds the cell of a number (`PlaceIs`), no
  two indices have one cell (`PlaceUnique`), and a deque whose pointers are
  moved together keeps its places (`PlacesStay`). The code is followed call by call:
  allocating a block, reallocating `blocks_`, opening the next block, writing, taking
  the last or the first element and releasing a spare block have one lemma each
  (`AllocStores`, `ReallocStores`, `BackOpened`, `BackAdded`, `FrontTaken`, ...), which
  says what it does to the heap, to the sequence and to the places of the
  others. `ElementsStayThere` is the last part of these, `DequeRefinement` the second
  (`Steps`), `BlocksAlwaysOwned` the invariant. The loops of the constructors (`BlocksFor`,
  `Filled`) are inductions on a number.
- **StorageProofs, Optional.** Any number of Optionals, of any nesting depth. The
  invariant (`Fits`) says that a variable not lost is a sequence of cells whose
  flags are right and of which all but the innermost have a value. All actions
  are brought into four shapes first (`Shape`): a variable gets a sound sequence,
  is lost, is destroyed, or is written through `Value()`. The case analysis is
  where a source is inside of its target.
- **IntrusiveListProofs.** Any number of lists and items. The invariant is that
  there are *chains* `C`, a sequence of items for each list, no item twice, and
  that the pointers say exactly `C`: around each ring `next` and `prev` are inverse,
  every other hook is null (`Rings`). One lemma each shows what inserting,
  unlinking, constructing, destroying and moving a root does to the chains, the
  writes of the code taken one by one (`InsertKeeps`, `RemoveKeeps`, `MoveKeeps`,
  ...). `~List()` pops until the list is empty and `Contents` walks the ring: both
  are inductions on a number, and give `EmptiedKeeps` and `ContentsAre`, after
  which the refinement is about sequences only.
- **IntrusiveListProofs, List.** Any number of `List`s of any length. Again there
  are chains, of nodes now (`NodeRing`), and besides them the heap: no node is in two
  rings and the rings are all that is allocated (`HeapOf`, `NodesHold`). A ring is
  built, filled, popped and deleted while the rest of the heap stays as it is (`Joined`);
  `LinkJoins` puts one node into a ring and `UnlinkJoins` takes one out, and the
  loops of the copy constructor and of `~List()` are inductions over
  them. A call gives a list a new ring (`Renewed`), passes one on (`Passed`), gives one up
  (`GivenUp`), makes it longer or shorter (`Grown`, `Shrunk`) or writes a value
  (`Changed`), and leaves all other lists alone (`Untouched`). The refinement reads
  the values off the chains (`ItemsFor`) and the iterator's place off its node
  (`PositionNow`, `PositionNext`); each of the six changes is then an action of `AbstractList`.

Induction is used in `IntrusiveListProofs` and in the parts about `Any` and `Deque`: the library's induction theorems take an
operator and cannot be applied, but that every nonempty set of naturals has a
least element can be (`LeastNumber`, from `WFMin` of `WellFoundedInduction`, and
`SetInduction`; `AnyLeastNumber` and `AnySetInduction` are the same facts in the other modules),
and recursive *functions* can be unfolded.

| assumption | says | why |
|---|---|---|
| `Mutex`: none | | |
| `SpinLock`: `MaxNumTriesAssumption` | a positive number of polls | a constant of the code |
| `Semaphore`: `CountAssumption`, `ThreadsAssumption`, `BoundAssumption` | permits positive, threads finite | counting |
| `RWLock`: `ThreadsAssumption` | fewer than 65536 threads | one more reader is a writer |
| `MPMC`: `SizeAssumption`, `NoneAssumption` | two slots or more; no value is None | one slot is a finding above. The proofs do not need a power of two |
| `SmartPtr`: `NamesAssumption`, `RoomAssumption` | names do not clash; memory is infinite or larger than what the pointers can hold | running out is an action of its own |
| `Optional`: `NamesAssumption` | names do not clash, depth positive | |
| `NamedVector`: `VectorNames`, `VectorBounds`, `VectorRoom` | names do not clash, bounds are numbers; finitely many vectors, and addresses infinitely many or more than those | a call that grows allocates the new array before it deletes the old one |
| `NamedAny`: `AnyNames`, `AnyBounds`, `AnyRoom` | names do not clash, depth positive; finitely many variables, and addresses infinitely many or `MaxNesting` for each variable and a temporary | a call makes at most one temporary before it deletes anything |
| `NamedDeque`: `DequeNames`, `DequeBounds` | null is not an address and a deque not constructed no sequence; blocks have a cell, bounds are numbers, 0 is an int | `Deque(size)` pushes zeros. Addresses are the natural numbers: `new` does not throw here |
| `NamedList`: `ListNames`, `ListBounds` | null is not an address and a list not constructed no sequence; the bound is a number | addresses are the natural numbers; where `new` throws is an action |
| `IntrusiveList`: `NamesAssumption` | hooks of lists are not hooks of items, null is no hook; finitely many items | `~List()` would not end |

TLC evaluates all of them in the runs; those of `Optional` and `IntrusiveList` are
hypotheses of the theorems and evaluated by `MCValues` and `MCContainers`.

| theorem module | theorems |
|---|---|
| `MutexProofs` | `TypeCorrect` `Exclusion` `DataRaceFree` `NoLostWakeup` `LockRefinement` |
| `SpinLockProofs` | `TypeCorrect` `Exclusion` `DataRaceFree` `LockRefinement` |
| `SemaphoreProofs` | `TypeCorrect` `Conservation` `Tickets` `BatonKept` `ThrowStops` `SinglePermitNotStranded` `FairnessRefinement` |
| `RWLockProofs` | `TypeCorrect` `WriterAlone` `WordExact` `NoLostWakeup` `RWLockRefinement` |
| `MPMCProofs` | `Exclusiveness` `DataRaceFree` `FalseJustified` `QueueRefinement` |
| `OwnershipProofs` | `OwnershipKept` `OwnershipRefinement` `ArraysAlwaysOwned` `VectorRefinement` `HoldersAlwaysOwned` `AnyRefinement` |
| `StorageProofs` | `FlagsTold` `OptionalRefinement` `BlocksAlwaysOwned` `ElementsStayThere` `DequeRefinement` |
| `IntrusiveListProofs` | `HooksAgree` `EndsKept` `ListsRefinement` `NodesAlwaysOwned` `ListRefinement` |

## What is only model-checked and what is not modelled

Model-checked only:

- every liveness property (`LockProgress`, `WaitersSleep`, `WaitersYield`,
  `EveryWaiterServed`, `ReaderProgress`, `WriterProgress`, `LockFree`), as the
  prover has no rules for fairness (`ENABLED`);
- everything about `Set`: its loops and recursions are `RECURSIVE` operators,
  which the prover cannot unfold;
- what the runs of the findings violate, `NeverStops` and `NoStrandedWaiter`.

Not modelled:

- Reordering of atomic accesses beyond the ghosts and the stale relaxed loads
  described above.
- Wrap-around of the 64 bit positions of the queue, the tickets and the futex
  word's sign: 2^64 operations are out of reach of the program as well.
- Exceptions in `Deque`, `Set`, `Vector` and `Any`, from `new` or from the
  constructors of their values, and failing allocations of the program itself.
  In `RWLock`, `Semaphore`, `Optional`, `List` and `SmartPtr` what is thrown between
  two changes of the component's state is modelled.
- Calls outside a component's contract: unlocking a mutex one does not own,
  pushing an intrusive item that is already linked, moving a `Set` iterator past
  the ends, giving one raw pointer to two `SharedPtr`s.
- Output operators, type traits, and accessors that change nothing except where
  a property reads through them (`operator[]`, `Find`, iterators).

## Plan

Done, in this order: the four locks with proofs, the queue, the sequential
components by the difficulty of their invariants (`Deque`, `Set`,
`IntrusiveList`, `SmartPtr`), then the remaining headers (`List`, `Vector`,
`Optional`, `Any`), and exceptions in `Semaphore`, `Optional`, `List` and `SmartPtr`. Every component is
modelled.

Proved: the safety properties and the refinements of the four locks, the queue,
the smart pointers, `Vector`, `Any`, `Optional`, `Deque`, `IntrusiveList` and `List`:
all but `Set`.

Next, proving: a balance lemma for `Set`. If the balances before a rotation are height
differences, so are those the formulas of `RotateLeft` and `RotateRight`
compute; a fact of integer arithmetic in a module without recursion.

## How to run

    tlc -workers 2 -config Mutex.cfg Mutex        # any run of the table
    tlapm MutexProofs.tla                         # any proof module

The two runs of the findings end with a counterexample.
