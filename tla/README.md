# North: a verification development

North is a Forth for Linux on ARM and x86 written in itself (`src/`), with C
prototypes of the same machine that also run on an AVR (`misc/c/`).  These
modules model the parts in which several threads, or a program and an interrupt
handler, share memory, and the two C prototypes C4 and C5 whole: TLC checks them
on small instances and TLAPS proves the safety of the threaded parts and of the
serial input for every instance.

In the file names below `lib/` stands for `src/lib/` of the repository, whose
root is `src/` as seen from `PROJECT.json`.

## 1. The system

### Core parts

| Part | State | Operations | Interacts with | What is hard |
|---|---|---|---|---|
| Ring buffer, `lib/ring-buffer.4th` | `size`, `buffer`, `in-index`, `out-index` | push, pop, wait for space or a message with and without a timeout | futexes on the two indices | lost wakeups, half-written slots, errors of the system call |
| Futexes, `lib/linux/futex.4th` | none of its own; the kernel's wait queues | wait, wake, `futex-wait-for-fun/3`, `futex-wait-for-equals/3`, PI lock and unlock | everything below | two loads of one cell, timeouts, `EAGAIN`, `EINTR` |
| Lock, `lib/threading/lock.4th` | `latch` (owner id), `count` (nesting) | acquire, release, wait | futex on the latch | test and store are two steps; re-entry; dropped failures |
| Counted barrier, `lib/threading/barriers/counted.4th` | `lock`, `count` | inc, dec, wait for a value or zero | Lock, futex on the count | lost updates, a value that passes before the waiter sleeps |
| Bit mask barrier, `lib/threading/barriers/bit-mask.4th` | `lock`, `bits` | set, clear, read, waits | as above | as above, and waits on masked values |
| Priority lock, `lib/threading/priority-lock.4th` | `latch` (tid and `FUTEX_WAITERS`), `count` | acquire, release, wait | kernel PI futexes | stores over a word that the kernel also writes |
| Mailbox, `lib/threading/mailbox.4th` | `queue`, `read-lock`, `write-lock` | push, pop with timeouts | ring buffer, priority locks | space waited for outside the lock |
| Threads, `lib/linux/threads.4th` | `state`, `tid`, `pid`, stacks, data segment | init, start, wait to start, join, kill, reset, destroy | `clone`, futexes on `state` and on `tid` | order of `EXITED` and the kernel's clearing of the tid, reuse of stacks |
| Worker, `lib/threading/worker.4th` | `thread`, `input` mailbox, `busy`; tickets and results | start, enqueue, execute, reply, stop, destroy | mailbox, threads, the caller's stack | lost tickets, dead stacks, restart of a thread that has not ended |
| AVR serial input, `misc/c/avr.h`, `misc/c/ringbuffer.c` | ring with `rpos`, `wpos`; UART registers | receive interrupt, getchar, xon, xoff | the other end of the line | interrupts between two accesses, flow control, full ring |
| C5 and C4 inner interpreters, `misc/c/c5.c`, `c4.c` | data stack, `eip`, C stack | some 60 primitive words; next, enter, docol, returns, `rpush`/`rpop`, jumps | outer interpreter | nested loops of `next` and who ends which |
| C outer interpreter, `misc/c/c4-interp.c` | input buffer and offset, token buffer, `istate`, dictionary | refill, read byte, token, lookup, interpret, compile, load | inner interpreter, `read` | end of input, buffers at their limit, nested loads |
| Exceptions, `lib/catch.4th` | `the-catcher`, chain of catchers on the stack | try, throw, end-try | frames, return stack | handlers of dead frames |
| Frames, `src/runner/*frames*` | frame pointer, stack | begin, end, tail call, repeat | every `def` | moving arguments under live data |
| Processes, `lib/process.4th` | two pipes, pid | spawn, read, write, wait, close | kernel | partial failure of pipe and fork |
| Terminal double buffer, `lib/tty/double-buffer.4th` | two buffers | swap, draw, output | Lock in the demos | swap while drawing |
| Outer interpreter, `src/interp/` | reader stack, compile state, dictionary | read, find, compile, immediate words | runner | reader at the end of a buffer |

What makes each part correct: a ring buffer is a bounded queue; a lock excludes
and lets its waiters in; a barrier loses no update and lets the waiters of a
value go; a mailbox delivers each message once; a thread is joined after it has
ended and its stack is not touched after; a worker answers every ticket; a
serial line drops no byte it could have stopped and never stands still; the
interpreters keep their stacks and end the loop they mean to end.

### Other parts

Containers and structs (`lib/list.4th`, `seq.4th`, `structs/`, `map/`,
`stack.4th`), sorting, integer and floating point arithmetic, digests, archives,
option parsing, scanners, ELF and assemblers, the cross compiler and builder,
the shell Forths, bindings of foreign libraries, demos, editor support and
scripts.  They are sequential, mostly transformations of data, and are left out with the
reason given in `PROJECT.json` (section 7).

## 2. The modules

```
Futex            the kernel: who sleeps on which cell, what FUTEX_WAIT answered
FutexWaitFor     futex-wait-for-fun/3 over Futex
Channel          abstract: a bounded FIFO queue and the message taken last
RingBuffer       the ring, one load or store per step, over Futex
  RingBufferProofs types, indices and contents, whoever uses the ring
  RingQueue        one producer and one consumer; implements Channel
    MCRingQueue      for TLC
    RingQueueProofs  the inductive invariant, the refinement of Channel
ReentrantLock    abstract: a lock with an owner and the depth of its nesting
Lock             the lock, over FutexWaitFor, and threads that nest and release
                 it; implements ReentrantLock until it is raced
  MCLock           for TLC
  CountedBarrier   inc and dec under the lock, waiters over FutexWaitFor
    MCCountedBarrier for TLC
    LockProofs       lock: types, exclusion, count, who wakes a sleeper, the
                     refinement; barrier: types, no lost update, who wakes a waiter
PIFutex          the kernel side of FUTEX_LOCK_PI
  PriorityLock     the priority lock
    PriorityLockUse    threads that nest and release it; implements
                       ReentrantLock until it is breached
      PriorityLockProofs types, owner and count, known waiters, the refinement
    Mailbox          RingBuffer between two PriorityLocks; implements Channel
                     until a lock is breached
      MCMailbox        for TLC
      MailboxProofs    types, one worker a side, the queue, the refinement
Threads          Thread structs, clones, start, join, destroy, over FutexWaitFor
  Worker           the owner of a worker, its clones, and others that wait
    WorkerProofs     types, tids, stacks, who wakes a caller
UartInput        receive interrupt, ring and flow control; implements Channel
  UartProofs       types, flow control, the refinement of Channel

Cells            arithmetic on cells of CellBits
C4Words          the words of the C Forths and their addresses
  C4Interp         the words that are lists of words
    C4Image          the memory a run starts with
CForth           what C4 and C5 share: memory, data stack, C stack, input, output
  C5, C4           the two inner interpreters, one turn of a loop per action
    CForthRun        either of them on a job
      ForthProofs      arithmetic and inner loops, for every width and program
      C4Contracts      what each word owes its caller
        ForthPrograms    every short program; the mapping to ForthMachine
          MCCForth         for TLC, with C4Sessions
      C4Sessions       what a session of the outer interpreter means
ForthMachine     abstract: a stack machine that knows no C stack
```

The threaded modules share one convention.  A word that runs is a program counter
(`pc[t]`, `at[t]`) naming its next access of shared memory or its next system
call; what the word holds on its stack meanwhile is a per-thread variable
(`seenIn`, `index`, `seen`, `expected`, ...).  Every load and every store of
shared memory is a step of its own, `inc!` and `wrapped-inc!/3` being a load and
a store.  When a word is over its variables are reset, so that dead values do not
multiply states.  Memory is sequentially consistent; the code has no barriers and
ARM is weaker, so the results hold for the order the code is written in.

### Futex and FutexWaitFor

`FutexWait` compares and blocks in one step, as the kernel does.  `FutexGiveUp`
ends a wait without a wake: timeouts and signals.  `FutexWaitFor` is
`futex-wait-for-fun/3` with its real order of accesses: the predicate is asked
of one load (`Test`, line 112), `futex-wait/2` loads the cell again for the
value to sleep on (`Peek`, line 72), then comes the system call (`Enter`), and
after it a third load (`Woken`).  Every error of the system call ends the wait,
because the code compares the answer with `ETIMEDOUT` and not with
`-ETIMEDOUT`.  How much time has passed is a free choice for a caller that gave
a timeout.

### RingBuffer and RingQueue

`LoadIn` and `LoadOut` are the two loads of `ring-buffer-empty?` and
`ring-buffer-full?`, which every word begins with.  `LoadOut` then decides:
`Refuse` or `Proceed` for push and pop, `WaitDone`, `WaitFailed`, `WaitAgain` or
`WaitBegin` for the waits, depending on what the last system call answered.
`Expect` loads the value to sleep on, `FutexEnter` is the system call.  `LoadSlot`,
`Access`, `LoadInc`, `StoreInc` and `Wake` are the rest of push and pop.
`RingQueue` lets a producer and a consumer call the words in any order; that a
push follows a wait is up to them.  `Signals` is the set of threads a signal
handler may interrupt.

`Channel` is the promise: a queue of at most `Size - 1` messages and the message
the consumer got.  The mapping takes the queue to be the slots from the
out-index up to the in-index (`Contents`): a message appears with the store of
the in-index and leaves with the store of the out-index.

### Lock and CountedBarrier

`Ours`, `Locked` and `OursToo` are the tests, `Take` and `First` the two plain
stores that make a thread the owner, `LoadCount` and `StoreCount` the nesting,
`Clear` and `Wake` the end of the outermost release.  Three history variables
record and never guard a step of a word: `depth`, the acquires a thread has open; `unheld`,
that it went in on a wait that failed, because `lock-acquire` drops the answer of
`lock-acquire/2`; `raced`, that two threads passed the test of the latch before
either stored its id.  `raced` is forgotten when everybody is out and the lock
is free, and while it is set acquires start one at a time only (bound, because
the count may drift without end after a race).

`ReentrantLock` is the promise of both locks: free or of one owner, who may
acquire it again and has to release it as often; an acquire that fails and a
release by anybody else change nothing.  For `Lock` the owner is the thread in the
latch (`Owner`), from the store of the count (`First`, line 35) until the store
that takes the last acquire off it (line 48), and the depth is the count
(`Nest`): a nested acquire or release takes effect with the store of the count,
and the latch may lag behind on both ends.

The threads of `Lock` run `counted-barrier-inc` and `-dec` around its words
(`stage`), the waiters run `futex-wait-for-equals/3` on the count without a lock.
`applied` adds up the updates that were made, `spoiled` remembers that the lock
has raced or let somebody in unheld.

### PIFutex, PriorityLock and Mailbox

The word of a priority inheriting futex is a record of owner and
`FUTEX_WAITERS`; beside it the kernel keeps who waits (`waiting`) and, while
somebody does, whom it takes for the owner (`piOwner`).  `FUTEX_LOCK_PI` takes a free word, blocks or is refused (`LockFree`,
`LockBlocks`, `LockRefused`); `FUTEX_UNLOCK_PI` hands the word over or is refused.  The code stores to
the word with plain stores too (`Take`, `Clear`), and `forgotten` and `breached`
record what that does: waiters that no release will find, and a second thread
let in.  `alone` tells `Clear` that the release saw no waiters.  The mapping to
`ReentrantLock` is that of `Lock`, a lock at a time, where a thread in the word
that has yet to hear of it from the kernel (`handed?`) is not an owner yet.

`Mailbox` runs each push and pop through `ring-buffer-wait-for-space/2` or
`-msg/2` without a lock, the acquire, the ring word and the release, with the
real modules for all three.  Whether the lock was acquired is not asked, as in
the code.  Seen as a `Channel`, the message taken last (`Taken`) is the one in
the hands of the consumer that `ring-buffer-pop` has served and that still holds
the lock.

### Threads and Worker

A clone is a process of its own and its tid.  Its `stage` goes from `cloned`
(made, the kernel has not run it) over `init` (the kernel has stored the tid,
`CLONE_CHILD_SETTID`), `announce` (state stored, `thread-init` about to wake) and
`run` to `bye` (the word `bye` makes the exit call at once) or to `return` and
`leaving` (`thread-return` has stored `THREAD-EXITED` and `abort` follows), then
`told` (the kernel has zeroed the tid) and `gone` (and has woken one sleeper).
`call[c]` is the word a caller is in, the struct it looks at and the field it
waits on; `thread-join/2` changes from `tid` to `state` and back as its two
branches do.  `InitThread` runs `thread-start` up to the clone in one step,
because nobody else knows the struct yet.

The code decides things a reader may not expect, and the model follows it:

* `bye` leaves the state at `THREAD-RUNNING`, so a worker that was stopped is not
  startable and `worker-start` makes a new thread; `THREAD-EXITED` is only
  reached when `mailbox-pop` fails.  `worker-start` on a running worker adds a
  second thread to the same mailbox.
* A bye that no thread took ends the next thread.
* `worker-start` does not look at what `thread-start/3` answered for an old
  thread.
* `thread-wait-to-start/2` is satisfied by `THREAD-FAILED` and
  `THREAD-DESTROYED`, both being greater than `THREAD-RUNNING`, but neither store
  wakes anybody.
* A join of a thread that has ended answers `EAGAIN` and false; `destroy-worker/2`
  ignores the answer anyway.

`passed`, `overlapped`, `gaveUp` and `unborn` are histories for the invariants.
`Standing` stops the run at the first instruction of a clone whose stack is
unmapped, which ends the process.

### UartInput

The receive interrupt (`Receive`, `Xoff`) runs to its end before the main
program goes on, except that it waits for the transmitter.  The main program is
`uart_rb_getchar` with one shared access per step, and prints characters of its
own.  A character stored to a data register in use is lost, as the UART does.
The positions are two bytes wide but below 256, so the high byte is never
written with another value than zero and loads and stores count as one access.
`char buffer` may alias the positions, hence the compiler keeps the order of
reading the byte and advancing; the ring is a translation unit of its own, hence
the loop reloads the positions.  The other end (`Send`, `Transmit`) is external:
it obeys XON and XOFF and may have `MaxLine` bytes on their way.

`Put` is `ring_buffer_put` and what the handler makes of its answer: 0 is only
ever the answer for a dropped byte, and for a stored one the handler asks
`uart_rx_full` (`Distant`).  `said` is a history: the last flow character that
reached the transmitter, an XON that found bytes in the ring counting as `late`.

### C4 and C5

Both machines run the same lists of words (`c4-words-def.c`, `c4-interp.c`) in
the same memory: cells from 1, read-only words and lists first (`rom`), RAM from
`RamBase` (`mem`).  A cell is one address wide and holds one character when it
holds characters; `CellBits` is its width, so that addition and multiplication
wrap and the unsigned readings of the union are taken where the code takes them.

One action is one turn of the loop of `_next`.  What differs is who ends a loop.
In C5 a word returns the next word or NULL (`w`), in C4 a `State` (`r`) that each
caller hands on in its own way.  `frames` is the C stack: one entry for each C
function that runs an inner loop, with the `eip` and the cells it took by
`alloca`.  The return of such a function (`Entered`, `RpushBack`, `RallotBack`,
`Unwound` in C5) is a step too.  `C4Interp` holds the lists as `c4-interp.c` does, with counted jumps.

`ForthMachine` is what a list may rely on: a data stack, a return stack of return
addresses and of cells put aside, the position in the list.  `ForthPrograms`
maps both machines to it, the cells that `rpush` put aside being read from the
frames.  `C4Contracts` states each word's effect without the words, and
`C4Sessions` folds a session of characters into what it means.  A read is logged
in `out` with its descriptor, so that both also say which input is read: all
descriptors find the same characters, but a load that did not go back to the
input before it would show.  The interpreter reads one character at a time.

Details that the model has because the code has them, and that a user of these
Forths should know:

* `reverse` of length 0 exchanges the cells before and at the pointer; `nseq` of
  0 does not end; `dot` does not drop; `reverse-3`'s comment says that it consumes
  its cells and it leaves them.  The jobs stay inside what the words are for.
* `byte-string-equals?/4` compares one character more than the length: the
  terminator makes `lookup` exact.
* `read-token/3` does not use its maximal length: the tokens of the sessions fit
  the buffer.  A terminator after a full buffer goes to the dead cell above it.
* A read error counts as the end of the input.  The end of the input in the
  middle of a line ends the line only.
* `interp_loop` leaves the address of the token buffer and 0 on the stack at the
  end of the input, and `boot`'s return takes the 0.  A quote at the end of the
  input reports that nothing was found and pushes 0.
* C4's `abort-next` inside an `rpush` is swallowed by it, and `over` and `fexit`
  nest C frames; C5's `fexit` leaves its frame cell on the stack, and the branch
  `r == &return0` of `enter` is never taken.

## 3. The runs

| Run | Instance | Shows |
|---|---|---|
| `ring_queue` | size 3, two messages, timeouts, signals to the consumer | types, `SlotExclusive`, `NoLostWakeup`, `WaitIsGood`, `UntimedWaitSucceeds`, `QueueSpec`, `WaitEnds` |
| `lock` | 3 threads, nesting 2, signals, symmetric | types, `SleeperHasWaker`, `ExclusiveUnlessRaced`, `CountIsDepth`, `LockIsReentrant` |
| `barrier` | 2 counters, 2 waiters for a count of 0 or 1, 2 calls in all, signals, symmetric | types, `NothingLostUnderLock`, `WaiterHasWaker` |
| `priority_lock` | 3 threads, nesting 2, 3 acquires each | types, `OwnerCounts`, `WaitersKnown`, `PriorityLockIsReentrant`, `ServedUnlessForgotten` |
| `mailbox` | 2 producers, 1 consumer, ring of 3, 3 pushes, timeouts, symmetric | types, `OneWorker`, `MailArrives`, `MailIsQueue` |
| `worker` | owner and another caller, 2 structs, 2 clones, mailbox of 1, signals | types, `AliveTells`, `StackOutlives`, `JoinerHasWaker`, `StarterHasWaker` |
| `uart` | size 5, two bytes, one above 0x7F, 2 on the line | types, `UartQueue`, `LowerHalfAnnounced`, `NoStandoff`, `SenderResumes` |
| `forth` | the contracts of every word, every program of up to 3 words with a called word of up to 2, 13 sessions, all on C4 and on C5; every text of 3 characters over four, with the end of the input on C5 and with errors on C4 | types, `Contracts`, `RunsAsMachine`, `SessionsMean`, `Finishes` |
| `lock_exclusion` | 2 threads | violated: `MutualExclusion` |
| `lock_liveness` | 2 threads | violated: `FreeLockIsTaken` |
| `priority_wait` | 3 threads, one acquire each | violated: `WaiterServed` |
| `uart_full` | size 4, otherwise as `uart` | violated: `FullIsAnnounced` |

Why the bounds are enough.  Three slots make the ring empty, half full, full and
wrapped, with both sides in the middle of a copy; two messages tell order and
loss apart (they are only copied).  Two threads show re-entry against a
competitor, three show a wake that goes to one sleeper while another sleeps.  A
nesting of 2 has an inner and an outer release.  Two
calls in all let the count leave 0 and come back to it, reach 1 or -1 and leave
it, or pass 1 on the way to 2, with one waiter asleep for 0 and one for 1; a
value other than 0 that is reached twice needs a third call, and is left to the
proof of `WaiterHasWaker`.  Three pushes fill
a ring of three, wait and wrap.  A mailbox
needs two threads on one side to contend and one on the other; the read side has
the same code with the ends exchanged, so the second consumer (out of reach
together with two producers) shows nothing new.  Two structs and two clones show
a restart on the same struct, a replacement by another one, and two threads on
one mailbox; one ticket fills it, so that a push may be refused.  A ring of five
bytes has read positions on each side of the one (2) at which no distance shows
that it is full; in a ring of four (1 and 2), as in one of 32 (15 and 16), there
are two of those.  13 bits are the fewest that hold the
addresses of the image with RAM at `RamBase`; `Extremes` has both ends of their
range.  The vocabularies have names that begin other names and a name given
twice.

Every bound: `MaxDepth`, `MaxUses`, `MaxOps`, `MaxPushes`, `MaxLine`; `Structs`,
`Clones`; no acquire and no mailbox call once the lock has let a second thread in,
and acquires one at a time after a race, because counts and indices then drift;
waits in `Worker` other than the owner's have no timeout; `MainLength`,
`CalleeLength`, the jobs and texts of `MCCForth`.  The proofs
need none of them.

Deadlock is checked where the system cannot stop: `ring_queue`, `lock`,
`lock_exclusion`, `uart`, `uart_full`.  The others stop when their calls or jobs are used up or,
in the worker, when a join sleeps on a thread that nobody ends.

Fairness.  `Step(t)`, a thread that has called a word, is weakly fair: the Linux
scheduler runs every runnable thread, and a thread asleep is not enabled.
`TimeOut(t)` is weakly fair: the kernel's timers expire.  Whether a word is ever
called is never assumed, except in the two locks, where whoever is inside releases
some time, and on the AVR, where the interpreter keeps reading.  There the main
program is strongly fair: the processor executes an instruction of the main
program after every return from an interrupt, so interrupts do not starve it
although each makes its next step wait.  C4 and C5 are one process that runs
(`WF(Next)`).

## 4. What was found

* `lock_exclusion`: the test of the latch and the store of the id are two
  steps.  The file's own todo asks for a compare and exchange.
  `ExclusiveUnlessRaced` says that nothing else in the words lets two threads
  in, but for waits that fail unnoticed.  The "thread safe counter" loses an
  update the same way, and in no other (`NothingLostUnderLock`).
* `lock_liveness`: the predicate is asked of one load and the sleep relies on
  another.  A release between the two puts the thread to sleep with nobody left
  to wake it; the waits of the counted barrier and of `thread-join/2` are the same
  word.  `SleeperHasWaker`, `WaiterHasWaker` and `JoinerHasWaker` say that this is
  the only way: whoever sleeps on a value that it did not want is woken.
* `priority_wait`: a waiter that is handed the lock stores its id over the word
  and so clears `FUTEX_WAITERS`; the next waiter stays in the kernel.
  `ServedUnlessForgotten` says that nothing else keeps a waiter waiting.
* Without a run: `StackOutlives` has three exceptions, each of which TLC reaches
  when it is taken out of the property.  `destroy-worker/2` unmaps the stack of a
  live thread after a join that gave up; just after a start, while the kernel has
  not stored the tid, it does not join at all; and a thread that has stored
  `THREAD-EXITED` still runs on its stack, which `worker-start` may reuse.
* Without a run: two threads that join one thread share one wake, the kernel's,
  and the second sleeps on (`passed` in `JoinerHasWaker`); likewise two that wait
  for a start, for the -1 of `thread-init` wakes one.
* Without a run: a lone `lock-wait-for/2` takes the single wake of a release
  and passes it on to nobody.  With `BareWaits` and three threads
  `SleeperHasWaker` fails, so `lock` and the proof of that property exclude
  them; the other proofs do not.
* Without a run: bytes above 0x7F are negative as a `char` and
  `uart_rb_getchar` discards them as an empty ring.  In its loop it does so
  without another XON: a burst of such bytes that paused the sender leaves
  both ends waiting.  `NoStandoff` and `SenderResumes` exclude exactly that.
* `uart_full`: the last line of `ring_buffer_put` asks again what its second line
  has answered, so a byte that fills the ring answers 1 like any other, and only
  a byte that is dropped answers 0.  The handler is left with `uart_rx_full`,
  which misses a ring filled from behind.  In the real ring of 32 a main program
  that stands at position 15 or 16 while the ring fills loses a byte before the
  first XOFF; so may one that moves on from there
  meanwhile.  Below 15 a full ring is always announced (`LowerHalfAnnounced`).
  An XON decided on before bytes came in is another matter: it may reach the
  sender last although the ring is filling up, and both properties leave it aside
  (`late`).

## 5. What is proved

Every safety property that a run checks of the threaded modules and of the
serial input is a theorem for every value of the constants, the bounds included.
The assumptions are the named ones of the modules: constants are of their type,
markers and identities are distinct, a ring has at least one cell. One theorem
has a hypothesis more, `~BareWaits` (below).

`RingBufferProofs` is about the ring whoever uses it and however many threads
there are. `RingTypeOK` is inductive, the indices staying inside the buffer
because one compare and subtraction is enough for an amount of one. A store of
the in-index appends the message of its slot to `Contents` (`PutContents`), a
store of the out-index takes the head (`GetContents`), a write to the slot of
the in-index shows nowhere (`SameContents`).

`RingQueueProofs` holds for every size, every set of messages and with or
without signals. The safety properties are not inductive, and `QueueInv`
strengthens them with what each side knows at each step: what it loaded of its
own index is current, the other index can only have moved in its favour
(`Ahead`), a sleeper sleeps on the other side's index, and an `EAGAIN` means
that this index moved and stays moved. `SlotExclusive`, `NoLostWakeup`,
`WaitIsGood` and `UntimedWaitSucceeds` follow, and `Spec => QueueSpec` step by
step: the store of an index is a `Put` or a `Get` (`PutStep`, `GetStep`), all
else stutters or forgets what was taken (`QuietStep`).

`LockProofs` holds the lock for every set of threads and every depth, signals
included. `ExclusiveUnlessRaced` and `CountIsDepth` are not inductive: a thread
in the middle of `lock-release` still owns the latch while its caller is out
(`Owed`), and one that has passed the test relies on the latch staying free
(`Claims`). `LockInv` says where an owner can be and what the count is there
(`OwnerOK`); `Frame` reduces every step to the thread that makes it.
`SleeperHasWaker` is proved from `~BareWaits`: that `lock-wait-for/2` is called
by `lock-acquire/2` alone, as in the library, where nothing else calls it.
`SleepInv` sharpens who is on its way: a thread that was woken counts only if
the kernel's answer is a success, since an error would send it away, and a
sleeper always means to acquire.

`Implements` says that the lock is a `ReentrantLock` for as long as no two
threads pass the test of the latch together. A step is seen by who owns the latch:
the first store of the count is an acquire because `Claims` leaves no owner
beside the one who claims, the last decrement is a release, and what a thread does
that does not own the latch moves neither `Owner` nor `Nest`.

The second half of `LockProofs` shows that a step of the barrier is one of the lock or leaves it
alone (`LockStep`), so `LockInv` holds inside the barrier too.
`NothingLostUnderLock` then needs to know that a thread which has loaded the
count is still inside when it stores it: `CountInv` ties `stage` to the call
that runs in it and to `depth` (`StageOK`), and two threads inside are one
(`OneInside`). `WaiterHasWaker` asks nothing of the lock, only that a waiter
sleeps nowhere but in its wait.

`PriorityLockProofs` holds the priority lock for every set of threads and locks,
every depth and number of uses. `OwnerCounts` speaks of threads between words;
`PriorityInv` says for every place in the words who holds the lock (`Holds`),
what the count stands for there (`Counted`, `HolderOK`), that a thread about to
store its id has no rival (`TakerOK`), and that whomever the word names holds
the lock or is about to find out (`OwnerOK`). `WaitersKnown` needs the kernel's
half (`KernelOK`: waiters are in the system call, and a word with
`FUTEX_WAITERS` set names the owner the kernel knows) and `Hidden`: until a
plain store has hidden them, waiters show in the word. All of it holds only
while the lock has let nobody else in (`breached`), which is why the invariant
is conditional. `PriorityImplements` is the refinement of `ReentrantLock`, of each
lock on its own: the steps of threads that hold another lock, or none, leave the
owner and the count of this one (`OthersStep`), and of those that hold it the
invariant says which acquire or release they are (`ReentrantStep`). The kernel
hands over nothing but a free lock: it does so when the owner's count is
already off.

`MailboxProofs` holds for any number of producers and consumers. The mailbox
calls its locks as `PriorityLockUse` lets a thread call them, one acquire deep:
the instance `U` reads the depth off the stages, `StagesOK` says which word may
run in which stage, and `UseStep` that every step of the mailbox is one of those
threads'. So `PriorityInv` holds here, and `OneWorker` follows. `MailArrives` is
about a step, and needs to know what the one thread that works on a side has
loaded (`WorkInv`): its own index is current (`PusherOK`, `PopperOK`), there is
space or a message until it stores the index, and the slot has been copied. The
step of a thread on the other side keeps that, since it only makes more space or
more messages (`PushKeeps`, `PopKeeps`, `AccessKeeps`), and a second one on the
same side there is none (`WorksAlone`). `MailImplements` puts all of it together:
until a lock is breached the producers are one end and the consumers the other of
the `Channel` that the ring buffer implements for two threads. Besides
`MailArrives` it needs that one consumer at most has been served and not yet
released the lock (`OneServed`), so that no message is taken before the last one
is in the hands of who asked for it.

`WorkerProofs` holds for any number of callers, structs and clones and every
size of the input. `AliveTells` and `StackOutlives` hold together or not at all:
the owner unmaps a stack because it read a tid of zero, and the tid is zero
because the kernel has taken the clone off that stack. `WorkerInv` adds to them,
for each struct and each stage of its clones, what `state` may be (`StructOK`,
`CloneOK`), and for each place in the owner's words what it has found out
(`OwnerInv`: where a start may clone, and that whatever the owner destroys is
over, or given up on). `JoinerHasWaker` and `StarterHasWaker` need besides that
a caller sleeps only in its wait and on the cell its call names (`CallerOK`).

`UartProofs` holds for every size of the ring, every alphabet and every number
of bytes on the line. `LowerHalfAnnounced` and `NoStandoff` are two sides of one
invariant, `UartInv`: while the sender has heard nothing since an XON said to an
empty ring, the write position gets to the end of the buffer, and on behind the
read position, only with that one in the upper half (`XoffInv`); and an XON
decided on while the ring is empty finds the transmitter ready and is the last
thing the sender hears (`XonInv`). That a full ring is announced wherever it is
read is false of the code (section 4). The refinement of
`Channel` needs of it that the byte being fetched is the oldest (`FetchInv`),
whatever the handler stores meanwhile.

`ForthProofs` is about C4 and C5 with any cells and any program, within what
needs no recursion over lists. Results wrap at the width of a cell, and
`AddingUndone` says that adding and subtracting undo one another all the same,
for numbers and for addresses, because `Signed` differs from its argument by
whole turns and may be left out below another `Signed` (`SignedSum`).
`DivisionUndone` says that quotient and remainder give the dividend back, with a
remainder smaller than the divisor and of the sign of the dividend; the
exceptions are those of C, zero and the smallest cell by -1. `NestingCorrect`
holds the part of `RunTypeOK` that does not depend on what a program writes to
memory: the loop of main is below all others, and whatever list a machine is
given, each of its inner loops was begun by one of the functions that have code
for its end. `InnermostOnly` is about a step: it begins a loop inside the
innermost, ends the innermost or ends the process, and leaves the activations
below as they are. That a power of two is a positive number is an assumption with
a name (`HalfRangeAssumption`), since the provers do not compute powers.

## 6. What is only model-checked

Liveness (`WaitEnds`, `ServedUnlessForgotten`, `SenderResumes`, `Finishes`) and
ENABLED are beyond the prover. The lists of C4 and C5 are recursion over data:
`Contracts`, `RunsAsMachine` and `SessionsMean` hold for the bounded inputs of
the runs. So do the types of memory and stack in `RunTypeOK`, which are no
property of the machines but of the lists they are given: a program may store
anywhere and move the stack. The four violations are counterexamples of TLC.

## 7. Not modelled

* Words without state of their own: `thread-kill`, `-term` and `-status`, the
  futex calls that nothing uses, `mailbox-empty?` and `-full?`, `lock-release-op`,
  which nothing calls.
* The contents of tickets and results, and with them the lifetime of a ticket on
  its enqueuer's stack (the todo at `lib/threading/worker.4th:8`).
* The bit mask barrier: the counted barrier with bits for a count, the same lock,
  waits and wakes; a model would repeat `CountedBarrier`.
* C1, C2 and C3, which led to C4 and are superseded by it; `c4-scripts.c`, which a
  build option runs in the place of `boot`.
* The cross-compiled interpreter in `src/` (runner, frames, exceptions, reader,
  compiler): machine code and the words on top of it.  The C Forths are another
  implementation of the same ideas and are modelled in its place, not as its model.
* Terminal drawing, processes, sockets, sorting, containers, 64 bit and floating
  point arithmetic, digests, archives, options, assemblers, ELF, builders, shell
  Forths, bindings, demos: sequential transformations of data or plain input and
  output, which tests reach as well as TLC.

## 8. The plan

What the code would allow next, the most important first: that programs which
make sense (`MakesSense`) run as `ForthMachine` does whatever their length, by
induction over the list; the enqueuer's side of a ticket, whose lifetime
`worker.4th` has a todo about; two consumers beside two producers in the run of
the mailbox, where the theorems already cover any number of both; and the catchers
of `catch.4th`, once the frames they are linked through are modelled.

## 9. Running

In this directory: `tlc -config RingQueue.cfg MCRingQueue`, and likewise for the
other configurations (`PROJECT.json` names the module of each); `tlapm` on each
of the eight modules whose name ends in `Proofs` checks the proofs.
`PROJECT.json` relates every definition to its lines.
