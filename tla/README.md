# Jacks: a TLA+ model of the library's concurrent core

Jacks lets scripts (Perl, Lua, Ruby, Python) be JACK audio clients. JACK calls
back into C code from threads of its own; the script runs an event loop in its
own thread. The C library between the two is small, but every line of it is
shared between threads: a lock-free queue, a semaphore, a latch, one ring buffer
per port, and event objects that are allocated once and reused for ever. This
project models that core in TLA+, checks it with TLC on small instances and
proves most of its safety properties with TLAPS for all instances. All paths below are relative to
the repository root.

## 1. Inventory

| part | state | operations | shared with |
|---|---|---|---|
| `corelib/JacksLatch.c` | status word, mutex, condition variable | `get` waits for a post and takes it, `post` | session callback (gets) and script (posts, through the completion token) |
| `corelib/JacksEvent.c` | type, data, completion token | `set_data`, `complete` | one object per event kind, created in `JacksRbClient_new` |
| `corelib/JacksRbPort.c`, audio | ring buffer, `framebuf`, overrun count | `write_to_ringbuffer`, `read_from_ringbuffer` | process callback writes, script reads |
| `corelib/JacksRbPort.c`, latency | socket pairs, `lat_cb_is_init` | `init_*_latency_listener`, listener callbacks | JACK's latency callback writes a byte, the script waits on the descriptor |
| `corelib/JacksRbClient.c` | ports, event queue, semaphore, four events, latch, `activated` | four callbacks, `get_event`, `registerPort`, `activate`, `new`, `free` | all of the above |
| `corelib/lfds/queue_*.c` | `enqueue`, `dequeue` and `next`, each a pointer with a counter; freelist | `queue_enqueue`, `queue_dequeue`, `queue_new`, `queue_delete`, `queue_query` | all callbacks enqueue, the script dequeues |
| `corelib/lfds/freelist_*.c` | `top` and `next`, each a pointer with a counter | `freelist_pop`, `freelist_push`, `freelist_new`, `freelist_delete`, `freelist_query` | taken from by enqueue, given back to by dequeue |
| `corelib/lfds/abstraction_*.c` | none | double-word compare-and-swap, atomic increment, aligned malloc | queue and freelist |
| `modules/Jacks.i` | `process_audio`, holder objects | the API the scripts see, constructors and destructors | forwards to the client; destructors free what JACK's threads use |
| script loop (`modules/*/example-clients`) | the event in hand, `done` | take an event, handle it, `complete()` | |
| `corelib/JacksHelper.c` | last error | `throw_exception`, `check_exception` | one thread only |
| wrappers that SWIG generated from `Jacks.i` (Perl, Ruby, Lua, Python 2 and 3) | proxies, each with a flag that says whether it owns its holder | convert, call, look for an exception, wrap the result; acquire, delete, collect | the interpreter's collector runs destructors |
| `modules/nodejs` | | | unfinished, not modelled |

How they interact. A JACK callback enqueues the event object of its kind and
posts the semaphore. `JacksRbClient_get_event` dequeues, and waits on the
semaphore only when it finds the queue empty. The process callback first writes
the port's samples to the port's ring, and enqueues one event per port. The
session callback also stores JACK's event in the session event's data, then
waits in `JacksLatch_get` until the script's `complete()` posts the latch, takes
the data back and replies, after which JACK frees the event.

What is hard to get right, and hence modelled:

* the wake-up protocol: dequeue and wait are two steps, link and post are two
  steps, and the semaphore counts posts that nobody waited for;
* the session handshake: who may touch the event's data, and when;
* the latch under several sleepers and spurious wake-ups;
* a queue of bounded size whose elements are unlinked before they are free;
* reading a pointer and its counter in two halves while elements are recycled
  (queue and freelist);
* memory that `queue_new` leaves uninitialised;
* one number, `rb_size`, that is used as frames, as bytes and as a queue length;
* ports registered while JACK is running;
* one latency callback for all ports of a client, and sockets that block JACK's
  thread when they are full;
* an append that is complete for its caller, semaphore and all, before the script
  can see it;
* session accessors that follow a pointer another thread clears and frees, and an
  answer that is stored by one thread and sent by another;
* who owns the objects behind a script's proxies, what a destructor takes with it,
  and the destruction of a client under running callbacks;
* allocations that fail halfway, and list validation in unsigned arithmetic;
* compare-and-swap built from exclusive loads and stores.

`PROJECT.json` lists every hazard with its line and the properties that would
catch it.

## 2. Plan and order of work

1. `JacksLatch` with its abstract token: done, proved.
2. `JacksRbClient` (with `JacksRbPort`): done; all safety properties proved,
   liveness checked.
3. `LfdsFreelist` with its abstract stack: done, proved. `LfdsQueue` with its
   abstract queue: done, proved, the refinement for one consumer.
4. `LatencyListener`: done, checked. `SessionApi`: done, proved.
5. `LfdsValidate`: done, its verdicts proved and its termination checked;
   `LfdsAlloc`: done, proved; `LfdsDcas` with its abstract compare-and-swap: done,
   proved.
6. `JsObjects` (life cycle of proxies, holders and the library's objects, free and
   activate): done, proved.
7. The torn append of `LfdsQueue` as part of `AbstractQueue`: done, proved.
8. `JacksRbClient` over that queue instead of a sequence: done, proved.
9. Left: the refinement of `LfdsQueue` for several consumers, of which Jacks has
   none.

## 3. Modules

| module | models |
|---|---|
| `AbstractLatch` | what a latch promises: a binary token, each call atomic |
| `JacksLatch` | `JacksLatch.c`, one step per pthread call and per access to `status` |
| `JacksLatchProofs` | proofs about `JacksLatch` |
| `JacksRbPort` | ring buffer and `framebuf` sizes, write and read, as operators on a number of bytes |
| `JacksRbClient` | `JacksRbClient.c`, `JacksEvent.c`, the calls of `Jacks.i` and the script loop; extends `JacksRbPort` |
| `JacksRbClientProofs` | proofs about `JacksRbClient` |
| `AbstractQueue`, `AbstractFreelist` | a bounded FIFO queue, in which an enqueue may take effect behind another's, and a stack, with atomic calls |
| `LfdsQueue` | `queue_new.c` and `queue_queue.c`, one step per shared word or DCAS |
| `LfdsQueueProofs` | proofs about `LfdsQueue` |
| `LfdsFreelist` | `freelist_new.c` and `freelist_pop_push.c`, likewise |
| `LfdsFreelistProofs` | proofs about `LfdsFreelist` |
| `LfdsValidate` | `queue_query.c` and `freelist_query.c`, one step per pass of a loop |
| `LfdsAlloc` | `queue_new.c`, `freelist_new.c`, guaranteed enqueue, `queue_delete.c`, `freelist_delete.c`: one step per allocation or free |
| `LfdsAllocProofs` | proofs about `LfdsAlloc` |
| `AbstractDcas` | an atomic compare-and-swap |
| `LfdsDcas` | the ARM branch of `abstraction_dcas.c`, one step per instruction that matters |
| `LfdsSupportProofs` | proofs about `LfdsValidate` and `LfdsDcas` |
| `LatencyListener` | the latency half of `JacksRbPort.c`, its calls in `Jacks.i`, JACK's latency callback and the script's event loop |
| `SessionApi` | the session accessors of `Jacks.i`, `JacksHelper.c` and `jack_exceptions.h` against `_session_cb` |
| `SessionApiProofs` | proofs about `SessionApi` |
| `JsObjects` | ownership and memory: the SWIG wrappers, constructors, destructors and methods of `Jacks.i`, `JacksRbClient_free`, `activate`, and the callbacks by the memory they use |
| `JsObjectsProofs` | proofs about `JsObjects` |
| `MC*` | the instances for TLC |

Definitions named "Mutant" are plausible faults of the definition that follows
them. They are used by no specification; putting one in place of the original
breaks the property that `PROJECT.json` names.

### JacksLatch

`status`, the owner of the mutex, the set of threads asleep on the condition
variable, and a program counter for each thread. `pthread_cond_wait` is two
steps, `GetWait` (release and sleep, atomic as POSIX demands) and `GetRelock`;
between them a signal or `SpuriousWakeup` takes the thread out of `sleepers`.
A call counts as done, for the refinement, once it has written `status`.

### JacksRbClient

Five threads: the four callbacks, each of which JACK runs at most once at a
time, and the script. What is shared and how it is abstracted:

* the event queue is the one `LfdsQueue` is shown to implement, `AbstractQueue`: a
  sequence `queue` and, for each callback, `behind`, what hangs on the element that
  callback is about to link. `Link` makes an event visible with all that hangs on
  it; `LinkBehind` hangs it on another callback's element, as a torn read allows.
  When exactly that can happen depends on words that are not part of this model:
  it may whenever another callback is at the same point. `free` is the number of
  elements in the freelist. An enqueue is `PopElement` then `Link` or `LinkBehind`,
  a dequeue `Dequeue` then `ReleaseElement`, so the queue may be full before it
  holds `rb_size` events;
* the latch is the token that `JacksLatch` is shown to implement;
* a ring is a number of bytes; samples have no values. `RingSize` and `Stored`
  say what JACK's ring buffer does: it rounds up to a power of two, keeps a byte
  free and stores what fits;
* `data` says whether the session event carries JACK's event;
* `stored` and `nports` tell the two assignments of `registerPort` apart.

External behaviour, taken from how the code uses JACK: a process callback that
returns non-zero has its client thrown out (`zombie`); callbacks of an active
client cannot be set; after the shutdown callback no further callback starts;
the process callback is not called concurrently with itself.

The script registers ports and activates whenever it likes, takes events, reads
every port once per process event, and completes each event once, as the example
clients do. It leaves its loop on shutdown or on a session event that says so. In
its session branch it may also die (`SessionDies`): `capture_client.pl:55` calls a
method that does not exist. `HandleSession` is a script without that mistake, such
as `capture_client.lua`, which completes session events.

Outside of this model: `free` and `getPort` (see `JsObjects`), scripts that keep
an event after completing it (see `SessionApi`), allocation failures.

### LfdsQueue and LfdsFreelist

Pointers carry counters in the adjacent word. The code reads the two words
separately and replaces them together with `cmpxchg16b` (`Dcas`); the models do
the same.
In the freelist, the DCAS reads its exchange value from the element first, in
two more reads, and on failure leaves the current `top` in its compare argument.
Adding one to a counter of pointer type adds `sizeof(struct queue_element)`,
`PtrStep`; a fresh counter comes from `aba_counter`, which adds one. `Garbage` is
what `queue_new` may find in the counters that it does not initialise.
Counters are unbounded integers: 64 bits do not wrap in any run.

The refinement reads the abstract queue off the memory: `items` is the chain from
the dummy on, and `behind[p]` the chain that hangs on an element producer `p` has
taken but not linked. The latter is empty except after the torn read described
under "observations"; `AbstractQueue!PutBehind` is the price for it, and with that
action taken out `ImplementsQueue` fails. `load` is how many items each producer
sends, chosen from `Loads` at the start.

Reordering by compiler or processor is not modelled. The shared words are
volatile and the platform is x86_64.

### LfdsValidate

The two validation functions are the same text for two types, and the model has
one set of actions, run first for the queue and then for its freelist. Validation
is asked about structures that may be broken, so the initial states hold every
list from the head on: some elements, then NULL or a way back. The bounds it
derives for the freelist wrap in words of `Width` bits. The verdicts are compared
with `HasLoop` and `Length`, which follow the list for as many steps as there are
elements. The structure does not change during a validation; nothing in the
library would prevent that.

### LfdsAlloc

`live` counts, for each object, allocations minus frees, so that a second free
shows as a negative number. Every `abstraction_aligned_malloc` may fail. The two
objects of an element, `freelist_element` and the `queue_element` that is its
`user_data`, have the same number, since `user_data` never changes. One thread
calls: the lists are sequences here.

### LfdsDcas

`reserved` is the exclusive monitor, which is hardware: `ldrexd` adds the thread,
a successful `strexd` of any thread empties it, and `LoseReservation` may remove
a thread at any time. A pair of words is one value, because `ldrexd` and `strexd`
are atomic for both. A call takes effect at the `strexd` that stores or at the
`ldrexd` that loads something else than compare. The barriers (`mcr`) are taken
to order accesses.

### LatencyListener

For each port and mode whether its socket pair exists and how many bytes are
unread; JACK's callback slot, which a later registration replaces and which
cannot be set once the client is active; the thread JACK calls from, which waits
in `write` when a socket is full. `owed` remembers which changes the script has
still to hear of: those of modes for whose descriptor it has called init. Its event
loop calls it for a readable descriptor (`Notice`), and that is all
`latency_callback_fd.pl` relies on: the line that would read is commented out. A
script may read, some or all of what there is (`Drain`), but need not. It may wake
itself up at any time, also with a full socket, and then waits for itself (`Stuck`).

### SessionApi

The queue is a sequence, the latch a flag. An accessor is five steps: clear the
exception, read the data pointer, test it, follow it, look for an exception. The
script may ask any event for session data, also after completing it, and may
complete an event twice. The example clients do neither; `misused` remembers what
has been done, and the properties say which promise depends on which restraint.
A NULL pointer that is followed ends the program, JACK's threads included.

`command_line` is the one field of JACK's event that the model keeps, as it is the
script's answer. `told` and `sent` are the sessions for which the script set it and
those JACK was replied to with it. A full queue loses the event, and its callback
waits all the same, since nobody looks at the result of `queue_enqueue`.

### JsObjects

`mem` is the state of every object: the client, its latch and four events, what
JACK allocates for it, ports, and the holders, one per proxy. `proxy` has the kind,
the object and the ownership flag of each proxy. A method is one step: it converts
its proxy, uses some objects, and perhaps allocates a holder and a proxy, which is
not owned, or changes the client. `bad` collects uses of memory that is not
allocated, with the side that made them, and `twice` what is freed again; a
behaviour ends with the first of these, as what follows is undefined.

* `Collect` may take any proxy at any time, in any order: when an interpreter ends
  it promises none. A destructor then runs if the proxy owns its holder.
* `Acquire` and `Delete` are for Perl and Python, where a script can reach the flag
  and the destructors; Ruby and Lua have neither. `Explicit` tells them apart.
* `JacksRbClient_free` is two steps. `CloseJack` is JACK's (external): it returns
  when no callback runs, and one that waits, as the session callback does for the
  latch, is cancelled with JACK's thread. `FreeClient` is the rest. The queue,
  `ports[]` and the ports stay allocated.
* The process callback takes one step per port, so that registrations, activations
  and destructors fall between them. The session callback can be anywhere when
  the client is destroyed.
* JACK refuses to set a callback of an active client (external), and the results
  of `jack_set_process_callback` and `jack_set_latency_callback` are ignored or
  passed on.

The script keeps one rule throughout: it calls no method of what it destroyed, and
none after it destroyed its client. What else it does that the example clients do
not is recorded in `misused`: it destroyed an event, a port that JACK's threads
know, or a port of which it keeps a buffer. The properties say which restraint
protects what. Events and ports come from the client; what a script makes itself
with `new JsEvent()` or `new JsPort()` is left out (section 6).

## 4. Runs

States are distinct states; times are for two workers.

| run | instance | shows |
|---|---|---|
| `latch` | 2 getters, 2 posters | types, `NoLostWakeup`, `ImplementsLatch`, and under fairness `PostTaken` |
| `client` | 2 ports, `rb_size` 3, samples of 3 bytes, periods of 1 frame, semaphore up to 1 | types, `NoLostWakeup`, `SessionHandshake`, `PortsStored`, `NoStrandedAudio`; 3.8 million states, 1.5 min |
| `client_live` | 1 port, `rb_size` 2, samples of 2 bytes, semaphore up to 1 | `WholeSamples`; under fairness `SessionAnswered`, `ShutdownDelivered`; 210 thousand states, 1 min |
| `queue` | capacity 2, 1 consumer; 1 producer with 4 items and garbage 0, 2 or 4, or 2 producers with 1 and 2 items | types, `ElementsDisjoint`, `NoNullDereference`, `ImplementsQueue`; 740 thousand states, 2 min |
| `freelist` | 2 threads, 2 elements, `aba_counter` up to 6 | `OnePlace`, `ImplementsFreelist` |
| `validate` | lists of up to 4 elements, words of 3 bits | types, `QueueVerdict`, `FreelistVerdict`, `QueryReturns`; 1.4 million states |
| `alloc` | a queue of 2, memory for 5 elements | `NoDoubleFree`, `ElementsWhole`, `CountsElements`, `DeleteFreesAll`, `FailureLeavesElements` |
| `dcas` | 2 threads, 2 values | `ReservationValid`, `ImplementsDcas` |
| `latency` | 2 ports, sockets of 1 byte, 1 wake-up | `ChangeSeen`, under fairness; 250 thousand states, 1 min |
| `session` | 3 sessions, a queue of 2 | `AccessLive`, `WaitsForCompletion`, `CommandLineSent`; 250 thousand states |
| `objects` | Perl and Ruby, 2 ports, 3 proxies, a queue of 1, one kind of misuse | types, `CallbacksSafe`, `ScriptSafe`, `FreedOnce`, `CollectorSafe`; 2.8 million states, 2.5 min |

One run shows a disagreement with what the repository says. `client_frames` is an
instance of `JacksRbClient` with periods of two frames: `JacksRbClient.h:39` calls
`rb_size` the "ringbuffer size in frames", but a read takes at most that many
bytes, so that with periods of more than `rb_size / 4` frames each process event
writes more than the script's read takes, and `NoStrandedAudio` fails.

`FailureLeavesElements` states precisely what a failing `queue_new` leaves behind:
`freelist_new` frees its state but not the elements it has made, which leak.

### Observations

What the models show beside the properties that hold, for whoever maintains the
code. Each is a behaviour of a model above.

* `JacksRbClient.c:161` speaks of a "binary semephore". It counts: `sem` goes up
  with every event dequeued without a wait, and each surplus post is one more
  turn of the loop in `JacksRbClient_get_event`.
* `jacks.pod.in:39` promises "lock-step synchonicity". The process callback does
  not wait, and JACK may start a cycle before the script has taken the last event.
* `length()` is in bytes (`Jacks.i:135`), where `jacks.pod.in:128` speaks of float
  arrays. When `rb_size` is no multiple of the size of a sample, a script that
  lags behind reads part of a sample: `WholeSamples` fails for `SampleSize` 2 and
  `RbSize` 3.
* The `if()` at `queue_queue.c:78` does not ensure, as the comment says, that
  `next` "really is from qs->enqueue": a producer can read a NULL pointer and,
  after another has linked its element but not yet moved `qs->enqueue`, the new
  counter. If that element is dequeued and taken again, its pair is (NULL, old
  counter) until its counter is set, and the first producer appends to an element
  that is outside of the queue, one that the other is about to link. The item
  becomes visible only then. It is not lost, but it may come after one that its own
  producer enqueues later, in the ordinary way, before the other links: so
  `ImplementsQueue` promises order among a producer's items only while none of them
  is behind another's. In Jacks the events of one callback are all the same object,
  so that their order cannot be seen.
* For the client this means that the process callback may have returned, its post
  used up, while its event cannot be seen: the script then waits with audio in the
  ring until the other callback has linked its event and posted. `NoStrandedAudio`
  names this case and bounds it.
* `queue_query.c:142` wraps when the caller's upper bound exceeds the number of
  elements, and a sound freelist is reported to miss elements; `FreelistVerdict`
  is stated for bounds that do not.
* When `jack_set_latency_callback` fails, `JacksRbPort.c:156` returns -1 but keeps
  the sockets, and the next call returns the descriptor ("capture latency fd
  already init") with no callback behind it.
* The session accessors (`Jacks.i:232` on) call `throw_exception("not a session
  event")` when an event has no data. That only records the message and returns, and
  the next line follows the NULL pointer: in `SessionApi`, no state is reached in
  which the exception is raised, since the program crashes first.
* `capture_client.pl:55` and the synopsis in `jacks.pod.in:104` call `getUuid`; the
  method is `getClientUuid`. The script dies with the session event in hand, and
  JACK's session thread waits in `JacksLatch_get` for good (`SessionDies`).
* `latency_callback_fd.pl` never reads its descriptor. With a socket of the usual
  size this goes well for long; then JACK's latency callback blocks.
* A second `complete()` for a session event answers the next session, before the
  script has seen it. `WaitsForCompletion` excludes exactly this.
* `setSessionDir` and `setClientUuid` (`Jacks.i:246`, `257`) store memory of the
  binding in a structure whose strings JACK frees; `setCommandLine` copies.
* Every destructor frees more than its holder. That of `JsEvent` (`Jacks.i:207`)
  frees one of the four events the client keeps for ever. It never runs by itself
  because the result of `getEvent` is not owned: `CollectorSafe` rests on this, and
  fails when `getEvent` is declared to return a new object. The other side of it is
  that the holders of all results leak, one per event.
* A `JsClient` is owned, and nothing ties the proxies of its events and ports to
  it: they outlive it, and the rule of not using them is the script's.
* A client activated before it has a port has no audio callback ever after, since
  `jack_set_process_callback` fails unnoticed (`JacksRbClient.c:235`), and yet calls
  itself activated at the next `activate`.
* `jacks.pod.in:129` documents `setf`, which `Jacks.i:53` answers with "unsupported
  opperation".
* `JacksHelper.c:31` copies a message without its terminator: a message shorter
  than the one before keeps its tail.

### Why the bounds suffice

* `client`: two ports are what is needed for an event that finds the audio of
  another port's cycle, and for a port registered during a callback. The ring has room
  for fifteen bytes, five periods; a read takes one, and the queue has three elements.
  The script can be as far as five periods behind before JACK drops the client, an
  event can find the audio of a later cycle or none, and process events can hang
  behind a session, shutdown or sample rate event. Queue and semaphore reach their
  limits, and every action fires. `SemMax` stands for `SEM_VALUE_MAX`; with 1 there is
  a surplus post to be used up, and posts fail. `NoStrandedAudio` was also checked with
  one port, samples of 2 bytes and `rb_size` 4, where a read takes two periods, and all
  properties with `SemMax` 2. A period fits in `framebuf`; `client_frames` is an
  instance where it does not.
* `client_live`: the ring has room for one period, so that a script that lags behind
  overruns it; in `client` the queue is always full first.
* `queue`: with one producer three elements and four items, so that each element
  is used again and the dummy goes round. With two, the torn read needs one
  producer to be overtaken by two enqueues of the other, which is what 1 and 2
  items give; garbage counters are left to the first load (`MCInit`).
* `freelist`: ABA needs one thread between its reads and its DCAS while another
  pops two elements and pushes one back. `MaxPushes` leaves room for four pushes
  after the initial ones. Three threads were checked as well, with `MaxPushes` 4.
* `validate`: four elements give every combination of a lead-in of up to three
  and a loop of up to four elements, even and odd, among them loops that the
  fast pointer enters first; words of three bits give bounds below, at and above
  the number of elements.
* `alloc`: every allocation of a queue of two can fail, and two guaranteed
  enqueues mix with elements that went through the freelist.
* `dcas`: two values suffice for a value to come back between load and store.
* `latency`: with sockets of one byte every second write has to wait, JACK's for the
  script or the script's for itself; two ports suffice for one to replace the other's
  callback, and one wake-up to fill a socket or meet a full one. `session`: three sessions let
  a left-over completion of the first or second meet a later one.
* `objects`: three proxies hold a client, a port and its buffer, or a client and
  two events of one kind; a collected proxy makes room for another. Two ports let
  one be destroyed while the process callback is at the other, and one be known to
  JACK and the other not. `MaxMisused` 1 has every misuse alone, with what follows
  from it; Perl stands for the languages with destructors, Ruby for the others.

Deadlock is not checked where the system may stop: after shutdown the script
ends and JACK calls no more, and in the bounded queue and freelist runs the
threads use up their calls; a validation returns, a queue is deleted, a script
destroys its client or leaves the defined behaviour. A session callback whose event did not fit in the
queue, or whose script has ended, waits for ever; `SessionAnswered` excludes
exactly these two cases.

### Fairness

JACK is never obliged to call back, the script never obliged to register or
activate, and no spurious wake-up or interrupt is ever due. Weak fairness is
assumed of each callback once called, and of the script inside its loop: these
are threads of a preemptive scheduler that block only where the model's guards
say so. In the latch, weak fairness for each thread's steps inside a call. This
is not enough to promise each getter a turn, as mutex and condition variable
are not fair; `PostTaken` therefore only says that a post is taken by some getter.
The process callback may run for ever and the script keep up with it: weak
fairness of the script's steps suffices, since the queue is first in, first out.

`LatencyListener`: weak fairness of a started callback, of a started wake-up and
of being called for each descriptor that stays readable, which is what an event loop
does. Nothing obliges the script to read, so that writes to a full socket may wait
for ever.
`LfdsValidate`: a call runs on. The other modules check safety only.

## 5. Proofs

TLAPS checks these theorems for all values of the constants.

`JacksLatchProofs`, from `ThreadsAssumption` (getters and posters are disjoint,
`NoThread` is neither):

* `LatchTypeOK`, `LatchNoLostWakeup`: neither is inductive alone. The invariant
  `IInv` adds `LockInv` (a thread in the body of get or post owns the mutex) and
  `TakeInv` (a getter about to reset the status still sees the post). The delicate
  steps are `GetTake`, which falsifies the left side of `NoLostWakeup`, and the
  signals, which turn a sleeper into a getter that will test again.
* `LatchImplementsToken`: `Spec => AbstractLatch!Spec` under the mapping of
  section 3. `TakeInv` is what makes `GetTake` an abstract `Take`.

`JacksRbClientProofs`, from `ClientAssumption` (positive sizes, and the capacity
of a ring is a number):

* `ClientTypeOK`, which includes that the queue never holds more than `rb_size`
  events: needs `ElementsConserved`, the count of elements over freelist, queue
  and threads in the middle of a call.
* `ClientNoLostWakeup`: inductive together with the types. A consumer arrives at
  the wait with the queue empty; from then on every link is followed by a post, also
  the one that makes other callbacks' events visible.
* `ClientSessionHandshake`: needs `SessionUnique` (the one session event is
  enqueued once, or held, or completed), `ScriptInv` and `DataInv`.
* `ClientPortsStored`: from `IndexInv`, which relates `stored`, `nports` and the
  script's place in `registerPort`.

* `ClientWholeSamples`, if `rb_size` is a multiple of the size of a sample: until an
  overrun a write stores a whole period, and a read takes `rb_size` bytes or all.
* `ClientNoStrandedAudio`, if a period fits in `rb_size` bytes. The invariant
  `AudioInv` counts reads: a ring holds at most `rb_size` bytes for each process
  event that is enqueued, visible or not, or that the script has and has not yet read
  this port for, or that the callback has written for and not yet linked. A period is
  then paid for by its event, and a read of `rb_size` bytes by the event it is for.
  Events are counted by the cardinality of their places (`Count`). What a link moves
  from `behind` to `queue` leaves the total as it was (`LinkSteps`, `QuietCounts`), and
  enqueue and dequeue change it by one (`EnqueueCounts`, `DequeueCounts`). When the
  script waits and sees nothing, what is left in a ring is owed to hidden events, and
  `HiddenByCalls` says that whoever hides them is about to link.
  The runs `client` and `client_live` satisfy both hypotheses; in `client_frames` the second is
  false, and so is the property, which shows that it is needed. That of the first
  is under "observations".

Lemmas such as `Frames`, `ElementSteps` and `SessionMoves` state once which
actions change which variable, so that each invariant's proof has steps only for
actions that can disturb it.

`LfdsFreelistProofs`, from `LfdsFreelistAssumption` (there is an element). The
bound `MaxPushes` may be any number:

* `Invariance` is about the list in memory, a sequence of pairs that is not a
  variable: `IInv` says that there is one to which `ListInv` applies. `IsList` has
  it linked from `top` to its end without repetition. `FreshInv` is why the counters
  work: the counter of a push in progress is in no pair of the list, is no other
  push's, and is not what a pop has read before. Hence, once a pop has read a pair
  that is not, or no longer, in the list, that pair never comes back, and as long
  as it is in the list, what the pop read of the element's link holds (`PopInv`).
  A torn read of pointer and counter gives a pair that never was in the list, or one
  that is. `PushInv` says that a push has linked its element to what its DCAS will
  compare; `PlaceInv` that elements are in one place.
* `FreelistOnePlace`: from `PlaceInv`, with the cardinality of sets of at most one
  member.
* `FreelistImplementsStack`: `Spec => AbstractFreelist!Spec`. `StackMoves` says that
  a successful DCAS takes the first element of the stack or puts one before it, and
  that no other step changes it.
* Both are about `Stack`, which follows the links by a recursive function.
  `ChainIsList` shows that it computes the list of the invariant, for lists of any
  length: the function that has the first elements of the list solves the recursion,
  so that one exists, and any other would differ from it at a least number.

`LfdsQueueProofs`, from `LfdsQueueAssumption` (producers and consumers are disjoint
and finitely many, there is an element, and what memory held before are integers). The
number of items that producers send, a bound for TLC, may be anything:

* `QueueInvariant`. `IInv` says that there is an assignment `L` of a list of elements
  to each place: the queue, the freelist and every thread. Its parts are

  - `PlaceInv`: every element is in one place, once. A thread in the middle of a call
    has the element it took and, if it is a producer, whatever was hung on that
    element by a torn append;
  - `ListInv`: the queue's list is linked in memory from `qs->dequeue` to NULL, and
    `qs->enqueue` is in it; so are the lists of producers that have not linked theirs;
  - `CopiesInv` (`ProducerInv`, `ConsumerInv`): what a thread's old copies of the
    three pairs still tell, if the counter says that the word did not move. A
    consumer whose copies of enqueue and dequeue differ has read a link that is not
    NULL, whence `QueueNoNullDereference`;
  - `SpareInv`: an element that is free and has a NULL link was never used, so that
    no producer has it for the last of the queue. A used one keeps its link to the
    one after it until it is taken again;
  - `RankInv`: elements have ranks, in the order in which producers initialised them.
    A producer that holds an outdated copy of `qs->enqueue` and finds it in another
    producer's hands took its own element earlier. This is why torn appends cannot
    close a circle: an element is hung only on one of higher rank, hence never on
    itself or on what hangs on it.

  `L` and the ranks are not variables; each step gives the new ones from the old, by
  lemmas on moving one element or a whole list between places.
* `QueueTypes` and `QueueElementsDisjoint`: from the parts above. `ChainIsList` has, as
  in the freelist's proofs, that following the links computes the list of `L`.
* `QueueImplementsFifo`: `Spec => AbstractQueue!Spec` for one consumer and any number
  of producers, as in Jacks, where JACK's threads enqueue and the script dequeues.
  `Views` has the abstract queue in terms of `L`, `ProducerSimulates` and
  `ConsumerSimulates` one step per action. A link is `Put`, or `PutBehind` if it is in
  another producer's hands; an advance is `Get`. `Empty` takes place at the read of a
  NULL link, and needs `OwnInv`: the only consumer's copy of `qs->dequeue` is up to
  date. With several consumers the read is "empty" only if the comparison that follows
  succeeds, which the mapping would have to foresee.
  That an enqueue is refused only at capacity is a count (`Census`, `Accounts`):
  items, elements in the freelist and elements in the hands of threads, each at most
  once, add up to `Capacity`.
* The attempt to prove this corrected the abstract queue. `PutBehind` was first stated
  for a producer on whose element nothing hangs. With three producers, torn appends
  can follow each other, and what hangs on the one moves along with it; two producers,
  as in the run, do not get there.

`LfdsAllocProofs`, from `AllocAssumption` (there is memory for one element more
than the queue is made with):

* `NothingFreedTwice`, `ElementsAreWhole`, `ElementsAreCounted`, `DeleteIsComplete`
  and `FailureIsBounded` follow from one invariant: the two lists and the element at
  hand are disjoint and without repetition (`ListsInv`), and an object is allocated
  exactly if its element is in one of these places, at a step where it has it
  (`ElementsInv`, `StatesInv`). `CountInv` relates `element_count` to the lists, and
  `PhaseInv` says which list is empty when.

`SessionApiProofs`, from `SessionAssumption` (NULL is the number of no session; the
bounds are numbers):

* `AccessIsLive`, `RepliesWait` and `AnswersSent`. `HandshakeInv` has the session
  event in one place: queued once, in the script's hands, or completed, all this
  while the callback waits. It holds until some event is completed twice, hence the
  form of `IInv`. `CallbackInv` says when data and JACK's event exist, `AccessorInv`
  that an accessor asked properly works on the present session. `CommandInv` has the
  command line of JACK's event set, until the reply, exactly if the script has set it
  for this very session.

`JsObjectsProofs`, from `ObjectsAssumption` (different objects have different
names, as they have different addresses; NULL names none):

* `TypeCorrect`, `CallbacksAreSafe`, `ScriptIsSafe`, `NothingFreedTwice`,
  `CollectorIsSafe`. `ClientInv` has the client's objects
  allocated and freed together and no callback after JACK closed the client;
  `HolderInv` and `UnsharedInv` say that an owned holder exists, no longer than what
  it would free, and that no two proxies would free the same; `PortsInv` that what
  JACK's threads and buffers refer to exists; `CollectInv` that in Ruby and Lua only
  the client is owned. Destroying an event breaks most of this, and the invariant
  claims nothing of it afterwards.

`LfdsSupportProofs`, about two parts that share no state.

`LfdsValidate`, from `ValidateAssumption` (there is an element, NULL is neither an
element nor a validation_info, and a word can count the elements), for lists of any
length and words of any width:

* `QueryTypes`, `QueueVerdictRight`, `FreelistVerdictRight`. A list either comes to an
  end after `n` elements (`Ends`) or turns back (`Turns`). In the first case fast is
  ahead of slow until it is NULL, so that they never meet, and the count is that of the
  elements passed (`Passing`); in the second no pointer comes to NULL (`LoopInv`), so that
  the chase can end only where they meet. `EndsLength` and `TurnsHasLoop` relate the two
  cases to the reference definitions `Length` and `HasLoop`, which follow the list by a
  recursive function: for a list that ends a solution of the recursion is written down,
  for a loop one is extended step by step, and a solution is unique.
  That the chase does end is `QueryReturns`, which TLC checks.

`LfdsDcas`, from `DcasAssumption` (the initial value is a value):

* `DcasReservation`: with the types, `ReservationValid` is inductive: a store
  changes the destination and takes every reservation away in one step.
* `DcasImplementsAtomic`: `DcasSpec => AbstractDcas!Spec`. It needs `FlagInv` too:
  until it stores, a call has `stored_flag` 1, so that one that leaves after a
  failed comparison returns failure even when an earlier `strexd` failed.

Only model-checked:

* the liveness properties `PostTaken`, `SessionAnswered`, `ShutdownDelivered`,
  `QueryReturns` and `ChangeSeen`, which are out of the prover's reach with the
  fairness they need;
* `LatencyListener`, whose only property is `ChangeSeen`;
* that `AbstractQueue`'s `PutBehind` is needed, and the counterexamples mentioned under
  "observations".

Each inductive invariant was checked with TLC as well, on the instance of the
component's run or, for `LfdsValidate`, with lists of up to three elements; where it asserts that something exists, such as the lists of `LfdsQueue`, with
a definition of what exists.

## 6. Not modelled

* What port queries, transport, connections and latency ranges return; each passes
  one call on to JACK. `JsObjects` has them by the memory they use.
* `MAX_PORTS`: `registerPort` does not test it, and nothing says what should happen.
* In `JacksRbClient`: allocation failures (`JacksRbClient_new` ignores the result
  of `queue_new`).
* The contents of audio buffers, and so the sharing of one `framebuf` by all
  buffers of a port.
* The increment on ARM, the Windows branches of the lfds abstraction layer, and
  its single-word compare-and-swap, which nothing calls.
* In `JsObjects`: `new JsEvent()`, `new JsPort()` and the like, which SWIG offers for
  every structure. Their holders are owned and have nothing behind them; the
  destructors of ports and events assert that there is something.
* The Node.js binding (unfinished, most of its files empty), build files.
* Of the generated wrappers: type tables, conversion of numbers and strings, and
  the set-up of each interpreter. They are SWIG's, not this repository's.

The wrappers also say how to read the share of lines the map covers. 28,490 of the
32,151 lines of implementation are in five files that SWIG generated from the 391
lines of `Jacks.i`. The two Python files are identical, and all five contain the
same methods around a copy of SWIG's runtime. `JsObjects` and `SessionApi` model
what these files do to the state, once and not per language, and the map points for
each operation to one language's version. Hence most lines of the five files stay
outside of the map, and its share of all lines low; of the code lines that are not
generated (C, header and interface files) it covers nearly half, and of
`JacksRbClient.c`, `JacksRbPort.c`, `JacksLatch.c` and the queue and freelist of
`lfds` two thirds or more.
