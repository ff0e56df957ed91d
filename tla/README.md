# liblw in TLA+

liblw is a coroutine web framework in C++20: an epoll event loop that resumes
coroutines, futures and promises for them, sockets and a server on top, and HTTP,
TLS and serialization above that. This directory holds TLA+ models of it, from the
ring buffer of the scheduler's queue up to HTTP connections and JSON, with
TLC runs on small instances and TLAPS proofs for all instances. `PROJECT.json`
lists the runs, the lines of source behind each definition, one deliberately wrong
variant ("slip") per property, the findings and the hazards.

    tlc -workers 2 -config MCScheduler.cfg MCScheduler     # a run
    tlapm SchedulerProofs.tla                              # a proof

## Inventory

| Component | State | Operations | Works with | What is hard, what makes it correct |
|---|---|---|---|---|
| `CircularQueue` (memory) | `_head`, `_tail`, `_size`, a ring of slots | push, try_push, pop, move | the scheduler's coroutine queue | wrap-around; three fields that must agree; it is a bounded FIFO |
| `EPoll` (co/systems) | `_callbacks`, the kernel's interest list | add, remove, wait | called by `Scheduler`, calls coroutines back | one-shot events dispatched from a stale batch while callbacks change the map; exceptions in mid-batch |
| `Scheduler` (co) | `_continue_polling`, `_coro_queue`, the notification eventfd; a map of schedulers by thread | schedule, run, stop | every awaitable | lost wakeups, starvation, a full queue, stop racing run |
| `Future`/`Promise` (co) | shared state: set, suspended, value, exception, handle, chain | get_future, set_value, set_exception, co_await, co_return of a future, `all` | schedules awaiters | set versus suspend, chaining, one writer, one resumption, failure after the claim |
| `Task`, `TaskAwaitable` (co) | error, finished flag, callback | resume, get, then | run by `Scheduler` | a task that throws never tells its awaiter |
| Generators (co) | current value, next promise | next, co_yield | promises | the eager start fulfils a promise that next() then replaces |
| Timers (co) | a timerfd per sleep | sleep_for, sleep_until | `EPoll` | a zero duration disarms the timer |
| `Socket` (net) | one descriptor | connect, listen, accept, send, receive, close | `EPoll` through fd_readable/fd_writable | the descriptor is closed or moved while a coroutine is suspended on it |
| `Server` (net) | `_listening`, `_running`, `_port_map`, `_runner_thread` | attach_router, listen, run, try_close, force_close | sockets, scheduler, routers | threads closing a server that starts or runs; restart; half-failed listen |
| Routers (net, http) | connection counter, route trie | run, attach_routes | server, requests | the counter under exceptions, keep-alive, pipelining |
| `ServerResourceContext` (net) | `_dependencies`, `_construction`, the static factory registry | create_and_get | futures, `co::all` | concurrent fetches of one type, failures while others wait, cycles |
| TLS (net) | OpenSSL engine, BIO buffers | handshake, read, write, close | sockets | want-read/want-write, partial writes |
| `CoReader` (io/co) | buffer, read window, write window | read, read_until | any `CoStream` | short reads, growth, views that a later read invalidates |
| HTTP request/response | header and body state | read_header, body, serialize | `CoReader` | order of calls, content length |
| Mount paths and trie (http/internal) | trie nodes | insert, match | router | literal edges first, then back to the wildcards passed by; routes that share prefixes; state that leaks from one part of a route to the next |
| Serializer, JSON (io/serializer, mime) | state stacks | put/start/end, parse | streams | illegal call sequences, nesting |
| Buffers, blobs, flags, init, errors, logging, base | small | conversions, parsing | everywhere | ownership, boundaries |

`PROJECT.json` names the hazards line by line, with the properties that watch them or
the reason why none does.

## Modules

| Module | Models | State and actions |
|---|---|---|
| `BoundedFifo` | what the queue promises | contents and the last call's outcome |
| `CircularQueue` | `circular_queue.h` | the three fields and the slots; one action per public operation. A slot that was reserved and never written holds `Garbage`. Capacity may be zero: it comes from a flag |
| `CircularQueueProofs` | | theorems |
| `Scheduler` | `scheduler.cpp/.h`, `epoll.cpp/.h` on the scheduler's thread | `callbacks` is the map; `interest`, `armed`, `readyList` are the kernel's side of epoll with `EPOLLONESHOT`; `batch` is what epoll_wait returned and `_wait` has not dispatched; `todo` is what the drain callback's limit leaves. The steps of the loop are `RunReturns` ... `DrainDone`; a resumed coroutine may schedule others, stop the loop, read a descriptor, and then yields, waits for a descriptor, waits for something else or ends |
| `MCScheduler` | | symmetry of coroutines |
| `SchedulerProofs` | | theorems |
| `FuturePromise` | `future.h` | an inner promise that setters fulfil and an outer one that consumers await; the returner is a coroutine that does `co_return` of the inner future. Each load and store is a step. `World` says where the agents live: in the "loop" an operation runs to its end, as coroutines of one scheduler do, and the queue has room; as "threads" their steps interleave and the queue may be full |
| `FuturePromiseProofs` | | theorems |
| `ServerResource` | `server_resource.h/.cpp`, `co::all` | the two maps of a context, the state of every `create_and_get` and of every construction; `stack` models the eager start of coroutines: while a construction is on the C++ stack only its top moves |
| `ServerResourceProofs` | | theorems |
| `CoReader` | `io/co/co.h`, `co.cpp`, `trim_prefix` and `copy` of `Buffer` | the two windows as positions in the buffer, whose cells hold positions in the stream; a suspended call waits in `load` for the source, which delivers any number of bytes up to what was asked or throws. `read_until` of one byte is that of a string of length one |
| `CoReaderProofs` | | theorems |
| `MCCoReader` | | the delimiters |
| `MCServerResource` | | the dependency diamond of the unit test, and one unregistered type |
| `Server` | `server.cpp/.h`, accept and close of `socket.cpp` | the server's thread (`pc`), its event loop reduced to what a server uses, the accept loop of each port (`loop`, `alive`: its `Socket` still exists), closers on other threads or as coroutines of the loop |
| `ServerProofs` | | theorems |
| `Coroutines` | `task.h`, `await.h`, `time.h/.cpp`, `AsyncGenerator` of `generator.h` | tasks with a queue, an awaiter and a result each; a timerfd per sleep, whose number is free again when the sleeper goes on; one generator with its two promises (the one `next` handed out, the one `co_yield` will set) and its consumer. A running task chooses what to do next: sleep, yield, await another, ask the generator, return or throw |
| `CoroutinesProofs` | | theorems |
| `MCCoroutines` | | the durations |
| `MountPath` | `http_mount_path.cpp/.h`, the case-insensitive order of `strings.h` | pure operators. A route is parsed by a fold over its characters, one case per state of `parse_into_matchers`; `MountPathMatch` is `MountPath::match`; a trie is its set of nodes with the wildcards and endpoints on them, `BuildPath` and `WalkPath` insert and search |
| `HttpRequest` | `http_request.cpp` | the parsers of the request line, the query and the headers, as operators |
| `Http` | `http.cpp`, response status, send and receive of `socket.cpp` | `AttachRoutes` takes the table in any order; then one connection: the reader of the current request, what is under way on the wire, the answers given, the counter. A client sends the next request before or after the answer, and may hang up. Handlers read the body or not, and may throw |
| `MCHttp` | | the route tables and the requests |
| `Json` | `serializer.h`, `json.cpp` | the formatter's stack of states and what it wrote; the calls of `Serializer::write` that are open; the parser's stack of tokens and its result. Three worlds: a document of nested lists and objects is written and parsed, a scalar is written as one type and read back, the parser is given any lexemes |
| `JsonGrammar` | | what a JSON document is: the reference `Json` is compared with |
| `MCJson` | | characters and keys |
| `JsonProofs` | | theorems |

`Scheduler` takes the queue as the bounded FIFO that `CircularQueue` is proved to
implement. `FuturePromise`, `ServerResource` and `Server` take from the scheduler
that queued coroutines are resumed in the end and ready descriptors reported, which
run `scheduler` checks; so do `Coroutines` and `Http`. `Http` composes `HttpRequest` and
`MountPath`; of the reader it takes that `read_until` returns the bytes up to the first
blank line (`CoReader` has the case in which that fails). The number of
connections that `try_close` looks at is `conns` of `Server`. `Server` drains its queue to the
end, counts a connection at the hand-over and, after an error in mid-batch, has the rest of the
batch armed again for a later run; `Scheduler` has the limit and the spent one shots.

Abstractions common to all: values are names; a call that throws into its caller
and changes nothing is a stuttering step; texts of errors and logs are left out.
System calls fail only where the code's own state makes them fail or a switch says
so. An undefined access (a destroyed `Socket`) is recorded in `touched`, and goes on
as the likeliest build does: `close` zeroed the descriptor, so accept fails.

## Runs

Bounds are the smallest for which every action and each pair of conflicting actors
occur.

| Run | Instance | Shows |
|---|---|---|
| `queue` | capacity 3, 3 values | `IndicesAgree` and the refinement of `BoundedFifo` over all call sequences, wrapping any number of times |
| `scheduler` | 3 coroutines, 2 descriptors, queue 2, event buffer 2 | no event without a callback, no wakeup lost, run returns only when it is done; queued coroutines are resumed, ready descriptors are not starved, stop ends run. Queue and buffer are smaller than the numbers of coroutines and handles, so both overflow and events compete |
| `future` | 2 setters, 2 consumers, a returner, in both worlds | one writer and one resumption even without synchronisation and with a full queue; in the loop no wakeup is lost, and the awaiter is resumed with the result |
| `resource` | 5 types (a diamond and one that nobody registered), 3 requests, two asynchronous factories, two that throw, the queue may be full | factories run once, dependencies first, whatever fails; without a failure all fetches settle and nothing is left over |
| `server` | 2 ports, 2 descriptors, a closing thread and a closing coroutine at any moment, accepts may fail, 1 arrival, up to two runs | no destroyed socket is used when the loop closes the server, run ends only when closed, connections are accepted, and run always ends on a first run: a stop that `Scheduler::run` forgets is made good by the accept loops, which see `_running` and end |
| `reader` | a buffer of 1 to 6 bytes, 5 bytes of 2 values, reads of 2 and 5, limits of 2 and (by default) 5, delimiters of one and of two bytes | the windows and the source's target stay inside the buffer, no byte is lost or repeated, views show the right bytes, a chunk ends at its delimiter and passes over an earlier one only right after its own beginning, every call ends. Five bytes are the fewest in which a two-byte delimiter is passed over and found again. The buffer is smaller than what is asked for, so it is moved up, grown, grown to its cap and refused |
| `coroutines` | 3 tasks, durations -1, 0 and 1, 5 operations, clock up to 2 | a timer's descriptor wakes only the one who sleeps on it, although numbers are reused; whoever awaits a task or the next value goes on, but for the states named below |
| `http` | 15 tables of up to three routes in every order, 24 requests, two of them per connection, `GET` and `POST` implemented | the handler called is that of a route which matches by a definition of matching, with that route's parameters, and when the trie's walk gives up no plain route matches (a path that ends on an inner node gets a 404 too, and may match a route); what a client in step sent is what was read, and its answers come in order; a client that waits is answered and one that hangs up is no longer counted |
| `json` | 5 characters, 2 keys, up to 6 writes, depth 4, 7 lexemes of input, 4 digits | the parser loses nothing of what it accepts, accepts every document of the grammar, scalars are read back as written where their text can show them (`Showable`), and values that do not mix lists and objects are formatted as documents |

The tables of `http` are chosen so that routes share a prefix, a parameter or a type, or
collide; its requests are paths that meet them, and malformed ones. Two requests per
connection are enough for one to be left over from the other; a body in two segments and one
that is itself a request are among them. In `json` six writes at depth four reach every pair
of outer and inner container with a successor. Runs with deadlock checking switched off are those whose
agents may all be done.

Runs that show the code departing from its own documents (each has a finding in
`PROJECT.json` with the quotation):

| Run | What TLC shows |
|---|---|
| `scheduler_errors_wakeup` | an exception out of `run` loses the eventfd's one shot: "Wakeup is already scheduled" is false from then on |
| `resource_stranded` | a failed construction is never announced, and the type stays tagged |
| `server_restart_unserved` | after close, listen and run nothing is accepted: the old descriptor's callback is still registered |

Met on the way and recorded with the hazards they belong to: a promise set from
another thread can lose its awaiter or show it an empty value; `set_value` on a full
queue strands the awaiter; a closing thread destroys a socket that an accept loop is
about to use; `try_close` of a server that only listens returns true with its sockets
bound; one failing accept per port ends `run`; a peer that closes in the middle of a
header makes `read_until` throw where the caller expects an empty buffer.

Of the parts above the loop: the JSON formatter never pops its stack, so a list as the
value of a pair makes `end_pair` throw, and an object in a list makes the next element or
`end_list` throw; the parser ends a string at an escaped quotation mark, stops a number
at its exponent, and looks at the top of an empty stack for a lone comma; a double is
written with six significant digits, and NaN and infinity as words the parser refuses. A task that
throws never resumes its awaiter; `sleep_for(0)` disarms its timer and never returns; an
eager `AsyncGenerator` loses its first value, and one suspended by `co_yield` of a plain
value is resumed by nothing (`generator_test.cpp:22-26` passes because its task hangs
before the last expectations). In a route, `type` is not reset from one part to the next;
a route with an extension or a group is never found by the trie; two separators in a row
make `MountPath::match` build a view from a null pointer, and it folds the case of literals
where the trie does not; a body that comes in two segments is returned short; what is left of
a body is taken for the next request, so that one request may get two answers; the last value of a query keeps
the space behind it; an exception that is no `lw::Error` leaves the connection counted.
The properties leave out exactly these cases, by named predicates.

## Fairness

* `Scheduler`: weak fairness of the loop's own steps (the thread keeps running) and
  of "a resumed coroutine suspends or ends" (scheduling is cooperative). Nothing is
  assumed of descriptors, of the host program or of `stop`.
* `FuturePromise`: an operation that was begun is finished and queued handles are
  resumed; nobody has to set or await.
* `ServerResource`: ready coroutines are resumed and a factory's future is fulfilled
  or rejected in the end; nobody has to fetch.
* `Server`: the thread inside `run` and the loop go on, and a close that was begun is
  carried on. Nobody has to connect, run or close.
* `CoReader`: the source answers in the end, if only with nothing or an exception,
  and the resumed coroutine goes on. Nobody has to call.
* `Coroutines`: the loop resumes what is queued, a running task takes its next step,
  time passes, an expired timer is reported, and the futures a generator waits for are
  fulfilled.
* `Http`: the loop goes on with a connection that can go on. `CanServe` writes out when
  that is, since TLC would expand `ENABLED` over the parsers. The client owes nothing:
  it may fall silent for ever.
* `Json` has no fairness: its properties are of safety.

## Proofs

Assumptions are those of the modules. Sizes are naturals, the event buffer has at
least one slot, and names that the models put into one set are distinct: handles and
coroutines, setters, consumers and the returner, requests and resource types, ports and
the closers that run on the loop, tasks and the generator, and `None` from all of them.
In the code they are of different C++ types. Keys of JSON objects are sequences of characters.

* `CircularQueueProofs`. `QueueSafe`: type, `IndicesAgree` and `NoGarbage` are
  invariants. They are inductive together with the fact that the slots from `tail`
  on, `size` of them modulo the capacity, are the written ones. `QueueImplementsFifo`
  uses it: with `Contents` as the refinement mapping every step is a step of
  `BoundedFifo`; the lemmas on `(tail + i) % Capacity` say that distinct positions are
  distinct slots.
* `SchedulerProofs`. `Invariance` proves `IndInv`: the checked properties with
  `ControlInv` (who is in control and what is empty between steps), `OneShotInv` (a
  registration is armed or in the batch, never both, so an event in the batch cannot
  lose its callback) and `SuspendedInv` (a suspended coroutine is where its state
  says). Each action is proved three times over disjoint groups of conjuncts: the epoll
  part, the coroutine part and the loop part. `TypeCorrect`, `EventsAreHandled`,
  `ResumesAreSafe`, `WakeupsAreKept` follow; `RunReturnsCorrectly` is an action property
  that needs the invariant, because run looks only at the callbacks map.
* `CoReaderProofs`. `Invariance` proves `Inv`: the windows, the stream and the view
  are inductive together with `ScanInv`, which says that once a `read_until` has asked
  for bytes the two windows together are as long as its limit. That is why its index
  stays inside the buffer although it passes the loaded bytes when the source delivers
  nothing. `AdjustMakesRoom` is the lemma on `adjust_buffers`: each of its three ways
  leaves the loaded bytes in place and room for what is asked. Assumed: the initial
  size is positive (with zero the doubling never ends) and not above the maximum.
  `ReaderFindsDelimiter` rests on a second invariant, `FindInv`, proved on top of the
  first: the partial match is the end of what was looked at, and every earlier place
  either holds a byte that refutes the delimiter or comes right after a proper prefix
  of it. A mismatch settles all the places up to its byte at once: the place of the
  partial match is refuted, those behind it come after what had matched.
* `FuturePromiseProofs`, for any number of setters and consumers. `ClaimInv` (a state
  is set iff one writer won it, and only that one stores) and `AwaitInv` (one consumer
  has the future; its handle is recorded, suspended or queued, and queued only by a
  writer that is done) hold however loads and stores interleave, and give
  `StatesAreWrittenOnce` and `AwaitersAreResumedOnce` for threads with a full queue.
  `LoopInv` is what one scheduler adds, that at most one agent is inside an operation:
  `AwaitersGetTheResult` and `NoWakeupIsLost` need it, and are false without it.
* `ServerResourceProofs`, for any types and any dependencies, cyclic ones included.
  `BuildInv` follows a type from its tag to its storage, `FetchInv` the calls of
  `create_and_get`, `TagInv` says why a type may be tagged, `StackInv` what is on the
  C++ stack. `FactoriesAreCalledOnce` and `FactoriesFindDependencies` need the first
  two. `SettledContextsAreAtRest` needs `NoCycle` too: types are built on behalf of one
  another without a cycle, even where they depend on each other in one (there a fetch
  waits and builds nothing), so whatever is under way is under way for some request. It
  is stated over all sets of types, each of which has a member built for somebody
  outside; this is well-foundedness without an induction.
* `CoroutinesProofs`, for any number of tasks, durations and steps. `TimersAreSleepers`:
  a descriptor could be used again by mistake only if a sleeping task were resumed, so
  the invariant says who may be resumed. What is in the queue is there once and for a
  reason (`QueueInv`), what is on the stack runs (`StackInv`), a callback belongs to a
  task that awaits (`AwaitInv`), and the watched descriptors are those of the sleepers,
  one each (`TimerInv`). That the lowest free number is free uses the least element of
  a set of naturals.
* `ServerProofs`, for any number of ports, closers, connections and runs. `LoopInv` holds
  always; `OpenInv` until a closer has claimed the server: each accept loop is dead or
  the event loop will find it, which gives `RunStaysUntilClosed`, an action property.
  `OwnInv` holds while nobody but coroutines of the loop closes the server: what they do
  between their claim and the end of stop is not interleaved with an accept loop, and a
  descriptor in epoll's ready set is the open socket of the loop that waits on it. That
  gives `OpenSocketsOnly`. A closing thread breaks it, in the code as in the model.
* `JsonProofs`, for any keys, any depth and any length of input. `JsonInv` is about the
  parser: until it throws, the tokens on its stack and the final value spell what was
  read without the commas (`Kept`), and the view that the grammar has of the same lexemes
  has a level for each list and object on the stack, waiting for what the stack is open
  to (`Corresponds`). A step is proved by the class of the lexeme; the lexer ends a token
  where the grammar does, but for an escaped quotation mark. `ParserHoldsAllInput` and
  `AcceptsEveryDocument` follow. `UnmixedValuesAreFormatted` needs `WriterInv` on top of
  it: the open calls of `write` and the top of the formatter's stack together describe
  the view to which what was written so far leads the grammar (`Describes`), and the
  parser has read a beginning of that. Since no `end_*` pops the state of a list or an
  object, what lies on top when one ends is right for the one around it only if both are
  of a kind, which is what `mixed` excludes. What flattening a sequence of sequences
  yields is an induction over its length; it is proved from the least length at which a
  claim would fail, with the well-foundedness of the naturals.

The inductive invariants were checked by TLC on the runs' instances before they were
proved. Proving corrected one property: an earlier `UntilFindsFirst` claimed that the first
delimiter is found whenever its first byte does not come again in it. Four bytes of input
agreed; the proof failed at the mismatching byte, and five bytes (a, a, b, a, b for the
delimiter a, b) refute the claim.

Model-checked only: every property of liveness (fairness is out of the prover's reach);
`ReadsBack` of `Json`, which compares what a fold over the characters of a string decodes
with what was encoded, and those of `Http`, whose parsers and matchers are folds over their
input: what they compute for every input is an induction over data for an operator that
is passed as a parameter; and the three runs that expect a violation. Type correctness of the loop, `MapMatchesKernel` and `WindowsFit` are proved
and not run again.

## Not modelled, and the plan

Every part with state of its own that interacts with another is modelled, but for these:

* TLS. Each step of `tls.cpp` asks OpenSSL what it wants next and how many bytes it
  holds; a model would be one of that engine, which the repository does not contain.
* `stop` and `schedule` from other threads, and the map of schedulers: they race on plain
  maps, which is undefined in any order.
* `connect`, the address lookup, and sends that are cut short (`finish_request` does not
  look at how much was sent).
* The text of responses, blobs, errors and logs; flags and the order of initialisation;
  the registry of routers, a static set that `Http` starts from in any order.
* `Generator`, the synchronous one, and `sequences.h`: iterators without interleaving.
  The ownership of `Buffer` and the moves of `CircularQueue`, which forget `_size` and
  are not used by the scheduler.
* The empty route and the empty path, for which the trie casts its root to a type it does not
  have. Keys of JSON objects that are no strings, which the formatter refuses. A process killed
  by SIGPIPE: a send to a client that is gone is an error here.
* Compile-time helpers, the example program, build files. `Server::close` is declared
  and has no definition.

What is left is proofs: `ReadsBack` of `Json`, and the state machine of `Http`'s connection
loop as far as it does not depend on what the parsers compute.
