# Verification of libevent_http_serve

TLA+ models, TLC configurations and TLAPS proofs for the program in `src/`: an HTTP
server that shows how connections accepted in one thread can be served by libevent HTTP
servers running in other threads, and the command line library (`ppp_c_flags`) it brings
along.

## 1. The system

| component | source | state | operations |
|---|---|---|---|
| load balancer | `shared/load_balancer.c` `load_balancer_*` | `_workers`, `_i`, `balance`, `worker`, one task list, mutex and event for each worker | `load_balancer_init`, `load_balancer_serve`, `load_balancer_destroy` |
| worker | `shared/load_balancer.c` `worker_*`, `http_handler` | event base, HTTP server, event, thread, id, list of tasks | `worker_init`, `worker_on_thread`, `worker_on_ev`, `http_handler`, `worker_destroy` |
| listeners | `shared/listener.c` | socket or `evconnlistener` and base, the load balancer they feed | `sync_listener_init/serve`, `async_listener_init/serve` |
| address parser | `shared/shared.c` | none | `parse_shared_address` |
| command line: registry | `shared/flags.c` `command_create*`, `add_command*`, `add_flag*`, `command_destroy`, `base_name` | the tree of commands and their flags | creation, registration, destruction |
| command line: values | `shared/flags.c` `gropw`, `*_set_flag`, `parse_*`, `underscore_ok` | the caller's variables; growable arrays | parsing, verifying and storing one value |
| command line: execution | `shared/flags.c` `push_args`, `next_*`, `execute` | the argument being read, parse state, `handler_argv` | `ppp_c_flags_execute` |
| command line: usage | `shared/flags.c` `print_*` | none | printing `--help` |
| program | `example.c` | the four flags | `verify_*`, `root_handler`, `main` |
| libevent, pthreads, sockets | external | event queues, threads | `event_active`, `event_base_dispatch`, `evhttp_serve`, `accept`, ... |

### How the parts interact

`main` registers four flags with the command line library and calls `ppp_c_flags_execute`,
which stores the values that pass `verify_addr`, `verify_balance` and `verify_worker` and
then calls `root_handler`. That parses the address again, makes the load balancer and its
worker threads, and runs one of the two listeners in the main thread. The listener calls
`load_balancer_serve` for each connection. It chooses a worker, appends a task to that
worker's list under the worker's mutex and then, outside the mutex, activates the worker's
event with `event_active`. The worker's event loop answers with `worker_on_ev`, which pops
tasks under the same mutex until the list is empty and hands each to `evhttp_serve`.
Later requests on the connection reach `http_handler` in the same thread.

### What is hard

* **Concurrency.** The main thread walks and extends a list the worker shortens; the
  wake-up is sent after the unlock and may meet a callback that is running, about to return
  or not yet started; `worker->id` is written after the thread was created.
* **Partial failure.** Six calls of `worker_init` can fail for any worker, when threads of
  earlier workers already run. Three pieces of code release the same resources.
* **Limits.** `_i` is a `uint8_t` that is compared after its increment; the number parser
  notices overflow with comparisons on wrapped words; `handler_argv` is sized twice.
* **Sequences.** The command line machine must move on along each of its paths, use each
  argument once, and not enter a subcommand after a flag of its parent. `command_destroy`
  recurses through a tree whose array flags may share one variable of the caller.
* **Configuration.** `load_balancer_init` takes a number of workers and an algorithm on trust:
  defaults, three verify functions and `execute` together have to guarantee them.
* **Uninitialised state.** `malloc` for the workers, `shared_address_t` in `root_handler`.

### What makes each part correct

| component | properties |
|---|---|
| load balancer and workers | no connection lost, duplicated, reordered or served by another worker; no lost wake-up; every accepted connection is served; round robin is fair; a reply names the worker that has the connection |
| initialisation and release | whatever fails, what was acquired is released once, in an order libevent allows; a thread finds its event however early it runs |
| address parser | the two parses agree; the port is the one in the text; no buffer is overrun; the family is that of the host |
| numbers | accepted exactly when the text is well formed and in range; overflow reported with the limit |
| execution | handlers get the positional arguments; each argument is used once; refused values are not stored; `execute` returns |
| registry | what was added is found by its name; destruction frees every node and array once, in any shape of the tree |
| array flags | the default, then the values given in their order, whatever is reallocated |
| program | the server is only started with a legal configuration; no failure is lost in the exit status; the command and its flags are freed once, and of `handler_argv` no block is lost but the one that an error or help leaves; `main` serves or returns |

## 2. Modules

| module | models | depends on |
|---|---|---|
| `Dispatch` | what the load balancer promises, without threads | |
| `LoadBalancer` | `load_balancer_serve`, the listeners' accept, `worker_on_ev`, `http_handler` | refines `Dispatch` |
| `LoadBalancerProofs` | theorems about it | |
| `Lifecycle` | `root_handler`: init, failure, release | |
| `LifecycleProofs` | theorems about it | |
| `ParseNumber` | `parse_uint64`, `parse_int64`, `underscore_ok` | |
| `ParseNumberProofs` | theorems about it | |
| `SharedAddress` | `parse_shared_address`, `verify_addr`, the listener's choice of family | |
| `SharedAddressProofs` | theorems about it | |
| `FlagsExecute` | `execute`, its states, `push_args`, `call`, storing a scalar value | |
| `FlagsExecuteProofs` | theorems about it | |
| `FlagArray` | `gropw` and the store behind it, as operators on one array | |
| `ArrayFlags` | what array flags promise, without memory | |
| `FlagsRegistry` | the tree of commands and flags, the array flags in it, `command_destroy` | extends `FlagArray`, refines `ArrayFlags` |
| `FlagsRegistryProofs` | theorems about it and about `FlagArray` | |
| `FlagsDestroyProofs` | theorems about its memory and the recursion of `command_destroy` | extends `FlagsRegistryProofs` |
| `Program` | `main`: the flags, `execute`, `root_handler`, the exit status | instances of `FlagsRegistry` and `FlagsExecute`; its instance for TLC takes the address parser of `SharedAddress` |
| `ProgramProofs` | theorems about it | |
| `MC...` | the values the configurations give to the constants | |

Each specification keeps some operators marked *mutant*: the definition that follows, with a
plausible mistake. They are not used by the specification. Put in the place of the original
each makes TLC report the property it belongs to, which shows that the property depends on
that piece of the code.

### LoadBalancer

One action per step that another thread can see. The main thread's `pc` follows
`load_balancer_init` (`StartWorker`, `SetId`), `accept` (`Accept`, `AcceptFail`) and
`load_balancer_serve` (`SelectRound` or `SelectRandom`, `LockQueue`, `FindTail`, `LinkTask`,
`Activate`); `wpc[w]` follows the event loop and `worker_on_ev` (`RunCallback`, `Lock`,
`Return` or `TakeHead`, `Unlink`, `Serve`). The list at `worker->next` is a sequence, and
the pointer the main thread keeps from its walk is the task it stopped at: when that task is no
longer the last one, the link is lost, as it would be in C. That is what makes the mutex
matter in the model. `active[w]` is libevent's rule for `event_active`: an event already in
the active queue stays there once; the loop takes it off before it calls the callback, so an
activation during the callback leads to another call. The year-long timer of the event is
`Timeout`. `malloc` of a task is assumed to succeed.

`Dispatch` has two actions: a connection is handed to a worker, and a worker serves the next
one it was handed. `ImplementsDispatch` maps the hand-over to the choice of the worker.

### Lifecycle

The resources are pairs of a name and a worker; `held` is what has been acquired and not
released, `faults` what was released while not held. `ptr[w]` are the non-null pointers of a
worker, which `malloc` leaves arbitrary until `memset`. Every call that may fail has a
failing alternative. The threads step independently: `ThreadRuns` enters
`event_base_dispatch`, and `ThreadEnds` leaves it when the event is not pending. What a base
freed under a running loop does is undefined and not modelled; `ThreadsKeepRunning` shows
that it can only happen while workers are being destroyed. `Main` collects the steps of the main
thread other than the return of the listener's service, which nothing obliges to come.

### ParseNumber

One call, a character a step, on words of `WordBits` bits; the multiplication and addition
wrap. A character is the value of the digit or letter it stands for. `exact` follows the value in
unbounded arithmetic, and `WellFormed`, `Value` and `InRange` state on the whole text what
the result must be. The negation of the most negative number, undefined in C, is the
wrapping one.

### SharedAddress

The address is a text over a few characters; what `inet_pton` accepts is a parameter, that it
returns 1 for an accepted text is not. `VerifyAddr` and `ParseAgain` are the two calls with the
same text, the second into an uninitialised structure; `Listen` reads `v6` as both listeners
do. The buffer sizes and the largest port are parameters, so that small texts reach them.

### FlagsExecute

`argv` is a sequence of elements: words, `--name`, `--name=text`, and `-text`, whose text is
a sequence of letters since that is how it is read. The three states of the machine are
`LongArg`, `ShortArg`, `Subcommand`, `Positional` and `Call` (`next_none`), `NextFlags` and
`NextShort`. `handler_argv` is the allocated memory, pointer by pointer: the copy of the second
allocation copies bytes, as `memcpy` does, and a write behind the end sets `wild`.
The history variable `role` notes what each element was used for. `owned` counts the blocks allocated for
`handler_argv` less those freed (`Freed`): growing takes one and frees the old one, a failing growth
frees it, and `call` frees it behind a handler; errors, `--help` and commands without a handler do not.
`OneBlock` states what that comes to, and is checked as a part of `FreedAtExit` of `Program`. Flags are scalar; what the model takes
for granted of the tree is what `FlagsRegistry` shows of it.

### FlagArray and FlagsRegistry

An array is the caller's structure: where `p` points (nowhere, to memory of the caller, or to an
allocated block), `cap`, `len`, and what the memory at `p` holds. `Grown` is `gropw`: the
capacity it computes, the copy of as many elements as the *new* array has, which behind the
end of the old one yields `Junk`, and `Kept`, which drops the default when the flag was never
given. In `FlagsRegistry` the tree is `child` and `flag`, for each command the lists linked by
`_next`; since nodes are only appended, a list is the sequence of its nodes. Each call that adds a
node may be refused, by a check or because `malloc` fails, and then changes nothing but `err`.
`SetArray` is the `set_flag` of the twelve array types: they differ in the parser and in the element
size, and `gropw` works on all of them through one structure. `GrowthFails` is the `malloc` of `gropw` failing: the reset of `len` for
a first value is made in a copy and must be lost with it. `command_destroy` is executed call
by call: `stack` has the recursive calls under way, `VisitNext` and `VisitChild` make the two
recursions, `FreeFlag` is a turn of the loop over the flags, `FreeCommand` the last line. `held` and
`faults` keep the account of all nodes and arrays.

`ArrayFlags` states what a user of array flags sees: each variable holds a list of values, giving a
flag for the first time replaces the list, giving it again appends. `ImplementsArrayFlags` maps
the list to the first `len` elements of the memory, so what growth or sharing does to the memory must not show.

### Program

The actions of `main` use those of the two instances: `Create` and `AddNext` are
`CommandCreate` and `AddFlag` of the registry with the `goto FAIL` of `main`, `Execute` is a step of the
machine of `FlagsExecute` with the four flags of the program, and `FreeCommand` is
`command_destroy`. `root_handler` is followed up to the service and its return, with each call
failing or not; `Lifecycle` has its inside. `Parse`, `Legal` and `Default` are the handlers, verify
functions and initial values of the four flags.

## 3. Runs

| run | instance | checks |
|---|---|---|
| `lb` | 2 workers, both algorithms and both listeners, 3 connections, 1 timer | all properties of `LoadBalancer`, with liveness and refinement |
| `life` | 3 workers, both listeners | release and all-or-nothing properties; the main thread serves or returns |
| `parse_number` | texts of up to 4 characters, 8-bit words | exactness, limits, syntax |
| `address` | texts of up to 7 characters | agreement, port, bounds, family |
| `flags_execute` | command lines of up to 3 elements out of 21, both values of `allow_unknow` | uses of arguments, values, termination |
| `registry` | 3 commands, 2 flags, one array variable (null, static or allocated), 2 values, first allocation of 2 | lookup by name, release, refinement of `ArrayFlags` |
| `program` | command lines of up to 2 elements out of 16, 4 program paths | configuration, exit status, release, `main` serves or returns |

Why the bounds are enough: three connections and two workers give one worker two connections,
so that a push meets a list that is empty, has one task or is being emptied, and the round
robin wraps. Three workers make the unwinding of `load_balancer_init` release more than one.
Four characters reach a sign, a prefix of two and digits on both sides of an underscore, and three
digits pass the 8-bit limits. Seven characters hold `[::]:1` and hosts one longer than their
buffers. Three elements hold a flag with its value between two others; the deepest command has
three levels. Three commands give a tree with a sibling, a child and a grandchild in some behaviour, and two flags
share the variable or not; with a first allocation of two elements, arrays of two values are reached
both by a fresh block and by growth of an allocated one, whose capacity is 1. Two
elements of a command line hold a flag and its value, so each of the four flags is set, refused and left at its default, or a
positional argument and what ends `execute` behind it. A second block for `handler_argv` takes more than 32 of them: that part of `OneBlock` is
left to the theorem.

Five runs end in a counterexample; each is a place where the code does not do what a comment
or a documentation line says (`findings` in `PROJECT.json`):

| run | what it shows |
|---|---|
| `address_help` | a host `inet_pton` can read is refused, because its result 1 is taken for an error; `[::]:80` and `127.0.0.1:80` of the help text do not work |
| `address_v4` | for a host without brackets `addr.v6` stays uninitialised |
| `flags_many` | the 33rd positional argument is written behind the end of `handler_argv` |
| `life_leak` | `load_balancer_destroy` does not destroy `_mutex` |
| `array_overread` | an array flag whose variable has no default copies from the null pointer the first time it is given |

Five more places have no run of their own:

* `gropw` copies too much from every array it enlarges, not only from null: `ReadsPastEnd` is true
  at every growth of a full allocated array. What it copies is never shown,
  since `len` is right, so `ImplementsArrayFlags` holds.
* `handler_argv` is not freed where `execute` ends with an error other than a failing `malloc`, with the help or at a
  command without a handler: `OneBlock` says that these are the only places, and `FreedAtExit` does not deny them.
* `parse_int64` with `bit_size` 1 takes the saturated 1 of `parse_uint64` for -2 as the legal -1 and
  returns 0. No flag type asks for that size, and the calls of the run leave it out.
* `_default` is a copy of the array structure made when the flag is added. Once the flag is given, `--help`
  behind it prints what is at the copied pointer: overwritten memory, or freed if the array has grown.
* The result of `set_flag` is ignored for a bool without a value, so for a bool *array* a
  failing `malloc` loses the value silently; the model has scalar bools there.

### Fairness

`LoadBalancer` assumes weak fairness of the main thread between `accept` and the end of
`load_balancer_serve`, and of each worker's callback: threads are scheduled. Nothing is
assumed of `accept`, of timers or of requests. Weak fairness of the mutex is enough
because a worker can take its own mutex only as often as its callback runs, and `MaxConns`
and `MaxTimeouts` bound that; without the bound on timers the main thread could find the mutex taken each
time it is scheduled, and a fair mutex would have to be assumed. `FlagsExecute` assumes weak
fairness of `Next`: the loop of `execute` goes on. `Lifecycle` and `Program` assume weak fairness of
`Main`, the single thread that executes `main`, whose calls return; `ServeReturns` is left out, because
both listeners are meant to serve for ever and the synchronous one cannot return. So `ServesOrReturns` and
`ServesOrExits` claim that the main thread reaches one of two places, not that the server stops. The
other specifications state safety only.
Runs that switch off the deadlock check model calls that return.

## 4. Proofs

`LoadBalancerProofs`, for every number of workers a `uint8_t` holds, every number of
connections, both algorithms and both listeners (`ConfigAssumption`):

* `TypeCorrect`, and `CriticalSectionsExclude`: from `TypeInv`, which adds to the types who
  holds each mutex at each place of the two threads, and what is in hand there.
* `RoundRobinIsFair`: inductive with `TypeInv` alone.
* `NothingLost`, `WakeupsAreNotLost`: from `IInv`. `Conservation` is not inductive by itself: the
  link is right only if the pointer of the walk is still the end of the list, and the unlink
  only if the task read is still the head. `ListInv` says so, and holds because both threads
  keep the mutex from the reading to the writing (`MutexInv`).
* `RefinesDispatch`: every step is a step of `Dispatch` or a stutter, by `Conservation`
  (what a worker serves next is what it was handed next) and `SocketInv`.
* `EachIsSentOnce`, from `SentInv`: the positions of all workers together hold the accepted connections, each at one
  place, and the one in the hands of `select` at none yet. `RepliesAreRight` follows from it and `Conservation`: what
  a worker serves is a prefix of what it was sent, so a reply written by the callback of a worker names that worker.

`ParseNumberProofs`, for every string, every word of at least six bits, every base and bit size
(`WordAssumption`: any digit fits a word, the entries of the table of `maxVal` fit words, and two facts on powers of
two, which the prover cannot compute with; TLC evaluates them):

* `CutoffIsExact`: `cutoff` is the smallest word whose product with the base overflows.
* `WordNeverWraps`: in the loop the word is the value of the digits read and fits `bit_size`.
* `OverflowDetectedExactly`: the two comparisons on words report overflow exactly when there is
  one. The lemma `OverflowTests` has the arithmetic; the invariant `LoopInv` ties the locals to
  the arguments and the word to `exact`.
* `AcceptsExactlyTheNumbers`, `OverflowIsReported`, `TypeCorrect`: the call against the definition of a well-formed number and
  its value, which are recursive functions on the text. `InductionTo` and `RecursionExists` prove, for functions up to a bound and
  without the library's theorems on operators, that such a function exists and obeys its equation. `ReadInv` says what the loop has
  read: `exact` is the value of the characters behind it, all readable, and `underscores` whether one of them is one. `UnderscoresPlaced`
  relates the state machine of `underscore_ok` to the places of the underscores. `ResultInv` then has two parts: what `parse_uint64`
  leaves to `parse_int64`, and `Correct` at the end. `Correct` is stated for all calls but `parse_int64` with a
  `bit_size` of 1, whose limit is 0 and which no flag asks for.

`FlagsExecuteProofs`, for every tree of commands and flags, every parser of values, every verify
function and every command line (`ExecuteAssumption`: children are commands, each flag has a default):

* The 20 or so ways through the three states of the machine are first reduced to nine kinds of steps (`Kinds`): an element
  is looked at, enters a subcommand, is passed on, is taken with or without the next one, a letter is taken, or
  `execute` fails, helps or finishes. `StepKinds` shows that every step is of one of them.
* `TypeCorrect`, from `TypeInv`, and `RefusedValuesAreNotStored`, since each kind stores only what `verify` let pass.
* `FlagsBelongToTheCommand`, from `OwnInv`: until `input` is set no flag has been stored, and
  subcommands are only entered until then. The property is not inductive without it.
* `ArgumentsAreUsedOnce`, from `UseInv`: what is behind `i` has been used, what is before it has not, except the element of
  a cluster of letters, which has been used as a flag.
* `HandlerArgvIsOneBlock`, from `BlockInv`: `owned` is 1 from the first positional argument to the call of a handler or a failing
  `malloc`, however often the block was replaced. It needs that there is no room before the first argument, so that the first push allocates.
* `HandlerGetsUpToChunk`: with at most `Chunk` positional arguments the handler gets all of them in order, and nothing is written
  outside of `handler_argv`. `BufferInv` says that the first allocation has room for `Chunk` pointers, or for all elements left when
  they are fewer; the place of an argument is the number of positional ones up to it. With one more the property is false, as
  `flags_many` shows.
* `EveryStepGoesOn`: each step passes an element of `argv`, or looks at the one at hand, or takes a letter of it, or returns. It is the
  part of `Terminates` that needs no fairness: left is a lexicographic measure that cannot fall for ever.

`FlagsRegistryProofs`, for every set of names and values, every number of commands and flags, every chunk
size and number of arguments left (`RegistryAssumption`: what the caller's arrays are before the
program starts; `ArrayAssumption`):

* `GrowthMakesRoom` and `GrowthReadsPastTheEnd`, of `gropw` alone: the block has room for the value stored next, and
  the copy out of a full allocated array always reads behind it.
* `AddedNodesAreFound`: from `NamesInv` (no name twice in a list) and `TreeInv` (lists hold nodes that were made, so
  that naming a new node changes no name in them).
* `TypeCorrect`, with `StackInv` and `FamilyInv`: the calls of `command_destroy` are of commands of the tree, since a
  command is in the list of its parent, where `NextOf` looks for it.
* `RefinesArrayFlags`: `StoredValues` shows that growth and store append to what `Kept` keeps; the other
  actions stutter or empty an array. It needs `ArrayInv`, that every variable has the elements `cap` or `len` says.

`LifecycleProofs`, for every number of workers a `uint8_t` holds and every call that may fail (`ConfigAssumption`):

* The inductive invariant `IInv` says that `held` is determined by the control state: `MadeUpTo(w, n)` and `LeftFrom(w, n)` are what
  worker `w` has after `n` calls of its initialisation and before call `n` of its release, `Failing` the worker whose initialisation
  failed, and `WorkerInv` says which of them a worker is in from `pc`, `i`, `j` and `step`. `ReleasedOnce` is not
  inductive without it: that a release is right depends on what every earlier call acquired.
* `NothingReleasedTwice`, `BaseReleasedLast`, `InitialisesAllOrNothing`, `ListenerInitialisesAllOrNothing`,
  `ThreadsRunUntilDestroyed` and `TypesHold` follow from it. So does `LeaksAreBounded`: when `root_handler` returns
  it has kept the mutex of the balancer, the base of the listener and the listener at most (`life_leak` shows that it does keep some).
* `EveryStepGoesOn`: each step of the main thread comes to a later part, worker or call, each step of a thread to its next stage.

`SharedAddressProofs`, for every text, every size of the buffers and every `inet_pton` that accepts `::`
(`AnyAssumption`: for an empty host the code asks it about that literal):

* `PortIsTheOneGiven`, `NothingOverrun`, `BracketsAreV6`: the invariant `IInv` ties what the structure holds to the text once the first
  parse let it pass; the second parse, whose verdict is dropped, reads the same text. `LargestExists` shows that the last
  colon is there when the text has one.

`FlagsDestroyProofs`, for every tree of commands, every sharing of arrays between flags and every order in which
they were given (`RegistryAssumption`; that the arrays of the caller are numbered from 1 is a choice of names):

* `DestroyVisitsATree`: the calls `command_destroy` makes for the next command and for the child form a binary tree over the
  commands made (`BinaryTree`): each but the root is called for from one place. It follows from `ShapeInv`, what adding a
  node keeps of parents and lists.
* `RecursionInv`: the commands on the stack are calls of each other, all different, not freed; what they have returned from is freed
  and what they have yet to call for is untouched. `FlagsInv` says the same of the flags a frame has left, and
  `BlocksInv` that the blocks of arrays differ, are held and are owned by one variable each.
* `NothingFreedTwice` and `EverythingIsFreed` from these together (`MemoryInv`).
* `DestructionEnds`: each command is begun, has its two calls made and is freed once, and each flag is freed once; every step does one of
  these, and none is ever to be done again.

`ProgramProofs`, for every command line, every parser of numbers and addresses and every failing call (`ProgramAssumption`: the default
address is a legal one, and a legal address has a port):

* The steps of `execute` are reduced to what `main` sees of them (`Step`: which values may be stored, the outcome, and what becomes of the block of `handler_argv`), those of
  `command_destroy` to one frame with the flags not yet freed (`Rest(n)`, `Nodes(n)`), since `main` makes one command.
* `OnlyLegalConfigurations`, `FlagsAreComplete`, `NoFailureIsLost`, `OnlyHandlerArgvIsLeft` and `TypeCorrect` from `IInv`, the conjunction
  of `RegistryInv`, `ExecuteInv` and `ControlInv`. The theorems about `FlagsExecute` and `FlagsRegistry` are not used: their
  constants are operators here, and what is known of the instances is proved from their actions.

Only model-checked is liveness: `EventuallyServed`, `Terminates`, `ServesOrReturns`, `ServesOrExits` and the liveness half of
`ImplementsDispatch`, since fairness and ENABLED are beyond the prover. For `execute`, `root_handler` and `command_destroy` the
theorems above say that no step goes back, which leaves to TLC that they do not stop halfway.
`HandlerGetsPositionals` is proved up to `Chunk` arguments and false beyond. Every other property of the passing runs is stated by a theorem,
for all values of the constants its section names; `AcceptsExactly` and `OverflowReported` with the one exception above.

## 5. Plan

Done, in this order: `Dispatch` and `LoadBalancer` with their proofs, `ParseNumber` with its
proofs, `Lifecycle`, `SharedAddress`, `FlagsExecute`, then `FlagArray`, `ArrayFlags` and `FlagsRegistry`,
the ownership of `handler_argv`, `Program`, the proofs about execution and the registry, and then the proofs of all safety
properties that were only model-checked: sending and replies, release, addresses, destruction, the program, numbers.

To come:

1. A measure for `main` as a whole, like those of `execute` and `root_handler`.
2. That the loops are never stuck, stated without ENABLED: at each place of the control one of the guards is true.

## 6. Not modelled

* Printing of usage and defaults: `print_*` and `print_default` change no state, and their wording is the only thing to state.
* The float types: they accept what `strtod` accepts and, for `float32`, what a float represents exactly (so `0.1`
  is refused): a matter of floating point, which TLA+ does not have.
* `ppp_c_flags_alloctor`: the program never calls it; `malloc` and `free` are the allocator throughout.
* `malloc` of a task failing, and a base freed under a running loop: a crash and undefined behaviour, with no state behind them.
* The build files.

Running it: `tlc -config life.cfg MCLifecycle.tla`, `tlapm LoadBalancerProofs.tla`.
