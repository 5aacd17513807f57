# A verification model of zookeeper-cpp

TLA+ modules that model the ZooKeeper client library in `src/`, from the
connection string to the callbacks of its watches, and the library that runs
ZooKeeper servers as child processes; TLC configurations that check them on
small instances, and TLAPS proofs of their most important properties for
instances of any size.

## The system

`zk::client` is a handle to a `zk::connection`; the only implementation,
`connection_zk`, wraps the multi-threaded ZooKeeper C library. Three kinds of
thread meet in it:

* **user threads** call operations, which hand a request to the C library and
  return a future;
* the **I/O thread** of the C library talks to the ensemble, changes the state
  of the session and appends answers and events to a completion queue;
* the **completion thread** takes the queue in order and runs the callbacks of
  `connection_zk`, which settle promises.

Beside the client there is a library that runs ZooKeeper servers
(`src/src/zk/server`). A `configuration` is the lines of a file and an index of
the settings in them; a `server` is a worker thread that starts java with it as
a subprocess, reads what it prints and terminates it on `shutdown`; a
`server_group` makes the directories and files of an ensemble on one machine
and hands out a connection string. A registry keeps the server packages.

### Inventory

| Part | State | Operations | Talks to | What is hard |
|---|---|---|---|---|
| Watches (`connection_zk.cpp`) | `_watches`: address of a watcher to its owner; two promises and two flags per watcher | `watch`, `watch_children`, `watch_exists`, `deliver_raw`, `deliver_watch`, `close` | C library by bare address | the event or the answer overtakes the return of `watch`; session events do not end a watch in the C library; addresses used again; close against callbacks |
| Operations (`connection_zk.cpp`) | one heap promise per call, owned by the call, then by the callback | `get`, `get_children`, `exists`, `create`, `set`, `erase`, `get_acl`, `set_acl`, `load_fence`, `commit` | C library | the callback deletes the promise before the call has returned; refusal; lost connection; close |
| Session (`connection.cpp`, `connection_zk.cpp`) | `_handle`, list of promises | constructor, `state`, `watch_state`, `on_session_event`, `close`, destructor | C library | events before `_handle` is set; state read ahead of the event queue; list moved out while calls are added |
| Client (`client.cpp`) | the connection; the thread of `connect` | `connect`, `close`, forwarders | connection | lost wake-ups between `watch_state` and `state` |
| Adaptors and errors (`connection_zk.cpp`, `error.*`) | none | conversion of codes and states | - | codes without an enumerator |
| Connection parameters (`connection.*`) | a value | parse, print, compare | - | options that do not survive |
| Transactions (`multi.*`), results, types, ACLs, buffers | values | build, print | - | no order of steps |
| Package registry (`package_registry.*`) | `_registrations`, weak lifetime | register, unregister, destructors, newest | - | stale registrations; order of versions |
| Server process (`server.*`, `subprocess.*`, `event_handle.*`, `pipe.*`) | `_running`, child pid, pipes | `run_process`, `shutdown`, `terminate` | kernel | signals, end of file, shutdown while the child writes |
| Configuration and server group (`configuration.*`, `server_group.*`) | lines and an index of settings; ports and directories | setters, parse, save; `make_ensemble`, `start_all_servers` | file system | round trip; partial failure; 16-bit ports |
| Classpath | a list of paths | search, join | file system | pure I/O |

## The modules

| Module | Models | Extends |
|---|---|---|
| `RawCodes` | the adaptors for result codes and session states | |
| `ErrorClasses` | `throw_error`, the exception classes, the predicates on codes | `RawCodes` |
| `WatchContract` | what the caller of a watch may rely on: four variables, no machinery | |
| `WatchRegistry` | the watches and `close`, step by step | `RawCodes`; instance of `WatchContract` |
| `OperationsContract` | what the caller of an operation that does not watch may rely on | |
| `Operations` | the ten operations that do not watch, and what their futures throw | `ErrorClasses`; instance of `OperationsContract` |
| `StateWatch` | the session of a connection | `RawCodes` |
| `ConnectionParams` | connection strings: parse, print | |
| `ClientConnect` | from a connection string to `client::connect` or a connection of one's own | `StateWatch`, `ConnectionParams` |
| `PackageRegistry` | the package registry | |
| `ServerProcess` | `server`, `subprocess`, `event_handle` and the pipes, for several servers in one process | |
| `Configuration` | the lines and settings of a configuration, as operators | |
| `ServerGroup` | a program that edits, saves and starts a configuration; `server_group` | `Configuration`, `ConnectionParams` |
| `WatchRegistryProofs`, `WatchDeliveryProofs` | the theorems about `WatchRegistry`: types, memory and order; deliveries and the contract | `WatchRegistry`; `WatchRegistryProofs` |
| `OperationsProofs` | the theorems about `Operations` and `ErrorClasses` | `Operations` |
| `ClientConnectProofs` | the theorems about `StateWatch`, `ConnectionParams` and `ClientConnect` | `ClientConnect` |
| `PackageRegistryProofs` | the theorems about `PackageRegistry` | `PackageRegistry` |
| `ServerProcessProofs` | the theorems about `ServerProcess` | `ServerProcess` |
| `ServerGroupProofs`, `EnsembleProofs` | the theorems about `Configuration` and `ServerGroup`: settings and their files; groups | `ServerGroup`; `ServerGroupProofs` |
| `MC*` | instances for TLC | their module |

Operators named like a C++ function model that function; a step of an operation
that another thread can observe apart is an action of its own (`zoo_accepts`
and `emplace_watch` are two halves of `watch`). Operators in capitals
(`Respond`, `Disconnected`, `Dispatch`...) are the C library and the ensemble,
modelled from how `connection_zk` uses them. A definition marked *Mutant* is a
plausible bug of the definition below it and is used by nothing else.

### The C library as assumed

* An accepted request is answered once: by the ensemble, by the loss of its
  connection, or by `zookeeper_close` with `ZCLOSING`.
* An answer that leaves a watch, and the watch's place in the tables, are one
  step of the I/O thread, so the answer is queued before any event of that
  watch. A node event removes the watches it triggers; a session event tells
  all watches and removes none.
* When a connection breaks, the session event is queued before the failed
  answers. An expired or unauthenticated session cannot be recovered, and
  later requests are refused with `ZINVALIDSTATE`. A session expires only if it
  was connected once.
* A request without a handle, or with a bad path, is refused with
  `ZBADARGUMENTS`, one without memory with `ZMARSHALLINGERROR`.
* `zookeeper_close` runs the callbacks that are left before it returns, and may
  return an error after it has freed the handle.

### WatchRegistry

`pc` follows a call through `idle`, `locked` (holds `_watches_protect`, the
watcher exists), `sent` and `returned`. `live` is the set of watchers some
`shared_ptr` owns and `addr` their addresses; `watches` is `_watches`;
`data` and `event` are the two promises. `held` is the watcher between the two
halves of `deliver_watch`, `l_watches` the local of `close`. `pending`,
`active` and `queue` belong to the C library. `deliver_raw` is given an address
and no owner: the model looks for a live watcher of the right kind there and
records in `dangling` that there was none. The allocator may return the address
of a freed watcher again, and the C library may still have it: `aliased` records
the calls whose watcher got such an address. It is history, no step depends on
it.

### Operations

A call and its promise are one value; `live` holds the promises that exist,
`future` the calls whose future was taken. The C library answers in order, so
its queue is the sequence `log` of accepted requests and two counters,
`answered` and `delivered`. `misused` records the calls whose promise was used
after it was deleted; what such a call returns is a choice. A transaction is
its size; `failing` is the operation the ensemble rejects, and `raw_results` is
what the completer then searches. The eight operations whose callback settles
in the same way share the name `plain`: they differ in the payload alone.
`thrown` is what `get()` of a failed future throws, by way of `throw_error`; for
a `commit` that was sent that is `transaction_failed` whatever the reason.

### StateWatch, ConnectionParams and ClientConnect

`session` is what `zoo_state` returns and `events` what has not been delivered:
the two differ whenever the completion thread lags. `on_session_event` is three
actions: the list is moved out, each promise is settled, the callback returns.
`ClientConnect` adds the steps of `connect` in their order: `parse`, the
constructor, `watch_state`, `state`, and the wait on the thread. A program may
instead own the connection (`own_init`, `own_use`), and then calls
`watch_state` and `close` at any time.

A connection string is what its delimiters make of it: schema, pieces of the
host list, path, pieces of the query. A host and a path are sequences of words:
a chroot without a slash is printed right behind the last host and is read as
part of it, and without a path so is the `?` of the query. Printing a timeout
keeps six digits (`SixDigits`, where `RoundsUp` are the ties that go up), parsing
one goes through a double and is cut to milliseconds (`BelowInBinary` is the set
of times the double of which is too small, like 1.001 s), and the constructor
casts it to an `int`, whose largest value is `IntMax`. The schema `fakezk` is
valid and has no connection.

### PackageRegistry

Each operation runs under `_protect` and is one step. An entry is represented
by the registration that made it, and `unregistered` records the registrations
that were given to `unregister_server` by a call, as opposed to their destructor.
A version is a name; the order of versions, which only `find_newest_classpath`
reads, is left out.

### ServerProcess

`pc` follows the worker through `run_process`: pipes, fork, the loop of
`select` and `drain_pipes`, `terminate` (handler, signal, alarm, `waitpid`,
alarm off, handler back), the last drain, and `terminate` again in the
destructor of the subprocess. `caller` is the thread in `shutdown`. The alarm
clock and the handler of SIGALRM are the process's (`alarm`, `handler`); the
model lets two servers use them at once and records it in `overlap`. A child
writes, ends and heeds or ignores SIGTERM; `inherited` are the pipes it got by
being forked between another worker's `pipe` and `dont_leak`. `select` and
`waitpid` may be interrupted by a handler of the program. If `fork` fails, its -1
is stored like a pid and the worker goes on without a child. A `pipe` that
cannot be made, a `select` or a `read` that fails in the worker, and a `kill`
that fails in `terminate` end the program, as the exception leaves a thread or a
noexcept function (`Failure`); a `read` that has already read something returns
that instead. The host may wait for the child itself (`host_takes`): `waitpid`
then fails for ever (`waitpid_fails`) and the pid is kept. The eventfd is a flag
that stays set, as nothing reads it; that it cannot be created is left out.

### Configuration and ServerGroup

A configuration is a record of its lines, the line of each setting (0 for
`not_a_line`) and the value of each setting. A text is a number, the words
between commas or a path, which is all that the settings tell apart; a text with
a space or a `#`, or nothing at all, does not match the regular expression of
`from_lines` and is a comment to the library, though not to java. A value is read
from a text like the code reads it: `atol` stops at `LongMax`, a port keeps 16
bits, everything but `yes` is `no`, and the whitelist drops what is empty between
two commas, trims the other words (`Trim`) and makes a set of them, which is
printed in some order (`listing`). Setters print whatever they are given.

`ServerGroup` has one configuration that is made or loaded, loaded again at any
time, edited by every setter, `add_server` and `add_setting`, and saved, where
the disk may be full after any line; a file that was cut may be loaded, too.
`unsaved` records whether it was edited, or a save has failed, since it was last
saved or loaded. It is then given to a server, which java reads from the file
later, perhaps after another save that succeeds or fails (`ran.stale` is
`unsaved` at that moment), or to `make_ensemble`, one action per step that can
fail; java takes the last line of a key (external).

## The runs

| Run | Instance | Shows |
|---|---|---|
| `watch` | 2 calls, 2 addresses, 3 session changes | except for calls in `aliased`: no use after free, no lost watch, `closed` only by close, close leaves nobody waiting, refinement of `WatchContract`; for all calls: the map agrees with memory, every request is answered, every close ends |
| `operations` | 2 calls, up to 3 operations in a transaction, 3 session changes | no broken promise, nobody waits in vain, only `load_fence` races, close settles all, the failed operation is named, the exception of an operation other than `commit` has the class of its code, refinement of `OperationsContract`; every request sent is settled |
| `client_connect` | 3 waiters, 2 losses, a constructor that may fail, 14 strings | no waiter is forgotten, settled twice or told an untruth; `connect` does not miss the connection, ends if the session can be recovered when it looks, and gets the hosts and the timeout that were printed; any other timeout is off by at most half a unit of the sixth digit and a millisecond, if an `int` holds it |
| `package_registry` | 3 registrations, 3 versions | every entry is held; as long as `unregister_server` is not called for a version, what is held has its entry |
| `server_process` | 2 servers: one shut down, with a child that writes; one kept, with a silent child that ignores SIGTERM; pipes of 1 chunk | `shutdown` stops the worker and leaves no child and no output behind, only the own child is signalled, the alarm does no harm unless two terminations overlap; with every failure above |
| `server_group` | groups of up to 2, 2 edits, 3 files written by hand, 2 server numbers that are valid and one that is not | settings own their lines, survive a reload and reach java, if the file is up to date; the members of a group agree, the connection string names them, each starts once |

These runs end in a violation, which is the disagreement between the code and
its documentation that `PROJECT.json` quotes:

| Run | The code |
|---|---|
| `watch_reuse` | an event of a freed watch reaches a new watcher at its address, fails it as `closed` and frees it before its answer: this is why the properties of watches except `aliased` |
| `load_fence_race` | `load_fence` takes the future of a promise the callback may have deleted |
| `commit_refused` | a refused `commit` throws instead of returning a failed future |
| `connect_failed_init` | `connect` waits for ever without a handle |
| `package_registry_stale` | a registration that was unregistered, dropped or unregistered again, removes a newer entry: this is why `EntryLastsWhileHeld` speaks of versions nobody has unregistered by a call |
| `server_terminate` | a child that ignores SIGTERM is never sent SIGABRT, and `terminate` waits for ever: `signal()` sets `SA_RESTART` |

Smaller disagreements met while modelling, which have no run of their own:

* a `commit` whose connection is lost, expires or is closed fails with
  `transaction_failed` for operation 0 (`connection_zk.cpp:857`), where
  `client.hpp:208-212` promises a specific `system_error`, so that whoever
  catches `transport_error` misses it: this is why `FailureIsOfItsClass` speaks of
  a commit apart, and `CommitNamesFailedOperation` of transactions the ensemble
  has refused;
* `close` that throws leaves `_handle` set and the watches unsettled
  (`connection_zk.cpp:311`), and the destructor calls it again;
* `close` fills no future of `watch_state` (`connection_zk.cpp:316`), though its
  comment speaks of a session event;
* `connect` waits for ever if the session ended, and its event was delivered,
  before `watch_state` (`client.cpp:40`): this is why `ConnectEndsIfRecoverable`
  speaks of sessions that can be recovered;
* `connect` fails with "Unexpected state: connecting" if the first change after
  `watch_state` is the loss of a connection made before it (`client.cpp:58`);
* a bad connection string throws out of `connect` (`client.cpp:31`) instead of
  filling the future;
* the newest version is the last one in the order of strings
  (`package_registry.cpp:72`): 3.4.9 counts as newer than 3.4.10;
* `register_classpath_server` inserts the entry before it allocates the
  registration; without memory the entry stays and nobody can remove it;
* the chroot, `read_only` and `randomize_hosts` of a connection string are
  parsed and not handed to the C library (`connection_zk.cpp:190`);
* a timeout in ISO 8601 is documented and refused (`connection.cpp:133`); one
  of more than six digits is rounded when printed, and some are a millisecond
  short when parsed (`connection.cpp:265`, `:139`): this is why
  `ConnectsAsAsked` speaks of `Printable` parameters, and `TimeoutIsClose` says how
  far off the others are; one of more than `INT_MAX` milliseconds is wrapped by the
  cast in the constructor (`connection_zk.cpp:192`), and neither property speaks of
  it;
* `fakezk` is a valid schema (`connection.hpp`) for which `connect` throws
  `invalid_argument`; a chroot that does not start with a slash is printed as a
  part of the last host;
* without a slash, the query is part of the last host (`connection.cpp:189`);
* two servers that terminate at once share one alarm clock and one handler: the
  first to finish restores the default handler, and the other one's alarm may
  then kill the program (`subprocess.cpp:111`, `:122`): this is why
  `AlarmIsHarmless` excludes `overlap`;
* what the child writes to stderr is dropped, and what was read from stdout in
  the same round is printed there instead (`server.cpp:118`);
* a child that never stops writing keeps `drain_pipes` from ever seeing the
  shutdown (`server.cpp:103`), and a dead one makes the worker spin;
* a host that waits for its children itself, or ignores SIGCHLD, makes `waitpid`
  fail: `terminate` keeps the pid and goes on signalling it for ever
  (`subprocess.cpp:116`), which `SignalsOwnChild` allows and `ShutdownStops`
  excepts;
* a `kill`, `select` or `read` that fails ends the program (`subprocess.cpp:137`,
  `server.cpp:79`): every property allows for that;
* a descriptor of 1024 or more is outside of the `fd_set` (`server.cpp:68`);
* an empty whitelist, one with words that are empty, padded or have a comma in
  them, a limit that a `long` does not hold, and a setting that was unset while an
  older line of it exists, come back differently after a reload or `add_setting`:
  this is why `ReloadKeepsSettings` speaks of readable settings;
* a number written by hand may mean one thing to the library and another to java
  (`clientPort=70000` is 4464 to the library, `configuration.cpp:143`): this is why
  `RunsItsSettings` speaks of the line java reads and not of its value;
* of two lines for one server or unknown setting the library takes the first,
  java the last;
* `save_file` that fails leaves a cut file that `_source_file` may still name
  (`configuration.cpp:423`), from which a program loads fewer settings and with
  which a server is started, and a configuration edited after it was saved runs
  with the old file (`server.cpp:95`): this is why `RunsItsSettings` and
  `ReloadKeepsSettings` speak of a file that is up to date;
* after `make_ensemble` has failed it cannot be called again with the same
  directory, which exists (`server_group.cpp:96`); servers the base
  configuration names beyond the group stay in every member; ports wrap around
  to 0; a group of no members has a connection string that cannot be parsed;
  `myid` is not checked after it is written (`server_group.cpp:59`).

**Bounds.** `MaxSession` and `MaxLosses` bound the changes of a session; two
changes are a connection and its loss, three also an expiry, and every reaction
of the code to a change is the same the next time. Two calls are enough for two
watches of which one is delivered while the other is asked for; the safety
properties of watches are proved for any number. `MaxTxn` = 3 has an operation
before, at and after the failing one. `PipeMax` = 1 has a pipe empty and full.
`IntMax` and `LongMax` stand for the largest `int` and `long`; TLC's numbers end
before those do, so the runs use 2^30 - 1, which is all ones in binary, too, and
has timeouts and limits on both sides of it. `MaxEdits` = 2 on
files with double lines has a setting unset and set again, or added and set, or
edited and the file loaded again;
`MaxSize` = 2 is the smallest group whose members can disagree, and the client
port 65534 makes its ports wrap around. Symmetry is used for violations of
safety properties only. Deadlock is not checked: a program that has closed its
connection, shut down its servers and made its calls really stops.

**Fairness.** Calls in progress, the completion thread and `close` take steps
when they can: they are running threads that hold no lock for ever. A request
is answered by a connected server, or fails while the library is connecting:
the C library times requests out with the connection. For `connect` the library
is also assumed to reach a server in the end. For the servers, the worker and
`shutdown` go on, the alarm clock runs, and a signal that ends a child does so.
Nobody has to call anything, the session need not change, no child has to write
or end by itself, and no signal handler has to run.

## The proofs

About `WatchRegistry`, for any set of calls and addresses and any number of
session changes, with an allocator that may give out an address again whenever no
live watcher has it:

* `TypeCorrect`, `DeliveredOnce` (no run repeats `SettledOnce`, which
  `MeetsContract` says of the futures): `TypeOK` is not inductive; the strengthening
  `Known` adds that whatever the C library or the map mentions is a call that
  was made.
* `MemoryMatches`: `MemInv` adds who owns a watcher at each step.
* `NoUseAfterFree`, `ClosedMeansClosed`, `WatchesAreKept`, `WatchesStayArmed`,
  `CloseLeavesNobody`, of the calls that are not in `aliased`. Their inductive
  invariant `IndInv` is built in layers: the C library has the address of a watcher
  for that watcher only, unless its call is aliased (`Exclusive`); after each
  phase of `close` nothing is left of what the phase is for (`Phases`); the
  answer to a call is queued once and before its events, and until it is
  delivered the watcher is in the map or its call has the lock (`Ordered`); a
  watcher that can still be found has had no event (`Waiting`); and the
  properties themselves, with one more fact (`Delivered`): a successful answer
  in the queue has left a watch, or its event is queued behind it. Without that
  fact `WatchIsArmed` is not inductive: it speaks of calls whose answer was
  delivered, long after the I/O thread put the watch in its tables. `Exclusive`
  without its exception is what `watch_reuse` breaks: an event then finds somebody
  else's watcher.
* `ImplementsContract`: every step of `WatchRegistry` is a step of
  `WatchContract` or leaves its variables alone, under the same invariant.

About `Operations`, for any set of calls, any size of transactions and any
number of session changes: `OperationsTypeCorrect`, `PromisesAreKept`,
`FuturesBecomeReady`, `RaceIsLoadFences`, `CloseLeavesNoOperation` and
`OperationsSettledOnce`. The inductive invariant `OpInv` ties a promise to the
log of the C library: a call is in the log at most once (`OnceInLog`); up to the
entry that was delivered last, promises are settled and deleted, after it they
are unsettled and exist (`Entries`); outside of the log the program counter
tells which of the two it is (`Outside`); and `close` returns only when
everything was delivered (`Closing`). None of the properties is inductive by
itself: that a callback finds its promise alive needs that no other entry of
the log has the same promise.

`OperationsMeetContract`: the operations implement `OperationsContract`, where
there are only futures. The log and the number of callbacks that have run are
the requests sent and the number that are ready, so the contract's promise that
futures become ready in the order of the requests rests on the order in which
the C library runs callbacks, and on every callback finding its promise unsettled
(`Entries`). That `closed` is told by `close` alone needs one more invariant:
only `zookeeper_close` answers `ZCLOSING` (`ClosingAnswers`). No run repeats
`SettledOnce` of `Operations`, which the contract implies.

`Told` says that a delivered result is what the callback would make of the
answer now, because an answer never changes once it is there. From it follow
`FailuresHaveTheirClass` and `CommitTellsWhichFailed`, for transactions of any
size; `ErrorsAreClassified` is the agreement of `throw_error`, the classes and
the predicates. A failure of an operation other than `commit` has the class of its
code, and that of a commit is `transaction_failed` with the code as its cause.

About `StateWatch` and `ClientConnect`, for any number of waiters, losses and
connection strings: `WaitersAreKept`, `StatesSeenAreTrue`, `StatesSeenOnce`,
`ConnectionIsNotMissed`, `OutcomesAreTrue` and `ConnectionsAreAsAsked`.
`SessionInv` has the types of the session and says that every
event in the queue is true of the session, or was before a loss.
`NoMissedConnection` is not inductive: `Coming` adds that the event `connect`
waits for is not one being delivered to the others only, which holds because
the call asks for a change before it looks at the state.

`PrintedIsParsed` is about the operators alone: whatever `Printable`
connection_params `to_string` prints, `parse` accepts and gives back.
`Printable` is what the code needs for that: a schema, hosts that do not end in
an empty one, a chroot that starts with a slash, and a timeout that survives six
digits and a double; without a schema the regular expression does not match.
`ConnectionsAreAsAsked` carries it to the session: by `AsParsed` the connection was
made from what the string parses to, with the timeout an `int` makes of it, and a
string that does not parse never gets beyond the exception. `WantedAssumption` says
that what the program prints are connection_params.

About `ServerProcess`, for any number of servers and any limits: `ServerTypes`,
`NothingLeftBehind`, `OnlyOwnChildIsSignalled` and `AlarmDoesNoHarm`.
`WorkerInv` ties the pid to the child at each step of the worker, and says what
a failed read may have left in the pipes; `AlarmInv` says that, without an
overlap, one terminate at a time owns the alarm and has found the default handler.

About `PackageRegistry`, for any number of registrations and versions:
`EntriesAreHeld` and `EntriesLast`. `PackageInv` adds that a registration has its
name for good and that a registry that is gone has no entries: a registration
may be dropped after its registry.

About `Configuration` and `ServerGroup`, for any files, values, words, sizes
and numbers of edits, loads and saves (`ServerGroupAssumption` gives the types of
the constants and that a group has at most 255 members; the values a program sets
need not be ones that are read as they are written):

* `SettingsOwnTheirLines`, `MembersStartOnce`: `from_lines` picks, and `set`
  writes, a line whose key is the setting's (`ConfOK`). That what is read from a
  line is a value needs that the words of a whitelist are finitely many and can be
  listed (`WhitelistFinite`, `ListingOK`).
* `SavedSettingsAreReloaded`: owning a line is not enough, since another line
  for the same key may be the one `from_lines` finds. `Indexed` adds that no
  readable line for the key comes after the line of a known setting, or before
  that of any other, as `from_lines` would choose; `Fine` is `ConfOK`, `Indexed`
  and that the lines can be read at all. Every setter keeps it (`SetFine`), so
  reading again finds the same lines (`ReadAgain`). `SettingsInv` adds that the
  file has the lines of the configuration unless something is unsaved.
* `ServersRunTheirSettings`: java takes the last line of a key, and where no
  line is left that only java understands that is the line of the setting
  (`ClearIsLast`, `JavaTakesLast`). By `SettingsInv` what java has read are these
  lines if the file was not stale, since the configuration stays as it is once a
  server has it. On the command line, four settings on four lines are all there
  is (`NothingElse`).
* `MembersAgree`, `ConnectionStringIsComplete`: by `EnsembleInv` every member
  says what the configuration said with its own directory and port
  (`MemberSays`), has all servers added so far (`HasServer`), and is what its
  file holds. A setter disturbs no other setting's last line (`SetKeeps`),
  which is what lets a member keep its port while servers are added to it. That
  the ports of a group differ, though they are counted in 16 bits, is
  `PortsDiffer`: a group has at most 255 members, as server numbers end
  there, and 765 ports do not meet themselves.

Model-checked only: the liveness properties (`AnswersArrive`, `CloseEnds`,
`OperationsComplete`, `ConnectEndsIfRecoverable`, `ShutdownStops`): the prover
has neither `ENABLED` nor fairness; and `TimeoutIsClose`, as what the recursive
`Unit` computes for every timeout takes an induction. Every other invariant and
action property of the passing runs is also a theorem.

## Not modelled

* Overlap of `close` with the part of a call that uses the handle: the handle
  is a plain pointer, and what such a call reads is up to the C library.
* Overlap of the destructor of a package registry with unregistering, which its
  documentation excludes, and the order of versions.
* Payloads and their conversions: stats, ACLs, paths and data are copied field
  by field; transactions are their size. `results.*`, `types.*`, `acl.*`,
  `multi.*` and `buffer.hpp` hold values and print them: they have no state and
  no order of steps.
* Wording: messages, printing of values, the `error_category`.
* Read-only sessions, which the connection never asks for.
* `pipe::write` and `event_handle::try_wait`, which nothing in the library
  calls, and the members that only close or move a descriptor.
* An eventfd that cannot be created: its descriptor is not checked
  (`event_handle.cpp:15`).
* Negative numbers in a configuration or a connection string.
* The content of `myid`, which only java reads.
* `classpath`: string assembly and a search on the file system.
* Memory that runs out in the C++ code, except while `commit` builds its
  operations: a callback that cannot copy its payload settles the future with
  the exception (`connection_zk.cpp:433`, `:489`, `:860`).
