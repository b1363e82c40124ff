# A specification of inetd-win32

inetd-win32 is the FreeBSD internet super-server ported to Windows as a service. It reads
`inetd.conf` (or xinetd-style files), listens on the ports of the configured services, and for
each connection starts the server program, handing it the connected socket. The rewrite for
Windows replaced signals, `fork()` and `waitpid()` by a signal socket pair, child processes in a
job object, and completion-port threads. That is where this project looks: the daemon's own
state, shared by several threads, in `src/libinetd`.

All paths below are relative to the repository unless they name a module of this directory.

## 1. The system

| Component | Source | State it keeps | Operations |
|---|---|---|---|
| Service core | `libinetd/inetd.cpp`, `inetd.h` | the table `services_` of `servtab` objects (`se_state.enabled/running`, `se_fd`, `se_maxchild`, `se_count`, `se_children`), `proctable`, the signal pipe, the retry timer | `body`, `async_accept`, `do_accept`, `do_fork`, `addchild`, `reapchildren`, `reapchild`, `config`, `setup`, `retry`, `enable`, `disable`, `close_sep`, `setalarm` |
| IOCP acceptor | `IOCPService.h` | the completion port, its workers, outstanding `AcceptEx` requests | `Initialise`, `Listen`, `Accept`, `Cancel`, `Shutdown`, `Worker`, `Terminate` |
| Process group | `ProcessGroup.h` | the job object and its port, the members and tracked members of the job, finished children `complete_` | `open`, `track`, `wait`, `JobEventTask`, `close` |
| Connections per minute | `cmpip.cpp` | one node per service and address: a ring of counters, last use, end of penalty; tree and LRU list | `check_limit`, `get_node` |
| Invocations per host | `connprocs.cpp`, `inetd.cpp` | `conninfo` with the `procinfo`s of one address | `newproc`, `unlink`, `clear`, `resize` |
| Socket hand-over | `SocketShare.h` | a named pipe and two events per child | `PushSocket`, `WriteSocket`, `GetSocket` |
| Access rules | `netaddrs.cpp`, `accessip.cpp`, `isc_radix.c`; `accesstm.cpp`, `geoips.cpp` | the list of a service, and a trie that the first worker builds from it; tables of times and countries | `push`, `erase`, `clear`, `match_default`, `allowed`, `operator=` |
| Configuration readers | `config.cpp`, `config2.cpp`, `xinetd.cpp`, `servconf.cpp` | the one entry being read, `configent` | `getconfigent`, `process_section`, `process_defaults`, `freeconfig`, attribute handlers |
| Service wrapper | `libService/Service.cpp`, `libNTService/NTService.cpp` | state told to the control manager, stop events, server and logger threads, pipe endpoints of stdout and stderr | `ServiceMain`, `ControlHandler`, `Initialise`, `Shutdown`, `logger_body` |
| Logger | `libService/Logger.cpp` | a guarded queue, a consumer thread, the open file and the times of the next roll and purge | `start`, `push_back`, `consumer_drain`, `consumer_roll`, `consumer_purge`, `stop` |
| Readers/writer lock | `libw32/w32_rwlock.c` | a count of readers, an event, two critical sections | `rwlock_rdlock`, `rwlock_wrlock`, `rwlock_unlock` |
| Simple threads | `libsthread/*.c` | mutexes, conditions, spin and slim locks with the thread that has them, an instance per thread | pthread calls: `create`, `join`, `detach`, `exit`, `lock`, `unlock`, `wait`, `signal`, `broadcast` |
| Other libraries, tools | `libw32`, `libcompat`, `libutil`, `libNTService`, `libtls`, `ocspcheck`, `mmdblookup`, `examples`, ... | | not the daemon's own logic |

How the core's parts meet:

- The **main thread** runs `body()`: `config()` once, then a `select()` loop that reads signal
  numbers from the signal pipe and calls `reapchildren()`, `retry()` or `config()`. Without workers
  (`-t` not given) the same loop serves the sockets of the services, one after the other.
- **IOCP workers** take completions of `AcceptEx` from the port and call `async_accept()`, which
  posts the next request and goes on to `do_accept()`, `do_fork()` and `addchild()`.
- **JobEventTask** reads the job's notifications and `track()` requests from a second port, queues
  finished children, and writes SIGCHLD into the signal pipe.
- A **timer-queue thread** runs `alarm_timer()`, which writes SIGALRM; the **service control**
  thread writes SIGHUP and SIGTERM.
- They share the `servtab`s (each with `se_state.lock`), `proctable` (a lock per hash chain) and
  `se_children` (a lock per list); `services_` is replaced by `config()` as a whole.

What is hard here is the interleaving of workers and main thread between these locks, the order
of an exit and the bookkeeping of the same child, and services that are closed, limited, retried
and reconfigured while connections and children of an earlier life are on their way.
`PROJECT.json` lists these hazards one by one, at the line where each bites.

What makes the components correct:

- *Service core*: the limit on children holds, up to a bound; a service that has room accepts; a
  running service has a request outstanding; every child is counted once, under its service, while
  it exists; closed and removed services stay closed; closed services are retried; nothing that
  clients and children do ends the daemon. Of the `select()` loop: it watches the running services
  and nothing else, and each client is served in the end.
- *Process group*: a tracked child is reported once, after it ended, and eventually.
- *Connections per minute*: an address is let through at most `se_cpmmax` times in a minute, and
  refused only if it asked for more.
- *Invocations per host*: no more than `se_maxperip` children of one address, and no record of an
  address is deleted that somebody refers to. *Hand-over*: the child has the socket, or the parent
  knows that it has not; neither waits for ever.
- *Access rules*: the longest rule that covers an address decides, of the list that is in force.
  *Configuration readers*: an entry is what its section says, and nothing of the section before it;
  what a worker uses of an entry is not freed under it.
- *Service wrapper*: a STOP is served, the process does not exit under its server, and the server
  never waits for the logger. *Logger*: lines are written once, in order, and none is left behind at
  the end; files are named in order and kept for as long as they should be.
- *Readers/writer lock*: readers share, a writer is alone, and gets in. *Simple threads*: what is taken
  for held is held, by the one who is taken for its owner; no wakeup is lost; the instance of a thread
  is freed once, by its last user.

## 2. Modules

| Module | What it is |
|---|---|
| `Inetd` | the service core with the acceptor: table, workers, main thread, signals, timer |
| `MCInetd` | the instance TLC checks, with its symmetry |
| `Inetd_proofs` | theorems about `Inetd` |
| `SelectLoop` | the service core without workers: `body()`'s loop over `select()` |
| `SelectLoop_proofs` | theorems about `SelectLoop` |
| `Reaper` | abstract: what the process group promises to `inetd.cpp` |
| `ProcessGroup` | `ProcessGroup.h` with the main thread's side of the signal pipe; implements `Reaper` |
| `MCDispatch` | the instance of `ProcessGroup` and `SelectLoop` |
| `Dispatch_proofs` | theorems about `ProcessGroup`, its implementing `Reaper`, and `MCDispatch` |
| `CpmLimiter`, `MCCpmLimiter` | `cmpip.cpp` |
| `HostLimit`, `HostLimit_proofs` | `connprocs.cpp` and its users in `inetd.cpp` |
| `AccessIP`, `AccessIP_proofs` | `isc_radix.c` with `accessip.cpp`: inserting rules, looking an address up |
| `XConfig`, `XConfig_proofs` | `xinetd.cpp` with `servconf.cpp` and the list of `netaddrs.cpp`: sections into entries |
| `Entries` | `config()`: entries into services, while workers use them |
| `LogVolumes` | rolling and purging of `Logger.cpp` |
| `MCPeers` | the instance of `CpmLimiter`, `HostLimit`, `AccessIP`, `XConfig`, `Entries`, `LogVolumes` |
| `Peers_proofs` | theorems about `CpmLimiter`, `LogVolumes`, `Entries` and `MCPeers` |
| `Handover` | abstract: what `publish()` promises |
| `SocketShare` | `SocketShare.h`, server and client; implements `Handover` |
| `ServiceControl` | the life of the service: `NTService.cpp`, start and end of `Service.cpp` |
| `ServiceLog` | the pipe endpoints and the logger thread of `Service.cpp` |
| `Log` | abstract: what the logger promises |
| `Logger` | the queue and the consumer of `Logger.cpp`; implements `Log` |
| `ReadersWriter` | abstract: a readers/writer lock |
| `RwLock` | `w32_rwlock.c`; implements `ReadersWriter` |
| `SMutex` | `mutex.c` and `condition.c` of `libsthread` |
| `SLocks` | `spinlock.c` and `rwlock.c` of `libsthread` |
| `SThread` | `thread.c` of `libsthread` |
| `MCService` | the instance of `Logger`, `ServiceLog`, `ServiceControl`, `SocketShare`, `RwLock`, `SMutex`, `SLocks`, `SThread` |
| `Service_proofs` | theorems about `Logger`, `ServiceLog`, `ServiceControl`, `SocketShare`, `RwLock`, `SMutex`, `SLocks`, `SThread` and `MCService` |

`MCDispatch`, `MCPeers` and `MCService` each hold several components that share no state. The variable
`part` says which of them a behaviour is one of; the others stay as they began. Each part is explored as
it would be alone, and a property of such a run is that of one part, or joins like ones of several.
Where a component has a module of proofs, these modules instantiate that (`INSTANCE HostLimit_proofs`),
so that the proofs about the composition can cite its lemmas.

### Inetd

Scope: "stream nowait" services served by the completion port, in the release build (assertions and
`SANITY_CHECK` off). An action is what one thread does between two points where another may
intervene; what runs under one lock is one action.

- Table: `inTable` is `services_`, and for each `servtab` `enabled`, `running`, `fd`
  (`se_fd >= 0`), `maxchild`, `secount`, `children` (`se_children`, as process identifiers).
- Acceptor: `accepts` counts `AcceptEx` requests outstanding on the listener, `ready` and `failed`
  the completions not yet dequeued. `Cancel` and `Shutdown` turn the former into `failed`. A
  connection whose `SO_UPDATE_ACCEPT_CONTEXT` fails in `Worker()` is not told from a failed one.
- Processes: `life`, and `proctable`, where `"freed"` is a `procinfo` that was deleted while still
  hooked. A step that may touch one sets `down = "corrupt"`, after which nothing is said.
- Workers: `wpc` walks through `async_accept()` / `do_accept()` / `addchild()`: `admit` (access
  rules, `se_count`), `fork`, `add` (`search_proc` inserts), `link` (`se_children` and the limit),
  or `alarm` (after `close_sep` of a looping service).
- Main thread: `mpc` is `select`, then `reap`/`search`/`unlink`/`free` for `reapchild()`, `retry`,
  or `config`/`adjust`/`reset`/`enable`/`purge` for the steps of `config()`.
- The signal pipe is a set: a number that is queued twice is served once, and in any order. Both are
  harmless: `reapchildren()` and `retry()` collect everything there is, and no property depends on
  the order of signals.
- Times are left out: the window of the looping check, the ten minutes of the retry and `sleep(1)`
  may end at any step.

`Hazards` is the set of things the environment may do in a run (see `HazardKinds`), so that a run
can say under which circumstances a property holds:

- `"quick child"`: a child's exit reaches the main thread before its worker is through
  `addchild()`, or before the signal pipe exists;
- `"pid reuse"`: an identifier is reused while inetd still lists it;
- `"accept fails"`, `"socket fails"`, `"bind fails"`: these calls fail;
- `"reload"`, `"new mapping"`, `"bad config"`: SIGHUP, an entry that differs in `se_nomapped`, and
  files that cannot be read;
- `"unsigned socket"`: `IOCPService::Socket` as the compiler reads it, see section 5.

### SelectLoop

The same `servtab`s as in `Inetd`, served by one thread: `kind` is `se_accept` with `se_bi` ("nowait"
services have their connections accepted, "wait" services are handed their socket, datagram builtins
are served on the spot), `fd` the descriptor, `allsock` the set of `select()`, `waiting` the clients on
each socket.

- `Select` blocks until something is readable, and is stuck, as the loop of failing calls in the code
  is, when a descriptor of the set is closed. It remembers `readable`, and `batch`: the signals that
  `FIONREAD` counted.
- `TakeChld`, `TakeAlrm`, `TakeHup`, `TakeTerm` serve one signal each: `Reap`/`ReapDone`,
  `Retry`/`RetryDone`, and `ConfigKeep`, `ConfigSetup`, `ConfigSwap`, `ConfigPurge`, `ConfigDone` for
  `config()`.
- `EndSignals` then finds the services of the table *as it is now* whose descriptor was readable
  *then* (`Wanted`); `ServeNone`, `ServeDatagram`/`Read`, `ServeChild`, `ServeForkFails`, `ServeLooping` are
  the ways through `do_accept()`.
- The environment shares the sockets, the queue of `wait()` and the pipe with the thread: what the
  thread does between two looks at those is one step. Here `addchild()` and `reapchild()` cannot meet,
  which is why the accounting is exact (`ChildrenExact`) where that of `Inetd` has a bound.
- `listener` is the descriptor that the constructor of `Listener` leaves: see section 5.
- Left out are "quick children" and reused identifiers, which `Inetd` has, and the order in which the
  loop visits services, which nothing depends on.

### ProcessGroup and Reaper

`Reaper` knows three things of a process: `Start` (it is handed to `track()`), `End`, and
`Report` by `wait()`. `ProcessGroup` has the port with its NEW, EXIT and TRACK messages in order,
the two maps of `JobEventTask`, the queue `complete_`, the counted SIGCHLDs in the pipe, and the
`select`/`wait`/`poll` steps of `reapchildren()`. `late` is the time a process handle needs to be
signalled after the job was told of the end; `wait()` then meets `EAGAIN` and tries again. The
refinement mapping takes a process that `track()` posted for started and, once its handle is
signalled, for ended.

### CpmLimiter

`ReadClock` and `CheckLimit` are the two halves of `check_limit()`, before and under its lock. A
`GetNode` describes which node the host gets: its own, the least recently used one (recycled), or
a new one. `asked`, `admitted`, `kept` and `until` are history: who asked, who was let through,
the same since the host was last given a node, and the end of its last penalty. What counters add up
to (`Total`) is the size of the set of pairs of a counter and one of the numbers up to it: a count that
needs no recursion.

### HostLimit

Workers `Search` for the `conninfo` of an address or insert one, ask it for a `procinfo`
(`NewProc`), and `Start` or `GiveUp`; the main thread reaps, and `Resize`s or sweeps the list when
the configuration changes. `free_conn()` is two steps, `Check` and `Delete`, since nothing holds the
`conninfo` between them. `down` is set when one is deleted that another thread or a `procinfo`
refers to. `copied` says which bytes `search_connections()` compares: the address, as it is meant,
or, as compiled, the pointer to it (`memcpy(&..., &ss, ...)` where `ss` is a pointer), which is then
an address that `getnameinfo()` rejects and that no other connection has.

### AccessIP

`Insert` is one `isc_radix_insert()` with its five outcomes (`First`, `Same`, `Promote`, `Leaf`,
`Above`/`Beside`), each node as the code links it; `Match` is `isc_radix_search_best()`. Both address
families live in one trie, with a number and a decision for each. Addresses are bit sequences of the
lengths `V4` and `V6`. `acl_create()` inserts `match_default` first, then the list in order.

### XConfig

`process_section` takes `configent` through the attributes in the order of `service_attributes`
(`Through` the keys, `Elements` of a key, `Listing` of the values of a list: functions that recur over
the numbers); each handler is an operator of the same name. The list of `netaddrs` is, for each sign, how
often each address is on it. An attribute that the section lacks is taken from
"defaults". `st` is the status, of which anything but `Success` drops the section. The one state
that survives from section to section is `configent`, and the question is what of it shows in the
next entry. `meant` is whether `match_default_` goes where the list goes; as compiled it stays.

### Entries

`config()` reads an entry, adds a service or swaps what it has (`Swap`, then `netaddrs::operator=`
member by member: `MoveList`, `DeleteTable`, `NullTable`), and frees the entry. Workers read
`se_addresses` through the double-checked `table_` and pass `se_argv` on, without a lock that the
main thread takes. `copying` is whether `servtab(cfg)` copies the vector: `xinetd.cpp` hands over
`se_argv` that the next entry frees, `config.cpp` builds one of its own. `quiet` and `own` are
history: whether a worker was at the service while it was replaced, and whose the arguments are.
A service that a reload removes is purged only when no worker is at it: what happens otherwise is
the subject of `Inetd`.

### SocketShare and Handover

The server's `PushSocket()` and `WriteSocket()` and the client's `GetSocket()`, step by step: two
manual-reset events, a pipe of one instance, and `taken`, what the client has read. Each wait with a
time limit may end by it whenever what it waits for is not there yet. `Faults` lists the calls that
may fail and whether the client may end at any time. A `Server` may publish several sockets, as
`clients/dup_test` does. `Handover` says only that each call is answered, with success no more often
than sockets were taken.

### ServiceControl

`ServiceMain()` (`mpc`) and the dispatcher with the control handler (`hpc`) share `m_Status` without a
lock: `SetStatus` is two steps, the assignment and the report (`told`, `Tell`). `scm` is what the
control manager was told last; after "stopped" it takes no more. When it was told, or `ConsoleStart()`
returns, `main()` destroys the object and exits, whoever still runs.

### ServiceLog

Text is a sequence of `"x"` and `"n"` (newline). stderr and stdout are reopened on instances of a
named pipe, one after the other; the logger thread sets an instance up, is told of a client and reads
chunks. An endpoint whose client came before `ConnectNamedPipe()` is `"ready"` or `"deaf"`, by a race
on `ioevent` that the code lets the system decide. `Cut` is what reading a text character by character
comes to, lines and the rest, by a function that recurs over its length.

### Logger, Log and LogVolumes

`Logger` has the queue with its threshold of one (only the line that makes it non-empty signals), the
consumer that takes the queue as a whole, the check of limits every `Period` lines, and `stop()` with
its last drain. `Log` is the promise: in order, once, and everything before the end of `stop()`.
`LogVolumes` follows the open file and any one other, by the times in their names, through rolling
(`roll_time_`, by age or size) and purging (`purge_time_`); `slept` is whether the system was
suspended for longer than the consumer's wait.

### SMutex, SLocks and SThread

`libsthread` is the repository's pthread library; `libtls` uses its mutexes. `SMutex` has a mutex and a
condition that initialise themselves on first use, under a flag that is looked at before and after their
lock is taken, and the count `nest` by which `pthread_cond_wait()` and `pthread_mutex_unlock()` tell
that the mutex is held. `wiped` says that a late initialisation has set `nest` to 0 under a thread that
had counted itself: the flag is set before the count is cleared. Its users wait for one predicate and
broadcast when it holds. `SLocks` has the spin and the slim lock, each with the owner that is kept
beside it and read without it. The owner of the slim lock starts as any value, for
`pthread_rwlock_init()` does not write it: `unset` says that no writer has done so yet, `stray` that a
reader has given the lock back like a writer, where the model ends. `SThread` is the instance of one thread, whose creator joins or detaches
it, or made it detached: `Create`, `Assign`, `Drop` are `pthread_create()`, `Return` to `ExitOver` the
ways to end. `quick` is whether the thread looked at its handle before `pthread_create()` wrote it,
`late` whether it was detached after it had looked.

### RwLock and ReadersWriter

The lock for systems without slim locks. Every access to `readers`, `status`, the event and the two
critical sections is a step. `Asserts` are the assertions of the file.

## 3. Runs

| Run | Instance | Shows |
|---|---|---|
| `inetd_core` | 1 service, 2 workers, 3 processes, limits {1, 2}, 2 requests, `bind()` may fail | `NoStuckService`, `RunningIsListening`, `ChildrenCounted`, `DaemonUp`, `OvershootByWorkers`, `TypeOK`; no deadlock |
| `inetd_reload` | the same with SIGHUP at any time, changed, removed, re-added and reset services, bad files; 1 request | `RemovedIsClosed`, and `Accounting`: the accounting above, across reloads |
| `inetd_hazards` | everything that fails, children that end early, reused identifiers, looping check | `Overshoot`, in spite of all of it |
| `inetd_live` | 2 processes, looping check, `bind()` may fail, fairness | `Reaped`, `Reopened` |
| `dispatch` | `MCDispatch`: 2 processes, one of which the job may refuse, up to 2 late polls; and the `select()` loop with a stream service and a datagram builtin | `NoLostWakeup`, `TrackedOnce`, and the refinement `ReaperSpec` (safety and liveness); `SelectRight` (what is watched, runs and is counted), `RoomAtRound`, `Served` |
| `cpm_kept` | `MCPeers`: how a client is let in; instances below | `KeptWithinLimit`, `RefusedOnlyOver` (connections per minute), `PerHost` (per host), `RulesRight` (trie), `EntriesRight` (sections), `ReadsCurrent` (reload against workers), `VolumesRight`, `LinesKept` (the log's files) |
| `service` | `MCService`: what is around the daemon; instances below | `NoLostWakeup`, `LogSpec` (queue), `LogWhole`, `GoesOn` (streams), `StopServed`, `CleanExit` (service), `HandoverSpec`, `AnswerKept` (hand-over), `NobodyHangs` (hand-over, and `Joined` of threads), `ReadersWriterSpec`, `WriterGetsIn` (lock), `Asserts` (lock, mutex and condition, spin and slim locks, threads) |
| `limit_drops`, `limit_stuck`, `looping_fatal`, `iocp_refused`, `cpm_recycle` | small instances | each a counterexample, section 5 |

**Bounds.** One service is enough for what the core's properties relate: services share only the
workers, `proctable` and the main thread, and a worker or main thread that is busy with another
service looks to this one like one that is slow. Two workers and three processes give every order
of two `addchild()`s and a `reapchild()` around a limit of 1 and of 2. `MaxAccepts` bounds requests
and completions of a service (`Capped`): a stop and start between two completions makes a second
request, and more behave like two. `inetd_reload` and `inetd_hazards` bound it by one, which loses
the case of two requests that `inetd_core` has. `TooMany = 2` is the smallest looping check that can
both count and fire. In `dispatch` `MaxSignals` and `MaxPort` hold back new processes while
much is unserved, `MaxLate = 2` is the largest for which `wait()` does not give up. In `cpm_kept`
time runs until both slots of the ring of two have been used again; `MaxAsked` bounds the
connections per instant. The window of a minute is `CHTSIZE` slots, here 2 instead of 6.

The `select()` loop of `dispatch` has a stream service, which a reload makes "wait" or "nowait" and
limits to 1 or 2, and a datagram builtin, which shares the round and the two descriptors with it; two
processes fill the limit. One client waits on a socket at a time (`MaxWaiting`): more are served like
the first, in later rounds. `FdMax = 3` has room for both and the pipe. Three worlds keep it small:
reloads for ever without a looping check; failures, a stop and a looping check with one service and
no reload; and listeners as the constructor leaves them. Bad configurations, resets and closed services
are thus met in the first `config()` and in retries, and reloads meet every open service. The theorems
hold for any of it at once.

The other parts of `cpm_kept`: *per host*, two addresses, two workers and the main thread, two
`conninfo`s and three `procinfo`s, limits 0 (none) and 2: a third child of an address is refused, and a
`conninfo` is reused after it was deleted. *Rules*: IPv4 addresses of two bits and IPv6 of three, so
that a length exists that only one family has, and lists of up to three rules after the default, one of
them with a bit beyond its mask; four nodes give every shape of insertion, glue nodes and their
promotion included. *Sections*: `FileSections` has a section for each value that takes a branch of its
own, lists of up to two attributes over two addresses and ALL, five sets of defaults, and any sequence
of sections (only the last can leave anything behind). *Entries*: two services, two workers, three
entries, with either reader: an entry, its replacement, and one that frees what they left. *Files*: a
day of 5 with roll periods 3 and 4, purge periods 0 (never) and 2 (which `start()` raises to twice
the roll period), gaps of 1 between two turns of the consumer, sleeps of the system up to 4 and a clock
to 12, more than two days.

The parts of `service`: two pushers and three lines, checked every two; buffers of two characters
and four characters printed; two sockets with every fault; three threads for the locks, two of which
can be readers under a waiting writer; two for the mutex and its condition; one thread and its creator. All parts of both runs reach, and pass, the boundary that their
property is about: a full buffer, a day's end, a second publish, a third reader, a second initialisation.

**Fairness** (`FairSpec` of `Inetd`): the main thread, each worker and the timer thread run when they
can (weak fairness); SIGCHLD and SIGALRM in the pipe are read in turn and `wait()` takes queued children
in turn (strong fairness, for the pipe and `complete_` are FIFO queues in the code and sets here); and a
`bind()` that is retried again and again succeeds in the end, without which "reopened" means nothing.
Clients, the lives of children, SIGHUP and SIGTERM are not assumed to happen. `SelectLoop`: the thread
goes on while it can (`WF(Main)`), which one thread does; not that clients, exits, signals or the timer
come. `ProcessGroup` assumes that its two threads run. `Logger`: the consumer, and a thread that has
found the queue empty, go on; not that the 60 s of the wait end. `ServiceLog`: the logger thread polls
its endpoints in turn. `ServiceControl`: both threads of the service, the server and the logger run;
nobody is assumed to ask for a stop. `SocketShare`: both processes run, and the server is destroyed in
the end, as `do_fork()` does on return. `RwLock`: each thread goes on and gives the lock back, but a
critical section may pass it over for ever. `SThread`: the thread, and its creator once it is in a call,
go on; not that it joins. `HostLimit`, `AccessIP`, `XConfig`, `Entries`, `LogVolumes`, `CpmLimiter`,
`SMutex` and `SLocks` have safety properties only.

**Deadlock** is checked in `inetd_core`. Elsewhere the daemon, the service or the
file may end, or the model's clock stops, which the cfg says.

## 4. Theorems

Each theorem holds for all values of the constants that satisfy the assumption of its module
(`InetdAssumption`, `Sound`, ...), and comes from an inductive invariant: `Init => I`, `I /\ [Next]_vars
=> I'`, `I => P`. Some have a hypothesis about the environment, always in the name of an operator;
what happens without it is said below. The invariants were checked by TLC on the runs' instances first.

**The service core** (`Inetd_proofs`):

- `TypeSafety`, `TypeCorrect`: the type invariant. It is not inductive alone: `TypeInv` adds that a
  worker past `idle` has a service, one past `fork` a process, and the main thread's `msvc` and
  `mpid` are set where its code uses them.
- `TableSafety`, `RemovedStaysClosed`: in the `select` state only services of the table can have a
  socket or run. The invariant `TableInv` says at each point of `config()` and `retry()` which
  services may be open: those of the old table, those of the new one that were already reached, and
  those the purge has not. A running service has a socket as long as the daemon is up. That a worker
  can never reopen a removed service follows: `async_accept()` and `addchild()` only ever stop one.
- `OvershootBounded`: `Overshoot`, when no limit is zero. Two facts carry it. A service that is not
  running admits no worker, so what is counted or on its way only falls until it is enabled again
  (`ClosedLoad`, `RunningLoad`); and when it is enabled its children are below the limit, or it has
  just been opened and they are only those whose workers were on their way (`FreshInv`). The bound is
  `Max(MaxLimit - 1, |Workers|) + |Workers|`.
- `ProcSafety`, `PhantomFree`, `NeverStuck`, when no child is quick and no identifier is reused
  (`Waited`): `ProcInv` says who has a process in hand. A worker holds one that runs, is its service's
  and on no list (`HeldInv`); the main thread one that is gone (`ReapedInv`); what a service counts is
  hooked, its own, and alive or in the main thread's hands (`CountedInv`). It is what makes the count of
  a service that is full a count of something: `NoPhantomChild`, and `NoStuckService`, whose steps are
  the orders of `addchild()`, `reapchild()`, `close_sep()`, `config()` and `retry()`. `limit_stuck`
  shows the first with a quick child.
- `Listening`: `RunningIsListening`, when AcceptEx is granted to a listening socket (`Accepted`); when
  it is not, a worker drops the request and nobody posts the next one.
- `AccountingKept`: `Accounting`, the invariant of `inetd_reload`, from the above under both.
- `ChildrenKnown`, `OvershootOfOwnLimit`: `ChildrenCounted` and `OvershootByWorkers`, in a daemon that
  never closes a service (`Lasting`: no SIGHUP, no looping check). A close forgets the children that are
  counted, and a reload may lower a limit below them, so neither holds with these. `LastingInv` says
  that `config()` runs once, from an empty table, and that a closed service has nobody on the way;
  `LooseInv` that every process that exists and that no worker holds is counted by its service;
  `OverInv` that a service that runs has room.
- `DaemonStaysUp`: `DaemonUp` under all of these and readable files (`Undisturbed`): no `procinfo` is
  deleted while it is hooked, no accept or helper `terminate()`s. `looping_fatal` and `iocp_refused` are
  what ends it otherwise.

**The `select()` loop** (`SelectLoop_proofs`: `TypeCorrect`, `SelectIsRight`, `RoomIsLookedAt`; as
properties of the run in `Dispatch_proofs`: `TypesCorrect`, `SelectRightKept`, `RoomAtRoundKept`):
`SelectRight` and `RoomAtRound`, for any services, processes, descriptors and limits, with every hazard
and either `listener`. `LoopInv` adds what makes it inductive: descriptors are distinct (`Distinct`), a
closed service has no children (`ClosedEmpty`), what `close_sep()` forgot is not reaped (`StaleLives`),
an open service is where the exchange of the table has it (`Listed`), and what a round still serves was
running or has been reconfigured in it (`SeenRuns`). The steps of one service go through `SocketsKept`:
the descriptor comes and goes with `running`, and the others stay. `FD_SET` adds what it is given only
with room for all descriptors (`FdSetAdds`), a lemma about cardinalities.

**The process group** (`Dispatch_proofs`):

- `TypeCorrect`, `WakeupsKept`, `TrackedExactlyOnce`: `GroupInv` joins the type with `NoLostWakeup` and
  `TrackedOnce`. The last is about messages in a queue, so its steps go through lemmas on what `Append`
  and `Tail` do to the positions of a process's messages.
- `ReaperSafety`: the safety part of the refinement of `Reaper`. `JobInv` says for each process that the
  job takes that the last message about it is true, or `JobEventTask` has taken it and knows (`Told`);
  that no NEW follows its TRACK (`Asked`), so that a TRACK is about this process and not the one before
  with the same identifier; and what `wait()` is given has ended and will be signalled before it gives
  up (`Over`). The latter needs that a handle is signalled within the three polls of `wait()` (`Timely`:
  `MaxLate <= 2`).

**Around the daemon** (`Service_proofs`; each part by an invariant of its own, which `ServiceInv` joins
for the composition):

- `WakeupsKept`, `LogSafety` (`Logger`): `LoggerInv` says that the lines handled, the slice and
  the queue, in this order, are the numbers from 1 to `tail`; with that, the safety part of `Log`.
- `LogIsWhole` (`ServiceLog`): `LogWhole`. `LineInv` says of each stream that what was printed is what is
  still in the pipe after a text that, cut character by character, gives the lines logged and the buffer.
  A chunk that is read moves from one to the other, so the step is a lemma on cutting `r \o t`, by
  induction over the length of `t` (`CutGrows`); a chunk never holds more than the buffer takes, so that
  only its last character can fill it. `StreamsInv`, for the end, follows the one endpoint that is being set up: the logger only leaves when
  none has anything to do.
- `ExitsClean` (`ServiceControl`): `CleanExit`. `ControlInv` says that a server is started once and has
  ended before `ServiceMain()` comes to its end (`Awaited`), and that "stopped" is reported only there
  (`Reported`).
- `AssertsKept`: `Asserts`, with `LockInv` of `RwLock`; `MutexInv` and `CondInv` (who is in a critical
  section, what `nest` counts unless it was wiped, and that a sleeper always has one to wake it or a
  predicate that is false); `LocksInv` (the owner field of a lock names a thread that is inside, never
  one that has left, once it is written; a reader is only led astray by what it held before); `ThreadInv` (which of creator and thread still has the instance, at each step of
  both).
- `ServiceTyped`: `TypesOK` of the eight. The type of `nest` in `SMutex` is the one that takes an argument:
  it is never below -1, though the initialisation may set it to 0 under a thread that has counted
  itself. `WipeInv`: one thread initialises, once, and a count that was wiped is one too low from then on,
  with at most one thread in the section that counts.
- `AnswerIsKept`, `HandoverSafety` (`SocketShare`): `HandoverInv` counts descriptions: what the client has taken and what is on the wire is what the server has written,
  and an event that is set stands for one that no answer was given for. It follows that
  `ResetEvent()` does not undo the answer of a client that waited, and that every step is one of
  `Handover` or stutters.
- `LockIsOne` (`RwLock`): `LockInv` ties `readers` and `status` to the threads that are inside; both are
  cardinalities, so it needs `Threads` finite.

**How a client is let in** (`HostLimit_proofs`, `AccessIP_proofs`, `XConfig_proofs`, `Peers_proofs`;
`PeersInv` joins them, and gives `PeersTyped`, the types of the six):

- `RefusedWhenOver` (`CpmLimiter`): `RefusedOnlyOver`, for any threads. `RefusalInv` says that a slot in use
  is that of its tick and counts no more than the address asked for in it (`SlotsCount`), and that a
  penalty that is kept was given (`OwnPenalty`). What `check_limit()` adds up over the ring is then no more
  than what was asked for in the minute, by an injection from the one count into the other.
- `KeptIsWithin` (`CpmLimiter`): `KeptWithinLimit`, when one thread calls `cmpip()` (`Alone`), which is so in
  the `select()` loop (`inetd.cpp:694`). Completion-port workers (`inetd.cpp:730`) read the clock before
  they take the lock, and one that is late does not see what was counted since (section 5): the hypothesis
  is needed. `KeptInv` says that no counter is of a later tick than the call (`NoneLater`),
  and that what was let through is counted in its slot unless a later tick has that (`KeptCounted`): two
  ticks of one slot are a round apart, which is what makes a minute of `Size` slots add up.
- `TypeCorrect`, `TreeStays`, `BestDecides` (`AccessIP`), `RulesStayRight`: for any set of rules and any
  widths of addresses, that of IPv4 no larger than that of IPv6. `IInv` joins what the links and the
  numbers of the nodes are (`Linked`, `GlueRight`, `Numbered`), that a node's decision is the first rule that fits it (`DataFirst`), that each rule that
  was added has its node (`Ruled`), and that nodes can be labelled (`Labelled`): with bits that a node's
  prefix starts with, that its children continue, and that lead left or right at the node's own bit. The
  labels are what no field of the code holds: a glue node has no prefix. That the descent and the climb
  of `isc_radix_insert()` end where they should follows by induction on the bit of a node, which grows
  downwards. Each of the five outcomes is a lemma that gives the labels afterwards.
- `TypeCorrect`, `EntriesAlone`, `ListsStayRight` (`XConfig`), `EntriesStayRight`: for any sections, defaults,
  addresses and limits. `IInv` says no more than that `configent` is what `process_section()` made of some
  entry; the work is in what that function does. Its recursions are runs (`RunOf`). For `EntryAlone` two of
  them, from the entry that was there and from one that is cleared, are followed side by side: they
  differ in `match_default_` and `se_maxperip` alone (`Near`, `Steps`), the first of which shows only by
  refusing, and the second is forgotten at the tenth key, `per_source`, which has a default and so is
  always looked at (`Goes`). For `ListsRight` one is followed per address (`Sees`, `ListsIn`, `Placed`).
- `TypeCorrect`, `ListsLinked`, `LimitAsMeant`, `HarmlessAsCompiled` (`HostLimit`), `PerHostKept`:
  `ListInv` adds to `Linked` who may refer to what while a thread is between two steps; `LimitInv` that
  at most one `conninfo` on the list has an address, and holds no more than its maximum; `OwnInv` that,
  as compiled, a worker alone has the `conninfo` it made until its child is listed, and then whoever
  reaps that child.
- `ReadsAreCurrent` (`Entries`): `EntriesInv`. Arguments that are a service's own are allocated and
  nobody else's (`ArgsKept`); while a service is not replaced under a worker's hands, what the worker
  read is still what it has (`Undisturbed`); and anything that goes wrong is due to shared arguments or
  to a reload under such hands (`Blamed`).
- `FilesOrdered`, `LinesAreKept`, `OldFilesGo` (`LogVolumes`), `VolumesStayRight`, `LinesStay`:
  `FilesInv` needs no condition: the name of the open file is no later than now and earlier than the
  next roll. The other two need a consumer that takes its turns (`Prompt`: three gaps within a day and
  within the shortest period; `libService/Logger.h` has five minutes for the shortest period, and the
  wait ends after one). `VolumeInv` says how far behind the consumer may be: one roll, and only at
  midnight (`RollTimely`), and two purges (`PurgeTimely`), for one at midnight may come just after one
  that was due at a multiple of the period. `Prompt` also leaves out a purge period of one second: half
  of it is zero, and it is first looked at at midnight.

Only model-checked:

- Liveness and fairness: `Reaped`, `Reopened`, `Served`, `GoesOn`, `StopServed`, `NobodyHangs`,
  `WriterGetsIn`, and the fairness parts of `ReaperSpec`, `LogSpec` and `HandoverSpec`, which need
  ENABLED.
- What of `KeptWithinLimit` remains with more than one thread is not stated: the property itself does not
  hold there.

Every invariant and action property of the passing runs, and the safety part of each refinement, is thus
a theorem. Where a definition recurs over data, its function is one over the numbers, and what it computes
is shown by the least counterexample (`NatLessThanWellFounded`) instead of the library's induction, which
takes an operator.

## 5. Where the code departs from its documents

The first five are runs that TLC ends with a counterexample.

1. `limit_drops`: `inetd.txt:184` says that at the limit connections are queued. `async_accept()`
   drops a connection that `AcceptEx` had already accepted when the service was disabled.
2. `limit_stuck`: with a child that ends before `addchild()` has inserted it, `reapchild()` finds
   nothing and `addchild()` then counts it for good. At the limit the service stays stopped with no
   process. (`NoStuckService` still holds: the count says that there is one.)
3. `looping_fatal`: when the looping check closes a service, `close_sep()` deletes the `procinfo`s of
   its children but leaves them hooked in `proctable`. The next exit or new child on that chain uses
   freed memory. `config()` reaches the same code on a reset or a removal. This is why `DaemonUp` is
   checked by `inetd_core` alone, and why the other runs speak of an `Up` daemon.
4. `iocp_refused`: `Socket(SOCKET fd)` tests `fd >= 0`. `SOCKET` is unsigned, so a new socket counts as
   connected and `Accept()` refuses it; `enable()` then ends the daemon. Read literally, no service
   can be served by the completion port, and no other property of that path means anything. All other
   runs and the theorems therefore leave `"unsigned socket"` out or free: they describe the program
   as it is meant, and as it is once that test compares with `INVALID_SOCKET`.
5. `cpm_recycle`: the age of a node is not looked at before it is recycled, so hosts that alternate
   wipe each other's counters. `KeptWithinLimit` is what remains of the promise.

These have no run of their own: a passing property says what remains true in spite of them, or they
lie outside what is modelled.

6. `search_connections()` (`inetd.cpp:2046`) copies from the address of the pointer to the address. As
   compiled no two connections compare equal and `se_maxperip` refuses nobody. `PerHost` has both:
   the limit as meant, and that without it at least no `conninfo` is deleted in use. (Repairing the
   copy alone would uncover the race of `free_conn()` with `search_connections()`: with `copied =
   "address"`, `down` is reachable.)
7. `async_accept()` (`inetd.cpp:730`) compares `accessip()`, a `bool`, with `< 0`: an address that the list
   refuses is let through. `RulesRight` is about the list's answer, not its use.
8. `servtab(cfg)` (`inetd.h:273`) shares `se_argv` with the entry, which the next one frees
   (`servconf.cpp:182`). `ArgsOwned` (in `ReadsCurrent`) holds for arguments
   that a reload has swapped, and for all if copied.
9. `netaddrs` copies, moves and clears its list but not `match_default_` (`netaddrs.cpp:118-131`, `286`):
   ALL of one section stays for the next, and a service does not get it on a reload. `EntriesRight`
   has it as the one exception.
10. `netaddrs::operator=` replaces the table of a service without the lock under which workers build
    it (`netaddrs.cpp:168`): a worker may search a deleted table, or build one from a list that
    is being moved. `RulesCurrent` (in `ReadsCurrent`) holds for services no worker was at.
11. A `Listener` starts with descriptor 0, which `is_open()` takes for open (`IOCPService.h:56`), and only
    a worker's `Listen()` changes it. The loop over `select()` skips services with an open listener
    (`inetd.cpp:667`): as the code stands, without workers it serves nobody and returns at once for
    ever. `Served` holds for listeners that are closed, as they are meant to be; `SelectRight` and
    `RoomAtRound` for both.
    `Terminate()` posts key 0 where `Worker()` ends on -1 (`IOCPService.h:364`).
12. `Service::Initialise()` looks at `logger_stop_event_` where it means the server's (`Service.cpp:469`):
    without a logger a console service ends at once, with its server running. The result of
    `Logger::start()` is not looked at: without a file lines queue for ever.
13. A client of the log's pipe that comes before `ConnectNamedPipe()` may leave its endpoint deaf: the
    stream is never read, and the server waits for ever once the pipe is full. `GoesOn` and `LogWhole`
    except it. SIGTERM that comes before the signal pipe exists is lost, and the process then exits
    under its server (`CleanExit`). `ServiceMain()` and the handler share `m_Status`: "stopped" may be
    overwritten before it is reported (`StopServed`).
14. A bad entry of `inetd.conf` ends the daemon at start (`inetd.cpp:1467`); a bad section of an
    xinetd file is dropped. `server = internal` is refused where the type says INTERNAL. Several
    `enabled` lines must each name a service for it to be read.
15. A reload does not take over `se_geoips`, `se_port`, the control address, buffer sizes and `remote` of
    a service that stays; `freeconfig()` has `sep->se_maxperip;`, which does nothing.

16. `FD_SET` on a full set does nothing (`inetd.cpp:1869`): with more than `FD_SETSIZE` sockets a service
    runs and is not watched. `SelectRight` and `Served` are about smaller tables.
17. The sockets of a round are served after its signals (`inetd.cpp:671`): a service that the reload
    of the same round has stopped is served once more. `RoomAtRound` has it as the one exception.
18. A datagram builtin whose socket a reload of the same round has opened anew, under the descriptor
    that was readable, finds nothing to read: `recvfrom()` then blocks the only thread until the next
    datagram. `Served` excepts it.
19. `_beginthreadex()` returns 0 where it fails; `pthread_create()` compares with -1 (`thread.c:154`)
    and goes on without a thread. `Joined` excepts it, and `Freed` has that `pthread_join()` then says
    `ESRCH`. The handle is written after the thread was started: one that ends first frees the instance
    under its creator (`Asserts`, `quick`).
20. The mutex clears `nest` after it has set the flag that says it is initialised (`mutex.c:96`): a
    second thread may have counted itself by then, and `pthread_cond_wait()` then answers `EINVAL`.
    `Asserts` excepts a count that was `wiped`. `pthread_cond_timedwait()` asserts that the flag of the
    *mutex* is that of a condition (`condition.c:183`), which no mutex passes; release builds have no
    assertion there.
21. `check_limit()` reads the clock before it takes the lock (`cmpip.cpp:176`). Of two workers of one
    address around a tick, the later to be decided may be of the earlier tick, and the counter of the
    tick after its own is not in its minute: with a limit of 1 both are let through. `KeptWithinLimit` is
    checked and proved for one thread (`Alone`).
22. `pthread_rwlock_init()` ("initialisation is unconditional", `rwlock.c:50`) does not write `owner`, by
    which `pthread_rwlock_unlock()` tells a reader from a writer: in memory that was not zero, a reader
    that comes before the first writer fails the assertion of `rwlock.c:119`, or without assertions
    releases a lock it shares as if it had it alone. `Asserts` excepts that reader (`unset`, `stray`);
    without the exception TLC finds it. A writer cures the lock for good, and locks of
    `PTHREAD_RWLOCK_INITIALIZER` do not have it. Nothing else in the repository uses these locks.

Restrictions of passing properties that follow from the code: in `ChildrenCounted`, `NoPhantomChild`
does not hold under `"quick child"`, nor does `Reaped` (`NoForgottenChild` does); `RunningIsListening`
not under `"accept fails"`, `Reopened` not under `"socket fails"` (`setup()` sets no alarm), `DaemonUp`
not under `"pid reuse"`, and `ReaperSpec` neither with three late polls (the process is dropped) nor for
a process outside the job. The hazards in `PROJECT.json` say which property each of these breaks.

## 6. Not modelled

- Of the core: workers and services of the `select()` loop at once, tcpmux, RPC and Unix sockets; the
  end of the daemon (`IOCPService::Terminate`, `ProcessGroup::close`); in `Inetd` a connection may be
  refused at will, for what decides about it are modules of their own, and the hand-over of the socket
  succeeds or fails.
- Of the access rules: times of access and countries (lookups in tables), removal from the trie,
  which inetd does not use, and the parsing of addresses.
- Of the readers: tokens, includes and files; the fields of `config.cpp`; attributes that are stored
  and passed on only.
- Of the service: options, the wording of diagnostics, `syslog.c`; installation and configuration of
  NT services, pause and user controls.
- Of `libsthread`: the keys of `tls.c` (called when a thread ends), `once.c`, attributes, the destroy
  calls, a thread that joins itself and a second one that joins.
- Built-in services (stateless loops on one socket), peer information (accessors), the intrusive
  containers and the object pool (modelled by what they promise: sets, sequences, critical sections
  and reference counts).
- The libraries and tools: most lines of the repository are a port of libc to Windows (`libw32`),
  TLS from LibreSSL (`libtls`), examples, and vendored headers. They hold no state of the daemon and
  are modelled, where they matter, by how `libinetd` uses them. The map therefore covers a small share
  of all lines, and most of the daemon's own stateful ones.

## 7. Plan

Done: `Inetd`, `SelectLoop`, `ProcessGroup` against `Reaper`, `SocketShare` against `Handover`, `Logger`
against `Log`, `RwLock` against `ReadersWriter`, `CpmLimiter`, `HostLimit`, `AccessIP`, `XConfig`, `Entries`,
`LogVolumes`, `ServiceControl`, `ServiceLog`, `SMutex`, `SLocks`, `SThread`: modelled, checked, and with
theorems for every safety property.

What could follow, in this order:

1. `CpmLimiter` with several threads: what of `KeptWithinLimit` remains when a call counts in a tick that
   is over (a bound by the number of workers, as `Overshoot` is one).
2. The end of the daemon: `Terminate()` and `ProcessGroup::close()` after SIGTERM.
3. Times of access, and the fields of `config.cpp`.
4. Workers and the services of the `select()` loop at once.
