# A specification of libACENetwork

libACENetwork is a C++ library for network programs over ACE: connections that are dispatched by a
reactor or by a proactor, a manager that keeps account of them, connectors and listeners that create
them, sessions that group them, and protocols (IRC, DHCP, HTTP, BitTorrent, PPSPP) on top.
This directory holds TLA+ modules that model the life of connections and sessions, how they are
made by connectors and listeners, and how what is read from one is cut into messages; the TLC
configurations that check them, and TLAPS proofs. All paths below are relative to the repository
root; `inl:N` is a line of the file named before it.

    tlc -workers 2 -config ManagerService.cfg MCConnectionManager
    tlc -workers 2 -config StreamSafety.cfg   StreamConnection
    tlc -workers 2 -config Connector.cfg      AsynchConnector
    tlc -workers 2 -config Server.cfg         Server
    tlc -workers 2 -config Bisector.cfg       Bisector
    tlapm ConnectionManagerProofs.tla         (and the other *Proofs.tla)

## 1. Inventory

| component | source | state | operations | modelled by |
|---|---|---|---|---|
| connection manager | `src/net_connection_manager.inl` | list `connections_`, `isActive_`, limit, lock, condition | `register_`, `deregister`, `get` x3, `operator[]`, `abort` x2, `start`, `stop`, `wait` | ConnectionManager |
| connection base | `src/net_connection_base.inl` | reference counter, `isRegistered_`, `state_` | `register_`, `deregister`, `increase`, `decrease` | all modules |
| proactor TCP connection | `src/net_streamconnection_base.inl` (1200 on), `net_tcpconnection_base.inl` (340 on), `net_asynch_tcpsockethandler.inl` | status, stream, operations in flight, `counter_`, socket | `open`, `handle_output`, `handle_read_stream`, `handle_write_stream`, `handle_close`, `close` | AsynchConnection |
| reactor TCP connection | the same files, first half, and `net_tcpsockethandler.inl` | status, stream, registration with the reactor, notifications, socket | `open`, `notify`, `handle_input`, `handle_output`, `handle_close`, `close` | StreamConnection |
| client connector | `src/client_server/net_client_connector.inl` | none of interest | `connect`, `activate_svc_handler` | the failing open() only (StreamConnection) |
| asynchronous connector | `src/client_server/net_client_asynchconnector.inl` | map of handles, lock, condition | `connect`, `abort`, `wait`, `handle_connect`, `validate_connection` | AsynchConnector |
| reactor listener | `src/client_server/net_server_listener.inl`, `net_server_ssl_listener.inl` | `hasChanged_`, `isOpen_`, `isSuspended_`, `isListening_` | `initialize`, `start`, `stop`, `handle_accept_error` | Listener |
| proactor listener | `src/client_server/net_server_asynchlistener.inl` | `isListening_`, the handle, accepts under way | `initialize`, `open`, `start`, `stop`, `accept`, `handle_accept` | AsynchListener |
| session base, BitTorrent session | `src/net_session_base.inl`, `src/protocol/p2p/bittorrent/bittorrent_session.inl` | the set of connections, lock | `connect`, `disconnect`, `close` | SessionControl |
| BitTorrent controller | `src/protocol/p2p/bittorrent/bittorrent_control.inl` | map of sessions, lock, condition | `request`, `notify`, `stop`, `wait` | SessionControl |
| IRC bisector | `src/protocol/irc/irc_module_bisector.inl`, `scripts/bisector.l` | chain of blocks, lengths, the scanner's start condition | `initialize`, `handleDataMessage` | Bisector |
| UDP, netlink, SSL connections | `src/net_udpconnection_base.inl` ... | as TCP | as TCP | no (section 7) |
| WLAN monitor | `src/wlan/net_wlan_monitor_*` | a state machine | transitions, timers, scan results | no (section 7) |
| IRC registration, DHCP, HTTP, PPSPP | `src/protocol/*` | registration, lease, message state | handlers of the modules | no (section 7) |
| transport layer, tools | `src/net_transportlayer_*`, `net_*_tools.cpp` | none | socket options, system calls | no |
| scanners, parsers, 3rd_party, prj, test_u, test_i | | | generated, vendored, project files, applications | no |

How they interact. A connector or acceptor constructs a connection and calls `open()`, which
registers the connection with the manager (a call under the manager's lock) and starts its stream.
From then on the event dispatch calls back: data in, data out, close. Any thread may get a
connection from the manager, with a reference of its own, and `close()` it. The stream calls the
session back at its start and its end, the session calls the controller when its last connection
has gone. Connections delete themselves when their counter drops to zero.

What is hard in it: callbacks of several dispatching threads that run into each other and into
`open()`; counters whose balance is spread over a dozen code paths in five files; decisions taken
from a counter or a flag that was read a few steps before; locks released and taken again in the
middle of an operation; waits that depend on somebody else's broadcast; flags that have to follow an
acceptor through calls that fail; messages that a read cuts anywhere. `PROJECT.json` ("hazards")
lists each with its line and the properties that answer it.

What makes each component correct:

* manager: the counter of a connection equals the number of its holders; nobody holds a deleted
  object; the list and the flag agree; `wait()` and `abort(true)` end; the limit is kept.
* connection: deleted exactly once, after everybody has gone, and deleted at all; leaves the
  manager's list; pending output is counted, and the descriptor is not closed under it. (It is
  not always flushed: what is in flight when the peer closes is cancelled, AsynchCutOff in section 5.)
* session and controller: a session is cancelled once, when it is empty, and whoever waits learns
  of it; no two locks are waited for crosswise.
* connector: no socket leaks; the map holds nothing that is out of date once a result was recorded, and
  nothing that no result will come for; who waits in time is awakened. (A waiter should also get the
  result of its own connect, and get it at all; that is where the code falls short: ConnectorAnswer,
  ConnectorIterator, ConnectorEntry and ConnectorWait in section 5.)
* listeners: the flags say what the acceptor does; who connects is accepted; a new configuration
  takes effect; accepts do not run out.
* bisector: exactly the messages of the stream are handed on, as soon as they are complete.

## 2. The modules

### ConnectionRegistry, ConnectionManager, MCConnectionManager, ConnectionManagerProofs

`ConnectionManager` models the manager and the life cycle of the connections that register with it.
`connections` is the list `connections_`, oldest first; `isActive` is `isActive_`; `count`,
`isRegistered` and `status` are members of each connection; `destroyed` collects those that executed
`delete this`. `phase` is the program counter of the connection's own thread through
`open()`, `handle_close()` and the final `decrease()`; `task`, `again` and `held` are the
program counter and the pointers of a thread that calls the manager.

Each critical section of `lock_` is one action (`Register`, `Deregister`, `Take`, `Snapshot`, ...);
what the code does between two critical sections is broken into actions of their own:
`isRegistered_` is assigned after the manager has returned (`Register`, then `AssignRegistered`), and
reset before it is called (`BeginDeregister`, then `Deregister`); `abort()` closes the snapshot
outside of the lock, one connection at a time (`AbortClose`, `AbortRelease`).

The statistics and the configuration (`get`/`set`, `collect`, the visitor timer) change nothing else
and are left out, as is the failure of a list insertion for want of memory. The life cycle here is
the one that is common to all connections and uses the proactor's order of steps; the next two
modules go into the details for one connection each.

`ConnectionRegistry` is the abstract specification: who holds which object, which are members
(held by the registrar), capacity, refusal, reclamation by the last one to let go. It knows no counters,
lists or program counters. Three modules implement it, each by `Registry == INSTANCE ConnectionRegistry WITH ...`:

* ConnectionManager, for all its connections: `holders[c]` is `Holders(c)`, the registrar is the
  manager's list and `reclaimed` is `destroyed`.
* AsynchConnection and StreamConnection, each for the one connection it is about: its holders are the
  manager, the users, the read operation or the constructor, and the operations in flight. These
  are only counted in the models; they hold the connection by their number (`WriteOperation(i)`,
  `Notification(i)`), the last one being the first to let go.

In `Init` an object may have been created already, as the one connection of these two modules has. `Sharers`
are agents that get hold of an object through another holder: none in two of the modules, in
StreamConnection the notifications, because the stream runs, and may send, before the
connection is registered. Users need a lookup in all three.

### AsynchConnection

One TCP connection under the proactor. `opener`, `reader`, `closer` are the program counters of
`open()`, of the read operation and its handler, and of `handle_close()`; `party` those of
the users and of the stream's worker. `count` is the reference counter, `counter` is `counter_`
(pending operations, for `waitForIdleState()`), `writes` the operations the kernel has, `cancelled` how many of
these were cancelled; `cancel` and `closeSocket` are `cancel_b` and `close_socket_b`.
`ConcurrentDispatch` tells whether completions are dispatched while `open()` is still running (a
proactor with several threads), `PartialWrites` whether the kernel may take part of a buffer.

Three steps cancel what is in flight: `handle_close()` when the peer has closed (`CloseJoin`), `close()`
(`CloseShut`) and the completion of a write that failed (`WriteCompletes`). A write that was cancelled keeps
its reference and counts as pending until its completion is dispatched, so `CloseCount`, which samples
`count () <= 2` after the cancelling, and `WritesKeepSocket` treat it like any other. The comment at
`net_streamconnection_base.inl:1384-1386` asks for both, "flush all remaining outbound data" and "cancel any
pending asynchronous operations". The code stops the stream, so that its worker starts the last
writes, and then cancels them with the others (lines 1415, 1426-1427): output is cut off (AsynchCutOff.cfg).

The mapping to the registry (`Holders`) holds the connection for the read operation until `closer` is
"done", for the manager while `isRegistered`, for `Pending` write operations and for the users `Holding` it.

Not modelled: a connection that is accepted with initial data
(`net_tcpconnection_base.inl:407-446`), message allocation and statistics, retries of a write that
cannot be started (`EAGAIN`, a loop inside one step).

### StreamConnection

One TCP connection under the reactor. `handle_close()` has several callers: the reactor's thread
after `handle_input()` failed (`Reader`), any thread that dispatches a notification (`Notified`),
the connector after `open()` failed (`Connector`); `pc[c]` is the program counter of each and `sampled[c]` the
values it read of `count ()` and `isRegistered_` before it decides what to drop
(`net_streamconnection_base.inl:541-576`).

The mapping to the registry holds the connection for its creator while `Constructor` (what the other holders
leave of the counter) is 1. That it never is anything but 0 or 1, and that each of the overlapping calls of
`handle_close()` drops the reference of one holder, is what the refinement rests on.

The reactor is external. Assumed of ACE, from the way the code uses it: `remove_handler` with
`DONT_CALL` and `ACE_Svc_Handler::shutdown` take the handler out without calling it; a failed
`handle_input()` is answered with `handle_close()` while the handler is registered, a failed
notification always; `send_n()` sends everything or fails. No handler class enables the reactor's
own reference counting.

### SessionControl

The BitTorrent controller and its sessions. A connection is a pair of its session and a number;
`stream[c]` follows the callbacks `connect(id)` and `disconnect(id)`; `lock[s]` and `control` are the two
mutexes, held across steps only where the code calls from one object into the other:
`disconnect(id)` calls `notify()` under the session's lock, `stop()` calls `close()` of each session
under the controller's. Trackers and peers are connections of one kind; the torrent, pieces and
messages are not modelled, nor is the life time of session objects.

### AsynchConnector, AsynchConnectorProofs

Threads (`Clients`) that call `connect()`, perhaps `wait()`, on `Descriptors`. `socket` is what has
become of each descriptor, from `ACE_OS::socket` to the connection that is made with it or the
`closesocket`; `entry` is the map `handles_`; `step`, `handle` and `answer` are the program counter
of each thread, the descriptor it works on and what `wait()` returned. A critical section of `lock_` is
one action (`Insert`, `Erase`, `Wait`, `ReadResult`, `Record`); `closesocket` and the erasing of the
entry are two (`CloseSocket`, `Erase`), as in the code, and so are recording a result and the
broadcast. `Complete` is the kernel, `Abort` cancels every connect that is with it; `disposition` is the
result of the operation, which the properties compare with what is recorded and returned.

The system gives the number of every descriptor out again once it was closed. Entries of the map outlive
their sockets (nobody but a failing `connect()` erases one), and `insert()` does not replace an entry, so
that a number that is given out again meets what its predecessor left. In spite of that:

* `EntriesCurrent`: once `handle_connect()` has recorded a result, and until that connection ends, the map
  holds this result or none. Who is awakened by the broadcast for its own connect does not read an old one.
* `NothingLeftPending`: an entry without a result belongs to a connect whose result is to come, or is about to
  be erased.
* `WaitReturns`: a wait that begins before the broadcast, or has a time limit, ends.

What does not hold is stated, too, each with a configuration that shows how (section 5): that a result
`wait()` returns is that of the connect it was asked about (`AnswerIsOwn`: before its own result is there, the
broadcast for another connect makes it return what is in the map); that the iterator it keeps
stays valid (`IteratorStays`) and that an entry is there when its result is (`EntryKept`: another
thread has closed the socket at line 298 and erases, at line 313, the entry of who was given the number); and
that whoever waits is awakened (`WaitLearns`).

### Listener, AsynchListener, Server and their proofs

`Listener` is the listener of the reactor, `AsynchListener` that of the proactor, `Server` the program
that uses one of them: `useReactor` is chosen as in `test_u/client_server/net_server.cpp:745`, and
one thread controls the listener while the event dispatch accepts.

In `Listener` the four flags are variables of their own next to what they describe: `acceptor` is
the listening socket and its registration with the reactor, `bound` the address it was opened with. `start()` is
broken at the point where it opens or resumes (`Start`, then `Open`, `Resume` or `StartFails`), so that
the reactor may accept in between. ACE's acceptor is external: `close()` takes the socket
away even if it reports a failure, `suspend()` and `resume()` that fail have done nothing.

In `AsynchListener` an accept operation is an element of `Operations` from when it is issued to the
end of `handle_accept()`, which replaces it by the next one (`HandleAccept` reads the handle, `Reissue` or
`ReissueFails` calls `accept()`; several run at once). `stop()` cancels what is with the kernel, whose
results are still dispatched, perhaps after the next `start()`. `lost` counts the accepts that could
not be issued again. The branch of `stop()` for POSIX is modelled. Results that are dispatched after the
destructor are not followed.

### Bisector, BisectorProofs

`IRC_Module_Bisector_T` and its flex scanner. A byte is known by its position in `stream`, which is one
of all the streams of messages of the given length; a chain of blocks is thus an interval, `first` to
`received`, and a message that is handed on a pair of positions. `handleDataMessage()` is an action
for its begin (`HandleDataMessage`) and one for each value that the scanner returns (`ScanText`, `ScanStray`,
`FrameFound`, `ScanEnd`), together with the scanner's rule; `ScanCR` returns nothing. `condition`
is the scanner's start condition, `more` the text that `yymore()` keeps. `Initialize` begins another
session with the same module. After a cut in the wrong place (`step = "astray"`) a session is not
followed further.

## 3. What the runs check

| run | module | shows |
|---|---|---|
| ManagerService | MCConnectionManager | types; counters = holders; deleted objects are unregistered; list and flag agree; no waiter is left behind; the refinement of ConnectionRegistry, so that no deleted object is held; a closed connection leaves the list; `abort(true)` on a stopped manager empties it; `wait()` returns |
| AsynchSafety | AsynchConnection | types; references of operations and users; deletion comes last; the assertion at the end of `open()`; idle means written; the descriptor is not closed under a write whose completion is to come; the refinement of ConnectionRegistry |
| AsynchReclaim | AsynchConnection | with partial writes and concurrent dispatch: what was shut down, or is being closed, is deleted |
| AsynchPartialWrite | AsynchConnection | (violated) every operation in flight has a reference |
| StreamSafety | StreamConnection | types; the refinement of ConnectionRegistry: every reference has an owner; deletion comes last; a closed connection leaves the list; a failed `open()` is reclaimed |
| StreamLeak | StreamConnection | (violated) the object is reclaimed at the end of the final `handle_close()` |
| ControlSafety | SessionControl | types; a session is reported as cancelled only while it has no connection |
| ControlWait | SessionControl | waiters are awakened; a session whose connections have all ended is dropped; `wait()` returns |
| ControlDeadlock | SessionControl | (violated) `stop(false)` returns |
| Connector | AsynchConnector | types; sockets are owned on every path of `connect()`; the map never holds an old result for a connection that was announced, nor an entry that no result will come for; a wait that begins before the broadcast, or has a time limit, returns |
| Server | Server | types; the flags of the reactor's listener say what its acceptor does; `start()` listens at the last address; who connects is accepted; the proactor's listener has its backlog of accepts under way |
| Bisector | Bisector | types; exactly messages are handed on; none that is complete waits |

### Bounds

* ManagerService: two connections, a limit of one: the second registers only once the first has left, which is
  what `abort(true)` and `wait()` must cope with. Two threads, because one waiter cannot tell
  `broadcast()` from `signal()`. The invariants also hold for three connections, two threads and a limit of
  two (ManagerSafety.cfg, with symmetry): a snapshot of two and a connection that registers
  meanwhile. That configuration is not listed, the proofs cover it.
* The list and the counters are bounded by the number of connections and threads; nothing else grows.
* AsynchConnection: two users, a worker, `MaxWrites` operations in flight (3, and 2 for liveness).
  The decision in `handle_close()` compares the counter with 2, so 3 writes and 2 users are on
  both sides of it. `WriteContinues` stops once the object is destroyed.
* StreamConnection: one user, two threads that dispatch notifications, `MaxNotifications` = 1 in the
  queue: with the two being dispatched, three notifications are under way, and up to four callers are in
  `handle_close()`. `open()` is not followed into an object that is gone.
* SessionControl: two sessions of two connections with all calls; one session of three
  connections for liveness. A session is requested once, a connection is made once.
* Connector: two threads, so that they wait for different results of one condition; two descriptors,
  each of which is used again and again: both threads may get the number that the other one has just closed.
* Server: two addresses (a change and a change back), two clients, a backlog of two and one operation
  more: one that was left over by a `stop()`. AsynchListener.cfg has two more and 73509 states.
* Bisector: eight bytes hold two messages and the begin of a third, each of which a read may cut in two or more
  places; the proofs hold for any length.
* Deadlock is checked for the manager. The other modules come to an end (one connection's
  life, one request per session, a listener that is destroyed, a stream that has been read), so their configurations switch it off; `StopReturns` is the property
  that finds the deadlock of the two mutexes.

### Fairness

Weak fairness for straight-line code that has begun (`open()`, `handle_close()`, a callback): the
thread that runs it goes on. Weak fairness for completions the kernel owes: a read on a
socket that was shut down, a write operation in flight. A user that looked a connection up releases it
sometime (strong fairness, because it may go on calling `close()`): the warning in
`net_iconnectionmanager.h:89` demands it. In SessionControl, whoever waits for the controller's mutex
gets it if it becomes free again and again (strong fairness). In AsynchConnector the kernel
answers each connect sometime, time passes, and whoever was woken gets the lock, which nobody keeps. In
Server a call of the control thread goes on and the reactor dispatches a readable acceptor, whose `accept()` does not fail
for ever (a client stays in the backlog while there is no descriptor for it; other connections end sometime); of the
proactor's listener only safety is checked. Nobody is ever obliged to connect, look up, wait, send, close, stop
or abort, and the peer never has to do anything.

## 4. What is proved

Eight modules hold theorems and proofs; `tlapm` checks each.

`ConnectionManagerProofs`, for any set of connections, any finite set of threads and any limit
(`ConstantsAssumption`: the threads and the two other holders are distinct):

| theorem | says |
|---|---|
| InductiveInvariant | `Spec => []IInv` |
| TypeCorrect | `[]TypeOK` |
| ReferencesBalanced | `[]ReferencesAccounted`: counter = number of holders |
| NoUseAfterDelete | `[]HeldIsAlive` |
| DeletedAfterDeregistering | `[]DestroyedIsUnregistered`, the assertion of the destructor |
| DeregisterFinds | `[]LeavingIsListed` |
| WaitersAreSignalled | `[]NoLostWakeup` |
| ManagerImplementsRegistry | `Spec => ImplementsRegistry`, the refinement |

The argument. `ReferencesAccounted` alone is not inductive: from a state in which the list holds a
connection twice, or in which the flag says "registered" while it is not listed, a step
unbalances the counter. `IInv` adds what excludes these: the list and all snapshots are injective
(`ListsAreInjective`); a thread holds connections exactly where its program says so
(`HeldFollowsTask`); the flag and the phase agree (`FlagFollowsPhase`); the list and the flag agree
outside the two windows (`LeavingIsListed`); an object is deleted exactly when it was constructed and
nobody holds it (`DeletedWhenUnheld`). Each step changes the holders of a connection by at most one,
which a lemma on cardinality turns into the change of the counter. Lemmas on `Append`, `RemoveAt` and
`Tail` state what happens to the set of elements and to injectivity. The refinement maps
each action to one step of the registry or to a stutter, case by case, using `IInv`.
`NoLostWakeup` is inductive relative to `IInv`.

`AsynchConnectionProofs`, for any finite set of users and any number of writes, assuming, in all but the
last, `~PartialWrites` (a partial write breaks the balance: see AsynchPartialWrite):

| theorem | says |
|---|---|
| InductiveInvariant, TypeCorrect | `[]IInv`, `[]TypeOK` (no counter drops below zero) |
| ReferencesBalanced | `[]ReferencesAccounted` |
| IdleIsWritten | `[]IdleMeansWritten` |
| SocketOutlivesWrites | `WritesKeepSocket`, an action property: cancelled or not, a write has the descriptor until its completion |
| ConnectionImplementsRegistry | `Spec => ImplementsRegistry`, the refinement |
| DeletedLast, OpenAsserts | `[]NoUseAfterDelete`, `[]OpenAssertion`; they assume `~ConcurrentDispatch` as well |
| CountersNeverDrift | `[]CountersAgree`; it assumes neither whole buffers nor `~ConcurrentDispatch` |

`IInv` adds the exact value of `counter_` (`PendingCounted`), that the object is gone exactly at zero
(`DeletedAtZero`), the order of the three programs (`InSequence`), what the registration and the
stream are at each point of them (`RegistrationFollows`, `OutputFollows`: the stream passes nothing on
once `handle_close()` has stopped it, hence no reference is taken after the last one was
dropped), and that the decision to close the socket is only taken when the completion of every write was dispatched
(`SocketFollows`: with the manager and the read operation accounted for, `count () <= 2` leaves
no room for one).

`CountersNeverDrift` is what remains when the kernel may take a part of a buffer (AsynchPartialWrite: a write then
ends twice): `counter_` and `count` fall short of the operations in flight by the same amount, hence the one
never says idle while the other still holds the write's reference. Its inductive invariant (`Drift`) is not `IInv`, parts of
which are false there (`ReferencesAccounted`, `PendingCounted`): it adds to `CountersAgree` only that the programs run in order and that `open()` deregisters what it
registered. No run lists `CountersAgree`; TLC found it to hold with the constants of AsynchSafety.cfg and
`PartialWrites = TRUE`.

The refinement. The registry reclaims an object when a holder lets go who is the only one; the code when a
counter drops from one to zero. `LastHolder` shows from the balance that for any holder these are
the same. Lemmas on the set of holders (`ManagerJoins`, `WriteLeaves`, ...) say how each kind of holder
comes and goes, others turn that into a step of the registry (`AdmitMaps`, `AcquireMaps`,
`DropMaps`), and there is one lemma for each group of actions. That a write operation only begins while the connection is
registered, as `Acquire` demands, is `OutputFollows`. It does not need `~ConcurrentDispatch`: the object that
AsynchOpenRace catches between deletion and assertion was deleted by its last holder, too early for `open()`.

`StreamConnectionProofs`, for any finite sets of users and notified threads and any number of notifications,
assuming `~ConcurrentDispatch`. The assumption is needed: with events dispatched during `open()`, TLC finds every
one of these four violated. With the constants of StreamSafety.cfg and `ConcurrentDispatch = TRUE` the reader's
`handle_close()` and that of the connector whose `open()` failed both give up the constructor's reference, so that the
counter is wrong and drops below zero; `NoUseAfterDelete` is the run StreamOpenRace.

| theorem | says |
|---|---|
| InductiveInvariant, TypeCorrect | `[]IInv`, `[]TypeOK` (no counter drops below zero) |
| ReferencesBalanced | `[]ReferencesAccounted`: the counter is the number of its owners |
| DeletedLast | `[]NoUseAfterDelete` |
| ConnectionImplementsRegistry | `Spec => ImplementsRegistry`, the refinement |

`IInv` says that the callbacks follow `open()`, and that a connector whose `open()` failed and the
reader are never both in `handle_close()` (`InSequence`); that flag, list and reactor follow
`open()` (`RegistrationFollows`); that the stream has stopped once a caller samples the counter, so that no
notification is queued any more (`StreamStopped`); that every caller of `handle_close()`, whenever it
sampled the counter and the flag, decides to drop a reference (`SamplesOwned`), which
`ReferencesAccounted` then counts as its own; that the constructor's reference is there while
the stream runs or the reader has failed (`ConstructorNeeded`); and that the object is gone exactly at
zero (`DeletedAtZero`). As for the manager, lemmas on cardinality turn a change of the set of owners
by one into the change of the counter. The refinement is shown as for AsynchConnection; `SamplesOwned` makes the
last step of every `handle_close()` a `Drop` of its notification or of the creation, `ConstructorNeeded`
finds for each new notification a holder that vouches for it.

`SessionControlProofs`, for all sets of sessions, connections and users and all calls:
InductiveInvariant, TypeCorrect and CancelledWhileUnused (`[]CancelledIsUnused`). `IInv` adds that the
connection that notifies holds the lock of its session (`NotifierHoldsLock`) and that
the session's set of connections is that of its connected streams (`ConnectionsFollowStreams`), so that
"no connection left" in the set means that no stream is connected. LastSessionWakes
(`[]WaitersAwakened`) assumes that nobody calls `stop()` and that `RequestsFail` is FALSE: the two others that empty
the map do not wake anybody (ControlWaiters).

`AsynchConnectorProofs`, for all sets of threads and descriptors, all of which are given out again:

| theorem | says |
|---|---|
| InductiveInvariant, TypeCorrect | `[]IInv`, `[]TypeOK` |
| NoSocketLeaks | `[]SocketsOwned` |
| ResultsAreCurrent | `[]EntriesCurrent` |
| NoEntryLeftPending | `[]NothingLeftPending` |

`IInv` is the conjunction of these with `ResultKnown` (a completed operation has a result). They need
each other: that `Insert` does not disturb an announced connection of the same number is that its socket is one of
`connect()` (`SocketsOwned`); that a failed connection leaves nothing pending is that its result was recorded in place
of whatever was there (`EntriesCurrent`, `ResultKnown`).

`ListenerProofs`, for all sets of addresses and clients: InductiveInvariant, TypeCorrect,
FlagsAreTruthful (`[]FlagsTruthful`) and ListensAtNewAddress (the action property `NewAddress`). The
strengthening says that an acceptor that is open with no change pending is bound to the configured
address.

`ServerProofs`, for any finite set of operations and any backlog of at most as many
(`OperationsAssumption`). Of the listener of the proactor: InductiveInvariant, TypeCorrect, StaysAccepting
(`[]NotDeaf`). `NotDeaf` counts operations, so each step is shown to keep, add or remove one element of
`Active`; during `open()` the count is that of the operations it has issued so far (`IssuedCounted`), and no
operation under way can be cancelled while that counts (`OpenIsReady`). Of the server:

| theorem | says |
|---|---|
| ServerInvariant | `ServerSpec => []ServerIInv`: the invariants of both listeners |
| ServerTypes, ServerFlagsTruthful, ServerNotDeaf | `[]TypesOK`, `[]FlagsTruthful`, `[]NotDeaf` of a server |
| ServerNewAddress | `ServerSpec => NewAddress`, the action property |

`ListenerProofs` is instantiated with the server's variables, so that its lemmas about a step apply
to the steps of the server; what is left to show is that a step of one listener leaves
the other as it was.

`BisectorProofs`, for streams of any length (`StreamLengthAssumption`): InductiveInvariant, TypeCorrect,
HandsOnMessages (`[]FramesAreMessages`), WithholdsNothing (`[]NothingWithheld`). `IInv` says what the buffer
holds (`BufferScanned`: it begins with a message, the scanner has passed no LF in it, and expects one
exactly after a CR), how the lengths relate to positions (`LengthsCounted`: a CR that was scanned and whose
LF was not is not counted, and a lone byte may be missing) and that earlier messages were handed on
(`FramesKept`).

Only model-checked: every liveness property (liveness under fairness is out of the prover's reach). No module has
recursive definitions.

## 5. Where the code disagrees with what it says

Listed as findings in `PROJECT.json`, each with its run:

1. AsynchPartialWrite: the rest of a partially written buffer is in flight without a reference.
2. StreamLeak: a failed notification takes the handler out of the reactor; the constructor's
   reference is never dropped.
3. ControlDeadlock: `stop()` and `disconnect(id)` take the two mutexes in opposite order.

Further configurations, not in the list of runs, show other disagreements; each violates its property:

| configuration | property | what it shows |
|---|---|---|
| ManagerGet | GetReturnsRequested | a lookup by id or handle that finds nothing returns the last connection |
| ControlNotify | NotifyFinds | two connections that end together both report the session as cancelled, against the assertion in `notify()` (`bittorrent_control.inl:511`) |
| ConnectorWait | WaitLearns | `wait()` waits although the result is in the map: whoever comes after the broadcast waits for that of another connect, or for ever, against "prevent race condition in wait()" (`net_client_asynchconnector.inl:480`) |
| ConnectorAnswer | AnswerIsOwn | one thread suffices: `insert()` keeps what an earlier connect left under the number (`net_client_asynchconnector.inl:273`), and a broadcast for a connect it no longer cares about makes `wait()` return that |
| ConnectorIterator | IteratorStays | the entry that a sleeping `wait()` has an iterator to is erased by a `connect()` that had the number before (lines 298 and 313) |
| ConnectorEntry | EntryKept | answers "*TODO*: when does this fail ?" (`net_client_asynchconnector.inl:483`): a `connect()` that failed closed the socket and erases, a step later, the entry of the connect that was given its number |
| AsynchListens | Listens | an accept that cannot be issued again is gone for good: in the end the listener accepts nobody while `isListening_` is set |
| AsynchAtMostBacklog | AtMostBacklog | an accept that completed before `stop()` is issued again after the next `start()`: one more than `numberOfInitialAccepts_in` |
| BisectorLength | LengthsAgree | a lone byte that was received first is not scanned (`irc_module_bisector.inl:275`): the assertion on the length of the message fails (lines 394, 402) |
| BisectorRestart | SessionsIndependent | a session that ends between CR and LF leaves the scanner in `end_of_frame`: the first message of the next one is cut in the wrong place |
| AsynchCutOff | OutputFlushed | `handle_close()` cancels the writes in flight when the peer has closed (`net_streamconnection_base.inl:1426`), though the comment asks to "flush all remaining outbound data" before (line 1384) |
| AsynchDestructor | SocketReleased | if somebody still holds the connection at `handle_close()`, the socket is left to the destructor, which warns of it (`net_asynch_tcpsockethandler.inl:66`) |
| AsynchOpenRace | OpenAssertion | with several proactor threads the connection may be over before the assertion at the end of `open()` |
| StreamOpenRace | NoUseAfterDelete | with several reactor threads the object may be deleted while `open()` runs |
| StreamOutput | OutputKeepsConnection | `handle_output()` may delete the object whose `sendLock_` it holds |
| StreamHandle | HandleRetained | the socket is closed before the connection is deregistered, against the note at `net_streamconnection_base.inl:544` |
| ControlWaiters | WaitersAwakened | `stop()` clears the map without waking those in `wait()` |
| ControlClose | CloseReturns | nobody signals the condition that `close(true)` of a session waits for |

Three configurations pass and are not listed, for their run time or because Server contains them:
ManagerSafety, Listener and AsynchListener (with `IInv` as an invariant).

## 6. Plan

Modules: those of section 2 are done. What would come next, in order:

1. The life time of session objects, with `get()` and the failing branch of `request()`
   (`bittorrent_control.inl:93`, `:390`).
2. AsynchConnector composed with AsynchConnection: whose socket it is when `open()` fails.

Theorems: that the session objects of item 1 outlive the callbacks they are given to.

## 7. Not modelled

* UDP and netlink connections: the life cycle is that of AsynchConnection and StreamConnection; what is
  special is which of the two directions the socket has.
* SSL: the handshake is OpenSSL's; `net_server_ssl_listener.inl` repeats `net_server_listener.inl`.
* WLAN monitor, IRC registration: both are driven by the state machine of libCommon, which is not part of
  this repository (its locking and its notifications decide what can go wrong), and call D-Bus, netlink and user
  interfaces. The handler of the IRC client has the wait without a predicate that AsynchConnector shows, too.
* DHCP: an offer is answered with a request; there are no timers and no retries in the modules.
* HTTP, PPSPP: the bisectors of their scanners are not compiled; message framing is done by generated parsers.
* Scanners and parsers are generated by flex and bison: most of the lines of the repository are their
  tables. Of these only the rules of `bisector.l` are modelled, from their source.
* Transport layer, sockets, tools: wrappers of system calls without state.
* `test_u`, `test_i`: applications with user interfaces; `Server` takes from one how a listener is chosen.
* Windows: where a handler has branches for Windows and POSIX, the latter is modelled.
