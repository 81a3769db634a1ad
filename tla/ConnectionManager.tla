-------------------------- MODULE ConnectionManager --------------------------
(***************************************************************************)
(* The connection manager (Net_Connection_Manager_T) and the reference     *)
(* counted connections (Net_ConnectionBase_T) that register with it.       *)
(*                                                                         *)
(* A connection object is shared by                                        *)
(*   - the event dispatch, which owns the reference of the constructor     *)
(*     until the last handle_close() has run (Dispatcher),                 *)
(*   - the manager's list connections_, which owns one reference for each  *)
(*     registered connection (Manager),                                    *)
(*   - any thread that obtained it from one of the get()s, and the thread  *)
(*     that walks the snapshot taken by one of the abort()s.               *)
(* The object deletes itself when its counter drops to zero.               *)
(*                                                                         *)
(* Every action that holds lock_ is one critical section of the code; the  *)
(* code between two critical sections is broken up into actions of its     *)
(* own, so that all interleavings of the threads are possible.             *)
(***************************************************************************)
EXTENDS Integers, FiniteSets, SequencesExt

CONSTANTS
  Connections,     \* the connection objects a program creates
  Threads,         \* the threads that call the manager
  MaxConnections,  \* maximumNumberOfConnections_
  Dispatcher,      \* as a holder of a reference: the event dispatch
  Manager          \* as a holder of a reference: the manager's list

ASSUME ConstantsAssumption ==
  /\ IsFiniteSet(Threads)
  /\ MaxConnections \in Nat
  /\ Dispatcher # Manager
  /\ {Dispatcher, Manager} \cap Threads = {}

VARIABLES
  isActive,      \* manager: new connections are accepted
  connections,   \* manager: the list, oldest connection first
  phase,         \* connection: how far its open() / handle_close() has come
  count,         \* connection: the reference counter
  isRegistered,  \* connection: the flag isRegistered_
  status,        \* connection: state_.status
  shut,          \* connection: close() has shut its socket down
  destroyed,     \* the connections that have deleted themselves
  task,          \* thread: what it is doing
  again,         \* thread: its abort() waits for completion
  held           \* thread: the connections it holds a reference to

managerVars == <<isActive, connections>>
connectionVars == <<phase, count, isRegistered, status, shut, destroyed>>
threadVars == <<task, again, held>>
vars == <<isActive, connections, phase, count, isRegistered, status, shut,
          destroyed, task, again, held>>

Phases ==
  {"none",      \* not constructed yet
   "opening",   \* open() runs, not registered
   "listed",    \* in the list, isRegistered_ not assigned yet
   "starting",  \* registered, the stream is being started
   "open",      \* reading
   "closing",   \* handle_close() runs
   "leaving",   \* isRegistered_ reset, still in the list
   "releasing", \* about to drop the dispatch's reference
   "done"}      \* no callback will ever be invoked again

Statuses == {"INVALID", "OK", "INITIALIZATION_FAILED", "CLOSED", "PEER_CLOSED"}

Tasks ==
  {"idle", "using", "aborting", "closed", "restart", "waiting", "awake"}

(***************************************************************************)
(* The type of every variable.                                             *)
(***************************************************************************)
TypeOK ==
  /\ isActive \in BOOLEAN
  /\ connections \in Seq(Connections)
  /\ phase \in [Connections -> Phases]
  /\ count \in [Connections -> Nat]
  /\ isRegistered \in [Connections -> BOOLEAN]
  /\ status \in [Connections -> Statuses]
  /\ shut \in [Connections -> BOOLEAN]
  /\ destroyed \in SUBSET Connections
  /\ task \in [Threads -> Tasks]
  /\ again \in [Threads -> BOOLEAN]
  /\ held \in [Threads -> Seq(Connections)]

Registered == ToSet(connections)

(***************************************************************************)
(* Who holds a reference to connection c, each of them exactly one.        *)
(***************************************************************************)
Holders(c) ==
  {h \in Threads \cup {Dispatcher, Manager} :
     \/ h = Dispatcher /\ phase[c] \notin {"none", "done"}
     \/ h = Manager /\ c \in Registered
     \/ h \in Threads /\ c \in ToSet(held[h])}

Init ==
  /\ isActive = TRUE
  /\ connections = << >>
  /\ phase = [c \in Connections |-> "none"]
  /\ count = [c \in Connections |-> 0]
  /\ isRegistered = [c \in Connections |-> FALSE]
  /\ status = [c \in Connections |-> "INVALID"]
  /\ shut = [c \in Connections |-> FALSE]
  /\ destroyed = {}
  /\ task = [t \in Threads |-> "idle"]
  /\ again = [t \in Threads |-> FALSE]
  /\ held = [t \in Threads |-> << >>]

-----------------------------------------------------------------------------
(***************************************************************************)
(* Helpers: the reference counter, and close() as another thread calls it. *)
(***************************************************************************)

Decrease(c) ==
  /\ count' = [count EXCEPT ![c] = @ - 1]
  /\ destroyed' = IF count[c] = 1 THEN destroyed \cup {c} ELSE destroyed

Goto(c, from, to) ==
  /\ phase[c] = from
  /\ phase' = [phase EXCEPT ![c] = to]

ShutDown(c) ==
  /\ status' = [status EXCEPT ![c] = IF @ = "OK" THEN "CLOSED" ELSE @]
  /\ shut' = [shut EXCEPT ![c] = TRUE]

-----------------------------------------------------------------------------
(***************************************************************************)
(* The connection's own side: the thread that constructs it and runs       *)
(* open(), then the event dispatch that runs handle_close().               *)
(***************************************************************************)

Construct(c) ==
  /\ Goto(c, "none", "opening")
  /\ count' = [count EXCEPT ![c] = 1]
  /\ UNCHANGED <<managerVars, isRegistered, status, shut, destroyed, threadVars>>

(* Anything in open() up to the registration fails: the socket could not be
   configured.  The error path goes on to handle_close(). *)
OpenFails(c) ==
  /\ Goto(c, "opening", "closing")
  /\ status' = [status EXCEPT ![c] = "INITIALIZATION_FAILED"]
  /\ UNCHANGED <<managerVars, count, isRegistered, shut, destroyed, threadVars>>

(* register_() finds the manager inactive or full. *)
Rejected(c) ==
  /\ \/ ~isActive
     \/ Len(connections) >= MaxConnections
  /\ Goto(c, "opening", "closing")
  /\ status' = [status EXCEPT ![c] = "INITIALIZATION_FAILED"]
  /\ UNCHANGED <<managerVars, count, isRegistered, shut, destroyed, threadVars>>

(* Faulty: forgets that a stopped manager rejects connections. *)
RegisterInactive(c) ==
  /\ Len(connections) < MaxConnections
  /\ Goto(c, "opening", "listed")
  /\ count' = [count EXCEPT ![c] = @ + 1]
  /\ connections' = Append(connections, c)
  /\ UNCHANGED <<isActive, isRegistered, status, shut, destroyed, threadVars>>

(* The critical section of the manager's register_(). *)
Register(c) ==
  /\ isActive
  /\ Len(connections) < MaxConnections
  /\ Goto(c, "opening", "listed")
  /\ count' = [count EXCEPT ![c] = @ + 1]
  /\ connections' = Append(connections, c)
  /\ UNCHANGED <<isActive, isRegistered, status, shut, destroyed, threadVars>>

(* register_() of the connection assigns the manager's answer only after the
   manager has released its lock: other threads see the connection in between. *)
AssignRegistered(c) ==
  /\ Goto(c, "listed", "starting")
  /\ isRegistered' = [isRegistered EXCEPT ![c] = TRUE]
  /\ UNCHANGED <<managerVars, count, status, shut, destroyed, threadVars>>

(* The stream does not start. *)
StartFails(c) ==
  /\ Goto(c, "starting", "closing")
  /\ status' = [status EXCEPT ![c] = "INITIALIZATION_FAILED"]
  /\ UNCHANGED <<managerVars, count, isRegistered, shut, destroyed, threadVars>>

(* The end of open(): the state is OK, whatever close() has done before, and
   the first read operation is on its way. *)
Opened(c) ==
  /\ Goto(c, "starting", "open")
  /\ status' = [status EXCEPT ![c] = "OK"]
  /\ UNCHANGED <<managerVars, count, isRegistered, shut, destroyed, threadVars>>

(* Faulty: events are dispatched as soon as the connection is listed. *)
HandleCloseEarly(c) ==
  /\ phase[c] \in {"listed", "open"}
  /\ phase' = [phase EXCEPT ![c] = "closing"]
  /\ status' = [status EXCEPT ![c] = IF @ = "CLOSED" THEN @ ELSE "PEER_CLOSED"]
  /\ UNCHANGED <<managerVars, count, isRegistered, shut, destroyed, threadVars>>

(* The read operation completes with an error or at the end of the stream:
   the peer has gone, or close() has shut the socket down. *)
HandleClose(c) ==
  /\ Goto(c, "open", "closing")
  /\ status' = [status EXCEPT ![c] = IF @ = "CLOSED" THEN @ ELSE "PEER_CLOSED"]
  /\ UNCHANGED <<managerVars, count, isRegistered, shut, destroyed, threadVars>>

(* Faulty: the flag keeps its value. *)
DeregisterKeepsFlag(c) ==
  /\ phase[c] = "closing"
  /\ phase' = [phase EXCEPT ![c] = IF isRegistered[c] THEN "leaving" ELSE "releasing"]
  /\ UNCHANGED <<managerVars, count, isRegistered, status, shut, destroyed, threadVars>>

(* deregister() of the connection: the flag is reset before the manager is
   called. *)
BeginDeregister(c) ==
  /\ phase[c] = "closing"
  /\ \/ /\ isRegistered[c]
        /\ isRegistered' = [isRegistered EXCEPT ![c] = FALSE]
        /\ phase' = [phase EXCEPT ![c] = "leaving"]
     \/ /\ ~isRegistered[c]
        /\ phase' = [phase EXCEPT ![c] = "releasing"]
        /\ UNCHANGED isRegistered
  /\ UNCHANGED <<managerVars, count, status, shut, destroyed, threadVars>>

(* Faulty: wakes one of the waiters instead of all of them. *)
DeregisterSignalsOne(c) ==
  /\ Goto(c, "leaving", "releasing")
  /\ \E i \in DOMAIN connections :
       /\ connections[i] = c
       /\ connections' = RemoveAt(connections, i)
  /\ Decrease(c)
  /\ IF connections' = << >> /\ \E t \in Threads : task[t] = "waiting"
       THEN \E t \in Threads :
              task[t] = "waiting" /\ task' = [task EXCEPT ![t] = "awake"]
       ELSE UNCHANGED task
  /\ UNCHANGED <<isActive, isRegistered, status, shut, again, held>>

(* The critical section of the manager's deregister(): unlink, drop the list's
   reference, and wake the threads in wait() when this was the last one.  The
   branch for a connection that is not in the list is never taken: see
   LeavingIsListed. *)
Deregister(c) ==
  /\ Goto(c, "leaving", "releasing")
  /\ \E i \in DOMAIN connections :
       /\ connections[i] = c
       /\ connections' = RemoveAt(connections, i)
  /\ Decrease(c)
  /\ task' = [t \in Threads |-> IF task[t] = "waiting" /\ connections' = << >>
                                  THEN "awake" ELSE task[t]]
  /\ UNCHANGED <<isActive, isRegistered, status, shut, again, held>>

(* Faulty: a second decrease(), for a reference that is not the dispatch's. *)
FinishTwice(c) ==
  /\ Goto(c, "releasing", "done")
  /\ count' = [count EXCEPT ![c] = @ - 2]
  /\ destroyed' = IF count[c] <= 2 THEN destroyed \cup {c} ELSE destroyed
  /\ UNCHANGED <<managerVars, isRegistered, status, shut, threadVars>>

(* The dispatch drops the constructor's reference: the final handle_close(). *)
Finish(c) ==
  /\ Goto(c, "releasing", "done")
  /\ Decrease(c)
  /\ UNCHANGED <<managerVars, isRegistered, status, shut, threadVars>>

Lifecycle(c) ==
  \/ Construct(c)
  \/ OpenFails(c)
  \/ Rejected(c)
  \/ Register(c)
  \/ AssignRegistered(c)
  \/ StartFails(c)
  \/ Opened(c)
  \/ HandleClose(c)
  \/ BeginDeregister(c)
  \/ Deregister(c)
  \/ Finish(c)

-----------------------------------------------------------------------------
(***************************************************************************)
(* The threads that use the manager.                                       *)
(***************************************************************************)

Become(t, from, to) ==
  /\ task[t] = from
  /\ task' = [task EXCEPT ![t] = to]

(* start(): the visitor timer may fail to be scheduled, which leaves the manager
   as it was. *)
Start ==
  /\ ~isActive
  /\ isActive' = TRUE
  /\ UNCHANGED <<connections, connectionVars, threadVars>>

(* stop(); when it is asked to wait, a wait() follows. *)
Stop ==
  /\ isActive
  /\ isActive' = FALSE
  /\ UNCHANGED <<connections, connectionVars, threadVars>>

(* The connection get(id) returns: the loop stops at a match, but the variable
   it returns still points to the last connection when there is none. *)
Found(c) == IF c \in Registered THEN c ELSE Last(connections)

(* Faulty: the reference is not counted. *)
TakeUncounted(t, c) ==
  /\ Become(t, "idle", "using")
  /\ held' = [held EXCEPT ![t] = <<c>>]
  /\ UNCHANGED <<managerVars, phase, count, isRegistered, status, shut, destroyed, again>>

(* A lookup hands out connection c with a reference of the caller's own. *)
Take(t, c) ==
  /\ Become(t, "idle", "using")
  /\ held' = [held EXCEPT ![t] = <<c>>]
  /\ count' = [count EXCEPT ![c] = @ + 1]
  /\ UNCHANGED <<managerVars, phase, isRegistered, status, shut, destroyed, again>>

(* get(id) and get(handle); NULL when there are no connections at all. *)
GetById(t, c) ==
  /\ connections # << >>
  /\ Take(t, Found(c))

(* get(address): NULL unless some registered connection has the address. *)
GetByAddress(t, c) ==
  /\ c \in Registered
  /\ Take(t, c)

(* operator[]: an index past the end yields the last connection. *)
GetByIndex(t, i) ==
  /\ connections # << >>
  /\ Take(t, IF i \in DOMAIN connections THEN connections[i] ELSE Last(connections))

(* The caller closes the connection it looked up; any number of times. *)
Close(t) ==
  /\ task[t] = "using"
  /\ ShutDown(Head(held[t]))
  /\ UNCHANGED <<managerVars, phase, count, isRegistered, destroyed, threadVars>>

(* The caller drops the reference it got from the lookup. *)
Release(t) ==
  /\ Become(t, "using", "idle")
  /\ Decrease(Head(held[t]))
  /\ held' = [held EXCEPT ![t] = << >>]
  /\ UNCHANGED <<managerVars, phase, isRegistered, status, shut, again>>

(* wait() blocks while there are connections ... *)
Wait(t) ==
  /\ connections # << >>
  /\ Become(t, "idle", "waiting")
  /\ UNCHANGED <<managerVars, connectionVars, again, held>>

(* ... and looks at the list again each time it is woken: a connection may have
   registered before the thread got hold of the lock. *)
WakeUp(t) ==
  /\ Become(t, "awake", IF connections = << >> THEN "idle" ELSE "waiting")
  /\ UNCHANGED <<managerVars, connectionVars, again, held>>

(* abortLeastRecent(), abortMostRecent(): one connection is to be closed. *)
AbortOne(t, c) ==
  /\ Become(t, "idle", "aborting")
  /\ held' = [held EXCEPT ![t] = <<c>>]
  /\ count' = [count EXCEPT ![c] = @ + 1]
  /\ UNCHANGED <<managerVars, phase, isRegistered, status, shut, destroyed, again>>

AbortLeastRecent(t) == connections # << >> /\ AbortOne(t, Head(connections))

AbortMostRecent(t) == connections # << >> /\ AbortOne(t, Last(connections))

(* Step 1 of abort(bool): a snapshot of the list, with a reference to each. *)
Snapshot(t) ==
  /\ connections # << >>
  /\ held' = [held EXCEPT ![t] = connections]
  /\ count' = [c \in Connections |-> IF c \in Registered THEN count[c] + 1 ELSE count[c]]

AbortAll(t, wait) ==
  /\ Become(t, "idle", "aborting")
  /\ Snapshot(t)
  /\ again' = [again EXCEPT ![t] = wait]
  /\ UNCHANGED <<managerVars, phase, isRegistered, status, shut, destroyed>>

(* Step 2, outside the lock, from the head of the snapshot: close() ... *)
AbortClose(t) ==
  /\ Become(t, "aborting", "closed")
  /\ ShutDown(Head(held[t]))
  /\ UNCHANGED <<managerVars, phase, count, isRegistered, destroyed, again, held>>

(* ... and drop the reference; then the next one, or the next round, or done. *)
AbortRelease(t) ==
  /\ Become(t, "closed", IF Len(held[t]) > 1 THEN "aborting"
                          ELSE IF again[t] THEN "restart" ELSE "idle")
  /\ Decrease(Head(held[t]))
  /\ held' = [held EXCEPT ![t] = Tail(@)]
  /\ UNCHANGED <<managerVars, phase, isRegistered, status, shut, again>>

(* abort(true) goes back to step 1 ... *)
AbortAgain(t) ==
  /\ Become(t, "restart", "aborting")
  /\ Snapshot(t)
  /\ UNCHANGED <<managerVars, phase, isRegistered, status, shut, destroyed, again>>

(* Faulty: abort(true) returns after the first round. *)
AbortOnce(t) ==
  /\ Become(t, "restart", "idle")
  /\ again' = [again EXCEPT ![t] = FALSE]
  /\ UNCHANGED <<managerVars, connectionVars, held>>

(* ... until there is nothing left to close. *)
AbortDone(t) ==
  /\ connections = << >>
  /\ Become(t, "restart", "idle")
  /\ again' = [again EXCEPT ![t] = FALSE]
  /\ UNCHANGED <<managerVars, connectionVars, held>>

ThreadStep(t) ==
  \/ \E c \in Connections : GetById(t, c)
  \/ \E c \in Connections : GetByAddress(t, c)
  \/ \E i \in 1 .. Len(connections) + 1 : GetByIndex(t, i)
  \/ Close(t)
  \/ Release(t)
  \/ Wait(t)
  \/ WakeUp(t)
  \/ AbortLeastRecent(t)
  \/ AbortMostRecent(t)
  \/ \E wait \in BOOLEAN : AbortAll(t, wait)
  \/ AbortClose(t)
  \/ AbortRelease(t)
  \/ AbortAgain(t)
  \/ AbortDone(t)

Next ==
  \/ \E c \in Connections : Lifecycle(c)
  \/ \E t \in Threads : ThreadStep(t)
  \/ Start
  \/ Stop

Spec == Init /\ [][Next]_vars

-----------------------------------------------------------------------------
(***************************************************************************)
(* Fairness: the dispatch keeps running open() and handle_close() and the  *)
(* operating system completes the read operation of a socket that was shut *)
(* down; a thread that was woken, or is inside abort(), gets the lock.     *)
(* Nobody is obliged to look up, close, stop or abort anything.            *)
(***************************************************************************)
Fairness ==
  /\ \A c \in Connections :
       /\ WF_vars(Register(c) \/ Rejected(c))
       /\ WF_vars(AssignRegistered(c))
       /\ WF_vars(Opened(c))
       /\ WF_vars(shut[c] /\ HandleClose(c))
       /\ WF_vars(BeginDeregister(c))
       /\ WF_vars(Deregister(c))
       /\ WF_vars(Finish(c))
  /\ \A t \in Threads :
       /\ WF_vars(WakeUp(t))
       /\ WF_vars(AbortClose(t))
       /\ WF_vars(AbortRelease(t))
       /\ WF_vars(AbortAgain(t) \/ AbortDone(t))

FairSpec == Spec /\ Fairness

-----------------------------------------------------------------------------
(***************************************************************************)
(* The counter of a connection is exactly the number of those who hold a   *)
(* reference, in every interleaving of lookups, aborts and the connection's*)
(* own end: increase() and decrease() are balanced over all code paths.    *)
(***************************************************************************)
ReferencesAccounted ==
  \A c \in Connections : count[c] = Cardinality(Holders(c))

(***************************************************************************)
(* Nobody holds a pointer to a connection that has deleted itself; this is *)
(* what makes it safe to call close() on a snapshot outside the lock.      *)
(***************************************************************************)
HeldIsAlive ==
  \A c \in destroyed : Holders(c) = {}

(***************************************************************************)
(* The assertion in ~Net_ConnectionBase_T(): a connection is deleted only  *)
(* after it has deregistered, and is not found in the list any more.       *)
(***************************************************************************)
DestroyedIsUnregistered ==
  \A c \in destroyed : ~isRegistered[c] /\ c \notin Registered

(***************************************************************************)
(* The flag and the list agree except in the two windows in which the      *)
(* connection has left the manager's critical section and not yet assigned *)
(* the flag, or has reset the flag and not yet entered it; so deregister() *)
(* always finds the connection.                                            *)
(***************************************************************************)
LeavingIsListed ==
  \A c \in Connections :
    c \in Registered <=> isRegistered[c] \/ phase[c] \in {"listed", "leaving"}

(***************************************************************************)
(* A thread blocked in wait() is not left behind: whenever the list is     *)
(* empty, every waiter has been signalled (no lost wakeup).                *)
(***************************************************************************)
NoLostWakeup ==
  connections = << >> => \A t \in Threads : task[t] # "waiting"

(***************************************************************************)
(* What makes ReferencesAccounted inductive: the list and the snapshots    *)
(* hold no connection twice, the flag follows the phase, a connection that *)
(* was not constructed is held by nobody, and an object is deleted exactly *)
(* when the last holder lets go.                                           *)
(***************************************************************************)
ListsAreInjective ==
  /\ IsInjective(connections)
  /\ \A t \in Threads : IsInjective(held[t])

HeldFollowsTask ==
  \A t \in Threads :
    /\ task[t] \in {"idle", "restart", "waiting", "awake"} => held[t] = << >>
    /\ task[t] \in {"aborting", "closed"} => held[t] # << >>
    /\ task[t] = "using" => Len(held[t]) = 1

FlagFollowsPhase ==
  \A c \in Connections :
    /\ phase[c] \in {"starting", "open"} => isRegistered[c]
    /\ isRegistered[c] => phase[c] \in {"starting", "open", "closing"}

DeletedWhenUnheld ==
  \A c \in Connections :
    /\ phase[c] = "none" => Holders(c) = {}
    /\ c \in destroyed <=> phase[c] # "none" /\ Holders(c) = {}

IInv ==
  /\ TypeOK
  /\ ListsAreInjective
  /\ HeldFollowsTask
  /\ FlagFollowsPhase
  /\ LeavingIsListed
  /\ DeletedWhenUnheld
  /\ ReferencesAccounted

(***************************************************************************)
(* The manager and its connections implement the registry: the counter     *)
(* stands for the set of holders, deletion for reclamation; the limit, the *)
(* inactive state and the life time rules hold for every step.             *)
(***************************************************************************)
Registry ==
  INSTANCE ConnectionRegistry WITH
    Objects <- Connections,
    Agents <- Threads \cup {Dispatcher},
    Sharers <- {},
    Registrar <- Manager,
    Capacity <- MaxConnections,
    accepting <- isActive,
    holders <- [c \in Connections |-> Holders(c)],
    reclaimed <- destroyed

ImplementsRegistry == Registry!Spec

(***************************************************************************)
(* get(id) returns the connection that was asked for (the comment on the   *)
(* declaration: "id"; its callers take NULL to mean "not found").  The code*)
(* does not: without a match it returns the last connection of the list.   *)
(***************************************************************************)
GetReturnsRequested ==
  [][\A t \in Threads, c \in Connections : GetById(t, c) => held'[t] = <<c>>]_vars

(***************************************************************************)
(* A registered connection that was shut down by close() eventually leaves *)
(* the list, whoever closed it and however early.                          *)
(***************************************************************************)
ClosedLeaves ==
  \A c \in Connections : (c \in Registered /\ shut[c]) ~> (c \notin Registered)

(***************************************************************************)
(* wait() returns once the manager is stopped for good and all registered  *)
(* connections have been closed (net_iconnectionmanager.h: wait() "makes   *)
(* sense only AFTER stop()").                                              *)
(***************************************************************************)
WaitReturns ==
  \A t \in Threads :
    [](/\ task[t] \in {"waiting", "awake"}
       /\ [](~isActive /\ \A c \in Registered : shut[c])
       => <>(task[t] = "idle"))

(***************************************************************************)
(* abort(true) on a stopped manager empties the list: it closes every      *)
(* connection, those that register while it is at work included.           *)
(***************************************************************************)
AbortDrains ==
  \A t \in Threads :
    [](again[t] /\ []~isActive => <>(connections = << >>))

=============================================================================
