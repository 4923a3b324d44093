---------------------------- MODULE CommandQueue ----------------------------
(***************************************************************************)
(* The per-transport command queues of api/commands/direct_command_queue.py *)
(* (CommandQueue, QueueRegistry, run_on_bus) together with the part of the  *)
(* config-entry life cycle in __init__.py that creates and releases them.   *)
(*                                                                          *)
(* Everything runs on one asyncio event loop, so a step of this model is a  *)
(* stretch of code between two suspension points.  A CommandQueue object is *)
(* an element of Qids: the registry forgets an object the moment it pops it *)
(* from _queues, while its worker task may still be winding down, and the   *)
(* next _ensure creates a different object for the same transport key.      *)
(***************************************************************************)
EXTENDS Integers, Sequences, FiniteSets

CONSTANTS
  Entries,    \* config entries
  Endpoints,  \* physical links: host:port of a bridge, or a serial port
  PortNames,  \* serial ports without a path, which are called by a name (COM3)
  Calls,      \* invocations of run_on_bus, each made at most once
  Req,        \* Req[c]: what the invocation c asks for
  Qids,       \* identities of CommandQueue objects
  NoEntry, NoCall, NoQueue, NoKey   \* "None" of each kind

PRIORITY_USER == 0
PRIORITY_POLL == 1

TcpSchemes    == {"tcp", "pi18", "modbus", "agent"}
SerialSchemes == {"bare", "serial", "pi18-serial"}
EybondSchemes == {"eybond", "eybond-pi18", "eybond-modbus"}
URIs == [scheme : TcpSchemes \cup SerialSchemes \cup EybondSchemes,
         endpoint : Endpoints]

BusModes == {"serialized", "concurrent_writes"}

\* `after` names the invocation whose outcome the caller awaited before this one
\* (the second attempt of a poll, the next command of a cycle, the confirming
\* read of a set); NoCall for the first invocation of a task.
Requests == [entry : Entries, uri : URIs, mode : BusModes,
             prio : {PRIORITY_USER, PRIORITY_POLL}, after : Calls \cup {NoCall}]

\* A URI with a scheme and a port's name has no path in urlparse's eyes.
NoPath(uri) == uri.scheme \in {"serial", "pi18-serial"} /\ uri.endpoint \in PortNames

\* transport_key: the identity of the queue a URI is served by.  Without a path it is
\* the whole URI, which differs from the bare name of the same port.
TransportKey(uri) ==
  CASE NoPath(uri)                                 -> <<"serial", uri>>
    [] uri.scheme \in SerialSchemes /\ ~NoPath(uri) -> <<"serial", uri.endpoint>>
    [] uri.scheme \in EybondSchemes                -> <<"eybond", uri.endpoint>>
    [] uri.scheme \in TcpSchemes                   -> <<uri.scheme, uri.endpoint>>

Keys == {TransportKey(u) : u \in URIs}

is_tcp_transport(uri) == uri.scheme \in TcpSchemes

\* Mutant: concurrent_writes applies to every transport.
Bypass_AnyTransport(c) ==
  \/ Req[c].uri.scheme \in EybondSchemes
  \/ Req[c].mode = "concurrent_writes" /\ Req[c].prio = PRIORITY_USER

\* run_on_bus calls fn directly instead of queueing it.
Bypass(c) ==
  \/ Req[c].uri.scheme \in EybondSchemes
  \/ /\ Req[c].mode = "concurrent_writes"
     /\ Req[c].prio = PRIORITY_USER
     /\ is_tcp_transport(Req[c].uri)

KeyOf(c) == TransportKey(Req[c].uri)

ASSUME CallAssumption == Req \in [Calls -> Requests]
ASSUME EntryAssumption == IsFiniteSet(Entries)
ASSUME NoneAssumption == /\ NoEntry \notin Entries
                         /\ NoCall \notin Calls
                         /\ NoQueue \notin Qids
                         /\ NoKey \notin Keys

-----------------------------------------------------------------------------
VARIABLES
  phase,      \* phase[e]: life cycle of the config entry
  queues,     \* QueueRegistry._queues (NoQueue: key absent)
  refcount,   \* QueueRegistry._refcount (0: key absent)
  owned,      \* QueueRegistry._entry_keys
  waiters,    \* tasks waiting for QueueRegistry._ensure_lock, first come first
  holder,     \* the entry whose release_entry holds _ensure_lock
  todo,       \* keys that release_entry's loop has not reached
  stopping,   \* the queue whose stop() release_entry is awaiting
  qkey,       \* the key a queue object was created for
  wstate,     \* where the queue's worker task stands
  cancelled,  \* the worker task has been cancelled by stop()
  pending,    \* contents of the queue's PriorityQueue
  current,    \* the call whose fn the worker is awaiting
  nextSeq,    \* the queue's itertools.count
  seq,        \* the sequence number a call was queued under
  caller      \* where the task that made the call stands

entryVars  == <<phase>>
regVars    == <<queues, refcount, owned>>
relVars    == <<waiters, holder, todo, stopping>>
workerVars == <<qkey, wstate, cancelled, pending, current, nextSeq>>
callVars   == <<seq, caller>>
vars == <<phase, queues, refcount, owned, waiters, holder, todo, stopping,
          qkey, wstate, cancelled, pending, current, nextSeq, seq, caller>>

Phases       == {"unloaded", "setup", "setup_retry", "loaded", "unloading"}
WorkerStates == {"unborn", "getting", "running", "sleeping", "ended"}
CallerStates == {"idle", "locking", "awaiting", "direct",
                 "answered", "failed", "cancelled"}

TypeOK ==
  /\ phase \in [Entries -> Phases]
  /\ queues \in [Keys -> Qids \cup {NoQueue}]
  /\ refcount \in [Keys -> Nat]
  /\ owned \in [Entries -> SUBSET Keys]
  /\ waiters \in Seq(Calls \cup Entries)
  /\ holder \in Entries \cup {NoEntry}
  /\ todo \in SUBSET Keys
  /\ stopping \in Qids \cup {NoQueue}
  /\ qkey \in [Qids -> Keys \cup {NoKey}]
  /\ wstate \in [Qids -> WorkerStates]
  /\ cancelled \in [Qids -> BOOLEAN]
  /\ pending \in [Qids -> SUBSET Calls]
  /\ current \in [Qids -> Calls \cup {NoCall}]
  /\ nextSeq \in [Qids -> Nat]
  /\ seq \in [Calls -> Nat]
  /\ caller \in [Calls -> CallerStates]

Init ==
  /\ phase = [e \in Entries |-> "unloaded"]
  /\ queues = [k \in Keys |-> NoQueue]
  /\ refcount = [k \in Keys |-> 0]
  /\ owned = [e \in Entries |-> {}]
  /\ waiters = <<>>
  /\ holder = NoEntry
  /\ todo = {}
  /\ stopping = NoQueue
  /\ qkey = [q \in Qids |-> NoKey]
  /\ wstate = [q \in Qids |-> "unborn"]
  /\ cancelled = [q \in Qids |-> FALSE]
  /\ pending = [q \in Qids |-> {}]
  /\ current = [q \in Qids |-> NoCall]
  /\ nextSeq = [q \in Qids |-> 0]
  /\ seq = [c \in Calls |-> 0]
  /\ caller = [c \in Calls |-> "idle"]

-----------------------------------------------------------------------------
(* Config-entry life cycle (async_setup_entry, async_unload_entry).         *)

Setup(e) ==
  /\ phase[e] \in {"unloaded", "setup_retry"}
  /\ phase' = [phase EXCEPT ![e] = "setup"]
  /\ UNCHANGED <<regVars, relVars, workerVars, callVars>>

SetupDone(e) ==
  /\ phase[e] = "setup"
  /\ phase' = [phase EXCEPT ![e] = "loaded"]
  /\ UNCHANGED <<regVars, relVars, workerVars, callVars>>

\* The first refresh raises: Home Assistant does not call async_unload_entry
\* for an entry whose setup failed, so nothing is released.
SetupFails(e) ==
  /\ phase[e] = "setup"
  /\ phase' = [phase EXCEPT ![e] = "setup_retry"]
  /\ UNCHANGED <<regVars, relVars, workerVars, callVars>>

\* async_unload_platforms; release_entry is about to ask for _ensure_lock.
BeginUnload(e) ==
  /\ phase[e] = "loaded"
  /\ phase' = [phase EXCEPT ![e] = "unloading"]
  /\ UNCHANGED <<regVars, relVars, workerVars, callVars>>

(* asyncio.Lock: a task gets _ensure_lock at once when it is free and nobody   *)
(* waits, otherwise it joins the line.  _ensure never suspends while it holds   *)
(* the lock, so the only task ever seen holding it is a release_entry.          *)
LockFree == holder = NoEntry
AtOnce   == LockFree /\ waiters = <<>>
Woken(t) == LockFree /\ waiters # <<>> /\ Head(waiters) = t
InLockLine(t) == \E i \in 1..Len(waiters) : waiters[i] = t

\* release_entry asks for the lock and has to wait.
ReleaseWaits(e) ==
  /\ phase[e] = "unloading"
  /\ holder # e
  /\ ~InLockLine(e)
  /\ ~AtOnce
  /\ waiters' = Append(waiters, e)
  /\ UNCHANGED <<phase, regVars, holder, todo, stopping, workerVars, callVars>>

\* release_entry gets the lock and pops the entry's key set.
ReleaseBegin(e) ==
  /\ phase[e] = "unloading"
  /\ \/ AtOnce /\ UNCHANGED waiters
     \/ Woken(e) /\ waiters' = Tail(waiters)
  /\ holder' = e
  /\ todo' = owned[e]
  /\ owned' = [owned EXCEPT ![e] = {}]
  /\ UNCHANGED <<phase, queues, refcount, stopping, workerVars, callVars>>

\* Mutant: the first release of a shared key stops its queue.
LastOwner_AnyOwner(k) == TRUE

\* left <= 0 in release_entry.
LastOwner(k) == refcount[k] <= 1

Cancel(q) == [cancelled EXCEPT ![q] = TRUE]

\* One iteration of release_entry's loop: the last owner pops the queue and
\* enters its stop(), which cancels the worker and then awaits it.
ReleaseKey(k) ==
  /\ holder # NoEntry
  /\ stopping = NoQueue
  /\ k \in todo
  /\ todo' = todo \ {k}
  /\ IF LastOwner(k)
       THEN /\ refcount' = [refcount EXCEPT ![k] = 0]
            /\ queues' = [queues EXCEPT ![k] = NoQueue]
            /\ stopping' = queues[k]
            /\ cancelled' = IF queues[k] = NoQueue THEN cancelled
                                                   ELSE Cancel(queues[k])
       ELSE /\ refcount' = [refcount EXCEPT ![k] = @ - 1]
            /\ UNCHANGED <<queues, stopping, cancelled>>
  /\ UNCHANGED <<phase, owned, waiters, holder, qkey, wstate, pending, current,
                 nextSeq, callVars>>

\* Mutant: stop() cancels the worker task and does not await it.
StopReturns_NoAwait ==
  /\ stopping # NoQueue
  /\ stopping' = NoQueue
  /\ UNCHANGED <<phase, regVars, waiters, holder, todo, workerVars, callVars>>

\* stop() returns once the cancelled worker task has ended.
StopReturns ==
  /\ stopping # NoQueue
  /\ wstate[stopping] = "ended"
  /\ stopping' = NoQueue
  /\ UNCHANGED <<phase, regVars, waiters, holder, todo, workerVars, callVars>>

ReleaseEnd ==
  /\ holder # NoEntry
  /\ todo = {}
  /\ stopping = NoQueue
  /\ holder' = NoEntry
  /\ phase' = [phase EXCEPT ![holder] = "unloaded"]
  /\ UNCHANGED <<regVars, waiters, todo, stopping, workerVars, callVars>>

-----------------------------------------------------------------------------
(* Callers: run_on_bus, QueueRegistry.enqueue and CommandQueue.enqueue.     *)

\* A task starts a call while its entry is set up, and goes on to the next call
\* of the same task once the previous one returned, whatever became of the entry.
MayCall(c) ==
  LET prev == Req[c].after
  IN  IF prev = NoCall THEN phase[Req[c].entry] \in {"setup", "loaded"}
                       ELSE caller[prev] \in {"answered", "failed"}

\* run_on_bus calls fn itself.
RunDirect(c) ==
  /\ caller[c] = "idle"
  /\ MayCall(c)
  /\ Bypass(c)
  /\ caller' = [caller EXCEPT ![c] = "direct"]
  /\ UNCHANGED <<phase, regVars, relVars, workerVars, seq>>

\* fn, called by run_on_bus itself, returns or raises.
DirectReturns(c, outcome) ==
  /\ caller[c] = "direct"
  /\ caller' = [caller EXCEPT ![c] = outcome]
  /\ UNCHANGED <<phase, regVars, relVars, workerVars, seq>>

\* _ensure has to wait for the lock.
EnsureWaits(c) ==
  /\ caller[c] = "idle"
  /\ MayCall(c)
  /\ ~Bypass(c)
  /\ ~AtOnce
  /\ caller' = [caller EXCEPT ![c] = "locking"]
  /\ waiters' = Append(waiters, c)
  /\ UNCHANGED <<phase, regVars, holder, todo, stopping, workerVars, seq>>

\* _ensure gets the lock.
EnsureLocks(c) ==
  \/ /\ caller[c] = "idle"
     /\ MayCall(c)
     /\ ~Bypass(c)
     /\ AtOnce
     /\ UNCHANGED waiters
  \/ /\ caller[c] = "locking"
     /\ Woken(c)
     /\ waiters' = Tail(waiters)

\* Mutant: only the entry that creates the queue is counted.
Owned_CreatorOnly(e, k) ==
  /\ owned' = [owned EXCEPT ![e] = @ \cup {k}]
  /\ refcount' = [refcount EXCEPT ![k] = IF queues[k] = NoQueue THEN @ + 1 ELSE @]

\* The second half of _ensure: the first use of a key by an entry counts.
Owned(e, k) ==
  IF k \in owned[e]
    THEN UNCHANGED <<owned, refcount>>
    ELSE /\ owned' = [owned EXCEPT ![e] = @ \cup {k}]
         /\ refcount' = [refcount EXCEPT ![k] = @ + 1]

\* put_nowait of (priority, seq, fn, fut) on the queue q.
Put(c, q) ==
  /\ pending' = [pending EXCEPT ![q] = @ \cup {c}]
  /\ seq' = [seq EXCEPT ![c] = nextSeq[q]]
  /\ nextSeq' = [nextSeq EXCEPT ![q] = @ + 1]
  /\ caller' = [caller EXCEPT ![c] = "awaiting"]

\* _ensure finds the queue of the key under the lock; nothing suspends between
\* there and the put.
EnqueueExisting(c) ==
  /\ EnsureLocks(c)
  /\ queues[KeyOf(c)] # NoQueue
  /\ Owned(Req[c].entry, KeyOf(c))
  /\ Put(c, queues[KeyOf(c)])
  /\ UNCHANGED <<phase, queues, holder, todo, stopping, qkey, wstate, cancelled,
                 current>>

Unborn == {q \in Qids : wstate[q] = "unborn"}

\* _ensure creates and starts a queue for the key.
EnqueueNew(c) ==
  LET q == CHOOSE q \in Unborn : TRUE
  IN  /\ EnsureLocks(c)
      /\ queues[KeyOf(c)] = NoQueue
      /\ Unborn # {}
      /\ queues' = [queues EXCEPT ![KeyOf(c)] = q]
      /\ qkey' = [qkey EXCEPT ![q] = KeyOf(c)]
      /\ wstate' = [wstate EXCEPT ![q] = "getting"]
      /\ Owned(Req[c].entry, KeyOf(c))
      /\ Put(c, q)
      /\ UNCHANGED <<phase, holder, todo, stopping, cancelled, current>>

\* A timeout above the caller (the 25 s device bound, the 120 s cycle bound)
\* cancels its task.  A queued or running fn stays where it is.
CallerCancelled(c) ==
  /\ caller[c] \in {"awaiting", "direct"}
  /\ caller' = [caller EXCEPT ![c] = "cancelled"]
  /\ UNCHANGED <<phase, regVars, relVars, workerVars, seq>>

\* The task is cancelled while it waits for the lock and leaves the line.
WaiterCancelled(c) ==
  /\ caller[c] = "locking"
  /\ \E i \in 1..Len(waiters) :
        /\ waiters[i] = c
        /\ waiters' = SubSeq(waiters, 1, i - 1) \o SubSeq(waiters, i + 1, Len(waiters))
  /\ caller' = [caller EXCEPT ![c] = "cancelled"]
  /\ UNCHANGED <<phase, regVars, holder, todo, stopping, workerVars, seq>>

-----------------------------------------------------------------------------
(* The worker task of a queue (CommandQueue._worker).                       *)

\* Mutant: the greater priority number first.
Precedes_PollFirst(c, d) ==
  \/ Req[c].prio > Req[d].prio
  \/ Req[c].prio = Req[d].prio /\ seq[c] < seq[d]

\* Order of the PriorityQueue's (priority, seq, ...) tuples.
Precedes(c, d) ==
  \/ Req[c].prio < Req[d].prio
  \/ Req[c].prio = Req[d].prio /\ seq[c] < seq[d]

\* get() returns the least item and the worker starts its fn, even when the
\* future nobody awaits any more is already cancelled.
Take(q, c) ==
  /\ wstate[q] = "getting"
  /\ ~cancelled[q]
  /\ c \in pending[q]
  /\ \A d \in pending[q] \ {c} : Precedes(c, d)
  /\ pending' = [pending EXCEPT ![q] = @ \ {c}]
  /\ current' = [current EXCEPT ![q] = c]
  /\ wstate' = [wstate EXCEPT ![q] = "running"]
  /\ UNCHANGED <<phase, regVars, relVars, qkey, cancelled, nextSeq, callVars>>

\* set_result / set_exception on the call's future, unless it is done already.
Resolve(c, outcome) ==
  IF caller[c] = "awaiting" THEN [caller EXCEPT ![c] = outcome] ELSE caller

\* Mutant: an exception out of fn ends the worker task.
FnReturns_Dies(q, outcome) ==
  /\ wstate[q] = "running"
  /\ ~cancelled[q]
  /\ caller' = Resolve(current[q], outcome)
  /\ current' = [current EXCEPT ![q] = NoCall]
  /\ wstate' = [wstate EXCEPT ![q] = IF outcome = "failed" THEN "ended"
                                                           ELSE "sleeping"]
  /\ UNCHANGED <<phase, regVars, relVars, qkey, cancelled, pending, nextSeq, seq>>

\* fn returns or raises; the worker goes into the min_delay sleep.
FnReturns(q, outcome) ==
  /\ wstate[q] = "running"
  /\ ~cancelled[q]
  /\ caller' = Resolve(current[q], outcome)
  /\ current' = [current EXCEPT ![q] = NoCall]
  /\ wstate' = [wstate EXCEPT ![q] = "sleeping"]
  /\ UNCHANGED <<phase, regVars, relVars, qkey, cancelled, pending, nextSeq, seq>>

\* Mutant: the CancelledError is handled like any other exception of fn.
FnCancelled_Swallowed(q) ==
  /\ wstate[q] = "running"
  /\ cancelled[q]
  /\ current' = [current EXCEPT ![q] = NoCall]
  /\ wstate' = [wstate EXCEPT ![q] = "sleeping"]
  /\ cancelled' = [cancelled EXCEPT ![q] = FALSE]
  /\ UNCHANGED <<phase, regVars, relVars, qkey, pending, nextSeq, callVars>>

\* CancelledError unwinds fn.  It is not an Exception: the future of the call
\* stays unresolved, and the finally clause still sleeps min_delay.
FnCancelled(q) ==
  /\ wstate[q] = "running"
  /\ cancelled[q]
  /\ current' = [current EXCEPT ![q] = NoCall]
  /\ wstate' = [wstate EXCEPT ![q] = "sleeping"]
  /\ UNCHANGED <<phase, regVars, relVars, qkey, cancelled, pending, nextSeq,
                 callVars>>

\* End of the min_delay sleep.
Wakes(q) ==
  /\ wstate[q] = "sleeping"
  /\ ~cancelled[q]
  /\ wstate' = [wstate EXCEPT ![q] = "getting"]
  /\ UNCHANGED <<phase, regVars, relVars, qkey, cancelled, pending, current,
                 nextSeq, callVars>>

\* The cancelled worker leaves get(), or the sleep, for good.
WorkerEnds(q) ==
  /\ wstate[q] \in {"getting", "sleeping"}
  /\ cancelled[q]
  /\ wstate' = [wstate EXCEPT ![q] = "ended"]
  /\ UNCHANGED <<phase, regVars, relVars, qkey, cancelled, pending, current,
                 nextSeq, callVars>>

-----------------------------------------------------------------------------
Outcomes == {"answered", "failed"}

Lifecycle(e) == \/ Setup(e) \/ SetupDone(e) \/ SetupFails(e) \/ BeginUnload(e)
                \/ ReleaseWaits(e) \/ ReleaseBegin(e)

Release == (\E k \in Keys : ReleaseKey(k)) \/ StopReturns \/ ReleaseEnd

Caller(c) == \/ RunDirect(c) \/ EnsureWaits(c)
             \/ EnqueueExisting(c) \/ EnqueueNew(c)
             \/ CallerCancelled(c) \/ WaiterCancelled(c)
             \/ \E o \in Outcomes : DirectReturns(c, o)

Worker(q) == \/ \E c \in Calls : Take(q, c)
             \/ \E o \in Outcomes : FnReturns(q, o)
             \/ FnCancelled(q) \/ Wakes(q) \/ WorkerEnds(q)

Next == \/ \E e \in Entries : Lifecycle(e)
        \/ Release
        \/ \E c \in Calls : Caller(c)
        \/ \E q \in Qids : Worker(q)

Spec == Init /\ [][Next]_vars

\* What the event loop and the transports guarantee: a task that can go on does,
\* and every fn is bounded by a transport timeout.  Nothing is assumed of new
\* calls, cancellations, set-ups and the start of an unload.
Fairness ==
  /\ WF_vars(Release)
  /\ \A q \in Qids : WF_vars(Worker(q))
  /\ \A c \in Calls :
       WF_vars(caller[c] = "locking" /\ (EnqueueExisting(c) \/ EnqueueNew(c)))
  /\ \A e \in Entries : WF_vars(ReleaseWaits(e) \/ ReleaseBegin(e))

FairSpec == Spec /\ Fairness

-----------------------------------------------------------------------------
(* Properties.                                                              *)

\* fn of the call c is in progress.
Executing(c) == caller[c] = "direct" \/ \E q \in Qids : current[q] = c

\* Commands that go through a queue never overlap on one transport key, also
\* not across a release that stops the key's worker and a new queue for the key:
\* release_entry holds _ensure_lock until the old worker has ended.
OneCommandPerKey ==
  \A c, d \in Calls :
    /\ Executing(c) /\ Executing(d)
    /\ ~Bypass(c) /\ ~Bypass(d)
    /\ KeyOf(c) = KeyOf(d)
    => c = d

\* The entries that count for a key: those that own it, and the one whose
\* release has popped its key set and not reached the key yet.
Owners(k) == {e \in Entries : k \in owned[e] \/ (e = holder /\ k \in todo)}

\* _refcount is the number of owners of a key, whatever the order of first uses,
\* repeated uses, releases and reloads.
RefcountExact == \A k \in Keys : refcount[k] = Cardinality(Owners(k))

\* A key owned by an entry has a queue in the registry whose worker is alive and
\* not being stopped: an unload of another entry that shares the endpoint leaves
\* it alone, so a command queued there reaches a worker.
OwnedIsServed ==
  \A e \in Entries : \A k \in owned[e] :
    /\ queues[k] # NoQueue
    /\ qkey[queues[k]] = k
    /\ ~cancelled[queues[k]]
    /\ wstate[queues[k]] \in {"getting", "running", "sleeping"}

\* Two URIs are of one serial port, given by its path in any form, or by its name in
\* the same form.  For one name in two forms transport_key has two queues.
OneSerialPort(u, w) ==
  /\ u.scheme \in SerialSchemes /\ w.scheme \in SerialSchemes
  /\ u.endpoint = w.endpoint
  /\ u.endpoint \in PortNames => u.scheme = w.scheme

\* The bus-mode documentation: serial transports stay serialized whatever the mode, so
\* no two commands are in progress on one serial port, unless it is called by its name
\* in two forms (COM3 and pi18-serial://COM3).
SerialPortsNeverOverlap ==
  \A c, d \in Calls :
    Executing(c) /\ Executing(d) /\ OneSerialPort(Req[c].uri, Req[d].uri) => c = d

\* The inductive invariant behind the four properties above: what a worker
\* task, the registry and a release in progress know of each other.
Live(q) == wstate[q] \in {"getting", "running", "sleeping"}

\* A worker runs only for the queue the registry lists for its key, or for the
\* one a release is waiting for; it holds commands of its own key only.
WorkerInv ==
  \A q \in Qids :
    /\ (wstate[q] = "unborn") <=> (qkey[q] = NoKey)
    /\ Live(q) => queues[qkey[q]] = q \/ stopping = q
    /\ cancelled[q] => stopping = q \/ wstate[q] = "ended"
    /\ current[q] # NoCall => wstate[q] = "running" /\ KeyOf(current[q]) = qkey[q]
    /\ \A c \in pending[q] : KeyOf(c) = qkey[q]

\* A listed queue is alive, serves its key and has an owner.
RegistryInv ==
  \A k \in Keys :
    /\ queues[k] # NoQueue => /\ qkey[queues[k]] = k
                             /\ ~cancelled[queues[k]]
                             /\ Live(queues[k])
    /\ queues[k] # NoQueue <=> Owners(k) # {}

\* The queue being stopped is no longer listed, nor is any other of its key.
ReleaseInv ==
  /\ holder = NoEntry => todo = {} /\ stopping = NoQueue
  /\ holder # NoEntry => owned[holder] = {}
  /\ stopping # NoQueue => /\ cancelled[stopping]
                          /\ qkey[stopping] \in Keys
                          /\ queues[qkey[stopping]] = NoQueue

DirectInv == \A c \in Calls : caller[c] = "direct" => Bypass(c)

\* Conjunction of the above with the types and the reference counts.
ServiceInv == /\ TypeOK /\ WorkerInv /\ RegistryInv /\ ReleaseInv /\ DirectInv
              /\ RefcountExact

\* Where a command is: it has been queued by a call that went to a queue, in one queue
\* at most, and a worker has taken it out before it runs it; the queue's counter is
\* ahead of every number it gave out; only a cancelled worker ends.
CallInv ==
  /\ \A q \in Qids :
       /\ wstate[q] = "ended" => cancelled[q]
       /\ wstate[q] = "running" => current[q] # NoCall
       /\ \A c \in pending[q] : /\ ~Bypass(c) /\ caller[c] \notin {"idle", "locking"}
                               /\ seq[c] < nextSeq[q]
       /\ current[q] # NoCall => /\ ~Bypass(current[q])
                                /\ caller[current[q]] \notin {"idle", "locking"}
  /\ \A q, r \in Qids :
       /\ current[r] \notin pending[q]
       /\ q # r => pending[q] \cap pending[r] = {}
       /\ q # r /\ current[q] # NoCall => current[q] # current[r]
  /\ \A c \in Calls : caller[c] = "locking" => ~Bypass(c)

QueueInv == ServiceInv /\ CallInv

\* A queued command is answered, unless its caller gives up or the queue is
\* stopped by an unload.
QueuedIsAnswered ==
  \A c \in Calls, q \in Qids :
    (c \in pending[q] /\ caller[c] = "awaiting")
      ~> (caller[c] # "awaiting" \/ cancelled[q])

\* An unload gets through: release_entry obtains the lock and every worker it
\* awaits ends.
UnloadFinishes ==
  \A e \in Entries : phase[e] = "unloading" ~> phase[e] # "unloading"

\* How a call looks to its users: waiting while its queue is in the registry, in
\* service while a worker awaits its fn, gone once served or dropped with its queue.
InLine(c) == \E q \in Qids : c \in pending[q] /\ ~cancelled[q]

QueuedCalls == {c \in Calls : ~Bypass(c)}

BusStatus ==
  [c \in QueuedCalls |->
     IF InLine(c) THEN "waiting"
     ELSE IF \E q \in Qids : current[q] = c THEN "serving"
     ELSE IF caller[c] \in {"idle", "locking"} THEN "new"
     ELSE "gone"]

BusBefore ==
  {p \in Calls \X Calls :
     \E q \in Qids : /\ ~cancelled[q]
                     /\ p[1] \in pending[q] /\ p[2] \in pending[q]
                     /\ seq[p[1]] < seq[p[2]]}

IsUserCall(c) == Req[c].prio = PRIORITY_USER

Bus == INSTANCE SerialBus
         WITH Jobs <- QueuedCalls,
              BusOf <- KeyOf,
              IsUser <- IsUserCall,
              status <- BusStatus,
              before <- BusBefore

\* The queues implement SerialBus: on each transport key, whatever the releases,
\* reloads, cancellations and failures, commands are served one at a time, at most
\* once, user commands first and in order of arrival.
ImplementsSerialBus == Bus!BusSpec

\* async_unload_entry's comment: the queues of an unloaded entry are released.
UnloadedOwnsNothing ==
  \A e \in Entries : phase[e] = "unloaded" => owned[e] = {}

\* The set-up test's comment: unloading drains the queue and leaves no task
\* behind.  A poll is bounded by its cycle's timeout; a user command has nothing
\* but the future of its queue entry to wait for, so that has to be resolved.
EveryCallerReturns ==
  \A c \in Calls : Req[c].prio = PRIORITY_USER =>
    (caller[c] = "awaiting" ~> caller[c] # "awaiting")

=============================================================================
