------------------------- MODULE CommandQueueProofs -------------------------
(***************************************************************************)
(* Proofs about CommandQueue for any set of calls, transports and queue     *)
(* objects and any finite set of config entries.                            *)
(***************************************************************************)
EXTENDS CommandQueue, FiniteSetTheorems, TLAPS

-----------------------------------------------------------------------------
(* Facts about the constants.                                               *)

\* Every call has a transport key, an entry and well-formed fields.
LEMMA CallFacts ==
  ASSUME NEW c \in Calls
  PROVE  /\ KeyOf(c) \in Keys
         /\ Req[c].entry \in Entries
         /\ Req[c].uri \in URIs
  BY CallAssumption DEF KeyOf, Keys, Requests

\* The object _ensure creates is a fresh one.
LEMMA FreshQueue ==
  Unborn # {} => (CHOOSE q \in Unborn : TRUE) \in Unborn
  OBVIOUS

\* Removing one task from the lock's line leaves a line of the same tasks.
LEMMA LeaveLine ==
  ASSUME NEW S, NEW w \in Seq(S), NEW i \in 1..Len(w)
  PROVE  SubSeq(w, 1, i - 1) \o SubSeq(w, i + 1, Len(w)) \in Seq(S)
  <1>1. SubSeq(w, 1, i - 1) \in Seq(S)
    OBVIOUS
  <1>2. SubSeq(w, i + 1, Len(w)) \in Seq(S)
    OBVIOUS
  <1>3. QED
    BY <1>1, <1>2

\* A task that gets the lock leaves a line of the same tasks.
LEMMA LineTail ==
  ASSUME NEW t, waiters \in Seq(Calls \cup Entries),
         \/ AtOnce /\ UNCHANGED waiters
         \/ Woken(t) /\ waiters' = Tail(waiters)
  PROVE  waiters' \in Seq(Calls \cup Entries)
  BY DEF AtOnce, Woken

\* _ensure's bookkeeping keeps its types.
LEMMA OwnedTypes ==
  ASSUME owned \in [Entries -> SUBSET Keys], refcount \in [Keys -> Nat],
         NEW e \in Entries, NEW k \in Keys, Owned(e, k)
  PROVE  /\ owned' \in [Entries -> SUBSET Keys]
         /\ refcount' \in [Keys -> Nat]
  <1>1. CASE k \in owned[e]
    BY <1>1 DEF Owned
  <1>2. CASE k \notin owned[e]
    <2>1. /\ owned' = [owned EXCEPT ![e] = @ \cup {k}]
          /\ refcount' = [refcount EXCEPT ![k] = @ + 1]
      BY <1>2 DEF Owned
    <2>2. QED
      BY <2>1
  <1>3. QED
    BY <1>1, <1>2

\* A put keeps the types of what it changes.
LEMMA PutTypes ==
  ASSUME TypeOK, NEW c \in Calls, NEW q \in Qids, Put(c, q)
  PROVE  /\ pending' \in [Qids -> SUBSET Calls]
         /\ seq' \in [Calls -> Nat]
         /\ nextSeq' \in [Qids -> Nat]
         /\ caller' \in [Calls -> CallerStates]
  BY DEF TypeOK, Put, CallerStates

-----------------------------------------------------------------------------
(* Types.                                                                   *)

LEMMA TypeInit == Init => TypeOK
  BY DEF Init, TypeOK, Phases, WorkerStates, CallerStates

LEMMA TypeLifecycle ==
  ASSUME TypeOK, NEW e \in Entries, Lifecycle(e)
  PROVE  TypeOK'
  <1> USE DEF TypeOK, regVars, relVars, workerVars, callVars, Phases
  <1>1. CASE Setup(e) \/ SetupDone(e) \/ SetupFails(e) \/ BeginUnload(e)
    BY <1>1 DEF Setup, SetupDone, SetupFails, BeginUnload
  <1>2. CASE ReleaseWaits(e)
    BY <1>2 DEF ReleaseWaits
  <1>3. CASE ReleaseBegin(e)
    <2>1. waiters' \in Seq(Calls \cup Entries)
      BY <1>3, LineTail DEF ReleaseBegin
    <2>2. QED
      BY <1>3, <2>1 DEF ReleaseBegin
  <1>4. QED
    BY <1>1, <1>2, <1>3 DEF Lifecycle

LEMMA TypeRelease ==
  ASSUME TypeOK, Release
  PROVE  TypeOK'
  <1> USE DEF TypeOK, regVars, relVars, workerVars, callVars
  <1>1. ASSUME NEW k \in Keys, ReleaseKey(k)
        PROVE  TypeOK'
    <2>1. refcount' \in [Keys -> Nat]
      <3>1. CASE LastOwner(k)
        BY <1>1, <3>1 DEF ReleaseKey
      <3>2. CASE ~LastOwner(k)
        <4>1. refcount' = [refcount EXCEPT ![k] = @ - 1] /\ refcount[k] - 1 \in Nat
          BY <1>1, <3>2 DEF ReleaseKey, LastOwner
        <4>2. QED
          BY <4>1
      <3>3. QED
        BY <3>1, <3>2
    <2>2. queues[k] # NoQueue => Cancel(queues[k]) \in [Qids -> BOOLEAN]
      BY DEF Cancel
    <2>3. QED
      BY <1>1, <2>1, <2>2 DEF ReleaseKey
  <1>2. CASE StopReturns
    BY <1>2 DEF StopReturns
  <1>3. CASE ReleaseEnd
    BY <1>3 DEF ReleaseEnd, Phases
  <1>4. QED
    BY <1>1, <1>2, <1>3 DEF Release

LEMMA TypeCaller ==
  ASSUME TypeOK, NEW c \in Calls, Caller(c)
  PROVE  TypeOK'
  <1> USE DEF TypeOK, regVars, relVars, workerVars, callVars, CallerStates
  <1>1. CASE RunDirect(c)
    BY <1>1 DEF RunDirect
  <1>2. CASE EnsureWaits(c)
    BY <1>2 DEF EnsureWaits
  <1>3. CASE EnqueueExisting(c)
    <2>1. waiters' \in Seq(Calls \cup Entries)
      BY <1>3, LineTail DEF EnqueueExisting, EnsureLocks
    <2>2. /\ owned' \in [Entries -> SUBSET Keys]
          /\ refcount' \in [Keys -> Nat]
      BY <1>3, CallFacts, OwnedTypes DEF EnqueueExisting
    <2>3. queues[KeyOf(c)] \in Qids
      BY <1>3, CallFacts DEF EnqueueExisting
    <2>4. QED
      BY <1>3, <2>1, <2>2, <2>3, PutTypes DEF EnqueueExisting
  <1>4. CASE EnqueueNew(c)
    <2> DEFINE q == CHOOSE q \in Unborn : TRUE
    <2>1. q \in Qids
      BY <1>4, FreshQueue DEF EnqueueNew, Unborn
    <2> HIDE DEF q
    <2>2. /\ EnsureLocks(c)
          /\ queues' = [queues EXCEPT ![KeyOf(c)] = q]
          /\ qkey' = [qkey EXCEPT ![q] = KeyOf(c)]
          /\ wstate' = [wstate EXCEPT ![q] = "getting"]
          /\ Owned(Req[c].entry, KeyOf(c))
          /\ Put(c, q)
          /\ UNCHANGED <<phase, holder, todo, stopping, cancelled, current>>
      BY <1>4 DEF EnqueueNew, q
    <2>3. waiters' \in Seq(Calls \cup Entries)
      BY <2>2, LineTail DEF EnsureLocks
    <2>4. /\ owned' \in [Entries -> SUBSET Keys]
          /\ refcount' \in [Keys -> Nat]
      BY <2>2, CallFacts, OwnedTypes
    <2>5. /\ pending' \in [Qids -> SUBSET Calls]
          /\ seq' \in [Calls -> Nat]
          /\ nextSeq' \in [Qids -> Nat]
          /\ caller' \in [Calls -> CallerStates]
      BY <2>1, <2>2, PutTypes
    <2>6. /\ queues' \in [Keys -> Qids \cup {NoQueue}]
          /\ qkey' \in [Qids -> Keys \cup {NoKey}]
          /\ wstate' \in [Qids -> WorkerStates]
      BY <2>1, <2>2, CallFacts DEF WorkerStates
    <2>7. QED
      BY <2>2, <2>3, <2>4, <2>5, <2>6
  <1>5. CASE CallerCancelled(c)
    BY <1>5 DEF CallerCancelled
  <1>6. CASE WaiterCancelled(c)
    <2>1. waiters' \in Seq(Calls \cup Entries)
      BY <1>6, LeaveLine DEF WaiterCancelled
    <2>2. QED
      BY <1>6, <2>1 DEF WaiterCancelled
  <1>7. ASSUME NEW o \in Outcomes, DirectReturns(c, o)
        PROVE  TypeOK'
    BY <1>7 DEF DirectReturns, Outcomes
  <1>8. QED
    BY <1>1, <1>2, <1>3, <1>4, <1>5, <1>6, <1>7 DEF Caller

LEMMA TypeWorker ==
  ASSUME TypeOK, NEW q \in Qids, Worker(q)
  PROVE  TypeOK'
  <1> USE DEF TypeOK, regVars, relVars, workerVars, callVars, WorkerStates
  <1>1. ASSUME NEW c \in Calls, Take(q, c)
        PROVE  TypeOK'
    BY <1>1 DEF Take
  <1>2. ASSUME NEW o \in Outcomes, FnReturns(q, o)
        PROVE  TypeOK'
    BY <1>2 DEF FnReturns, Resolve, Outcomes, CallerStates
  <1>3. CASE FnCancelled(q) \/ Wakes(q) \/ WorkerEnds(q)
    BY <1>3 DEF FnCancelled, Wakes, WorkerEnds
  <1>4. QED
    BY <1>1, <1>2, <1>3 DEF Worker

LEMMA TypeStep == TypeOK /\ [Next]_vars => TypeOK'
  <1> SUFFICES ASSUME TypeOK, [Next]_vars PROVE TypeOK'
    OBVIOUS
  <1>1. CASE UNCHANGED vars
    BY <1>1 DEF TypeOK, vars
  <1>2. CASE Next
    BY <1>2, TypeLifecycle, TypeRelease, TypeCaller, TypeWorker DEF Next
  <1>3. QED
    BY <1>1, <1>2

\* The variables of the command queues keep their types, for every set of calls
\* and every interleaving of callers, workers and unloads.
THEOREM TypeCorrect == Spec => []TypeOK
  BY TypeInit, TypeStep, PTL DEF Spec

-----------------------------------------------------------------------------
(* The inductive invariant.                                                 *)

LEMMA InvInit == Init => ServiceInv
  <1> SUFFICES ASSUME Init PROVE ServiceInv
    OBVIOUS
  <1>1. TypeOK
    BY TypeInit
  <1>2. \A k \in Keys : Owners(k) = {}
    BY DEF Init, Owners
  <1>3. RefcountExact
    BY <1>2, FS_EmptySet DEF RefcountExact, Init
  <1>4. WorkerInv /\ ReleaseInv /\ DirectInv
    BY DEF Init, WorkerInv, ReleaseInv, DirectInv, Live
  <1>5. RegistryInv
    BY <1>2 DEF Init, RegistryInv
  <1>6. QED
    BY <1>1, <1>3, <1>4, <1>5 DEF ServiceInv

\* Owners and reference counts change only with the ownership variables.
LEMMA SameOwners ==
  ASSUME UNCHANGED <<owned, holder, todo>>
  PROVE  \A k : Owners(k)' = Owners(k)
  BY DEF Owners

LEMMA InvLifecycle ==
  ASSUME ServiceInv, NEW e \in Entries, Lifecycle(e)
  PROVE  ServiceInv'
  <1> USE DEF regVars, relVars, workerVars, callVars
  <1>t. TypeOK'
    BY TypeLifecycle DEF ServiceInv
  <1>1. CASE \/ Setup(e) \/ SetupDone(e) \/ SetupFails(e) \/ BeginUnload(e)
             \/ ReleaseWaits(e)
    <2>1. UNCHANGED <<queues, refcount, owned, holder, todo, stopping, qkey, wstate,
                      cancelled, pending, current, caller>>
      BY <1>1 DEF Setup, SetupDone, SetupFails, BeginUnload, ReleaseWaits
    <2>2. \A k : Owners(k)' = Owners(k)
      BY <2>1, SameOwners
    <2>3. WorkerInv' /\ ReleaseInv' /\ DirectInv'
      BY <2>1 DEF ServiceInv, WorkerInv, ReleaseInv, DirectInv, Live
    <2>4. RegistryInv' /\ RefcountExact'
      BY <2>1, <2>2 DEF ServiceInv, RegistryInv, RefcountExact, Live
    <2>5. QED
      BY <1>t, <2>3, <2>4 DEF ServiceInv
  <1>2. CASE ReleaseBegin(e)
    <2>1. /\ holder = NoEntry /\ holder' = e
          /\ todo' = owned[e]
          /\ owned' = [owned EXCEPT ![e] = {}]
          /\ UNCHANGED <<queues, refcount, stopping, qkey, wstate, cancelled,
                         pending, current, caller>>
      BY <1>2 DEF ReleaseBegin, AtOnce, Woken, LockFree
    <2>2. todo = {} /\ stopping = NoQueue
      BY <2>1 DEF ServiceInv, ReleaseInv
    <2>3. \A k : Owners(k)' = Owners(k)
      BY <2>1, <2>2 DEF Owners, ServiceInv, TypeOK
    <2>4. WorkerInv' /\ DirectInv'
      BY <2>1 DEF ServiceInv, WorkerInv, DirectInv, Live
    <2>5. ReleaseInv'
      BY <2>1, <2>2, NoneAssumption DEF ServiceInv, ReleaseInv, TypeOK
    <2>6. RegistryInv' /\ RefcountExact'
      BY <2>1, <2>3 DEF ServiceInv, RegistryInv, RefcountExact, Live
    <2>7. QED
      BY <1>t, <2>4, <2>5, <2>6 DEF ServiceInv
  <1>3. QED
    BY <1>1, <1>2 DEF Lifecycle

LEMMA InvWorker ==
  ASSUME ServiceInv, NEW q \in Qids, Worker(q)
  PROVE  ServiceInv'
  <1> USE DEF regVars, relVars, workerVars, callVars
  <1>t. TypeOK'
    BY TypeWorker DEF ServiceInv
  <1>f. UNCHANGED <<queues, refcount, owned, holder, todo, stopping, qkey, cancelled>>
    BY DEF Worker, Take, FnReturns, FnCancelled, Wakes, WorkerEnds
  <1>o. \A k : Owners(k)' = Owners(k)
    BY <1>f, SameOwners
  <1>1. RefcountExact' /\ ReleaseInv'
    BY <1>f, <1>o DEF ServiceInv, RefcountExact, ReleaseInv
  <1>2. DirectInv'
    <2>1. \A c \in Calls : caller'[c] = "direct" => caller[c] = "direct"
      BY DEF Worker, Take, FnReturns, FnCancelled, Wakes, WorkerEnds, Resolve,
             Outcomes, ServiceInv, TypeOK
    <2>2. QED
      BY <2>1 DEF ServiceInv, DirectInv
  <1>3. \A p \in Qids : Live(p) => Live(p)' \/ cancelled[p]
    BY DEF Worker, Take, FnReturns, FnCancelled, Wakes, WorkerEnds, Live,
           ServiceInv, TypeOK
  <1>4. RegistryInv'
    BY <1>f, <1>o, <1>3 DEF ServiceInv, RegistryInv, TypeOK
  <1>5. WorkerInv'
    <2>1. \A p \in Qids : (wstate'[p] = "unborn") <=> (wstate[p] = "unborn")
      BY DEF Worker, Take, FnReturns, FnCancelled, Wakes, WorkerEnds,
             ServiceInv, TypeOK
    <2>2. \A p \in Qids : Live(p)' => Live(p)
      BY DEF Worker, Take, FnReturns, FnCancelled, Wakes, WorkerEnds, Live,
             ServiceInv, TypeOK
    <2>3. \A p \in Qids : wstate[p] = "ended" => wstate'[p] = "ended"
      BY DEF Worker, Take, FnReturns, FnCancelled, Wakes, WorkerEnds,
             ServiceInv, TypeOK
    <2>4. /\ \A p \in Qids : current'[p] # NoCall =>
               wstate'[p] = "running" /\ KeyOf(current'[p]) = qkey[p]
          /\ \A p \in Qids : pending'[p] \subseteq pending[p]
      <3> DEFINE Goal == /\ \A p \in Qids : current'[p] # NoCall =>
                              wstate'[p] = "running" /\ KeyOf(current'[p]) = qkey[p]
                         /\ \A p \in Qids : pending'[p] \subseteq pending[p]
      <3>1. /\ \A p \in Qids : current[p] # NoCall =>
                 wstate[p] = "running" /\ KeyOf(current[p]) = qkey[p]
            /\ \A p \in Qids : \A c \in pending[p] : KeyOf(c) = qkey[p]
            /\ wstate \in [Qids -> WorkerStates]
            /\ pending \in [Qids -> SUBSET Calls]
            /\ current \in [Qids -> Calls \cup {NoCall}]
        BY DEF ServiceInv, WorkerInv, TypeOK
      <3>2. ASSUME NEW c \in Calls, Take(q, c)
            PROVE  Goal
        BY <3>1, <3>2 DEF Take
      <3>3. ASSUME NEW o \in Outcomes, FnReturns(q, o)
            PROVE  Goal
        BY <3>1, <3>3 DEF FnReturns
      <3>4. CASE FnCancelled(q)
        BY <3>1, <3>4 DEF FnCancelled
      <3>5. CASE Wakes(q)
        BY <3>1, <3>5 DEF Wakes
      <3>6. CASE WorkerEnds(q)
        BY <3>1, <3>6 DEF WorkerEnds
      <3>7. QED
        BY <3>2, <3>3, <3>4, <3>5, <3>6 DEF Worker
    <2>5. QED
      BY <1>f, <2>1, <2>2, <2>3, <2>4 DEF ServiceInv, WorkerInv
  <1>6. QED
    BY <1>t, <1>1, <1>2, <1>4, <1>5 DEF ServiceInv

LEMMA InvRelease ==
  ASSUME ServiceInv, Release
  PROVE  ServiceInv'
  <1> USE DEF regVars, relVars, workerVars, callVars
  <1>t. TypeOK'
    BY TypeRelease DEF ServiceInv
  <1>1. ASSUME NEW k \in Keys, ReleaseKey(k)
        PROVE  ServiceInv'
    <2>0. /\ holder \in Entries /\ stopping = NoQueue /\ k \in todo
          /\ owned[holder] = {}
          /\ todo' = todo \ {k}
          /\ UNCHANGED <<owned, holder, qkey, wstate, pending, current, caller>>
      BY <1>1 DEF ReleaseKey, ServiceInv, TypeOK, ReleaseInv
    <2>1. Owners(k)' = Owners(k) \ {holder} /\ holder \in Owners(k)
      BY <2>0 DEF Owners
    <2>2. \A j \in Keys \ {k} : Owners(j)' = Owners(j)
      BY <2>0 DEF Owners
    <2>3. IsFiniteSet(Owners(k)) /\ refcount[k] = Cardinality(Owners(k))
      BY EntryAssumption, FS_Subset DEF Owners, ServiceInv, RefcountExact
    <2>4. Cardinality(Owners(k)') = refcount[k] - 1 /\ IsFiniteSet(Owners(k)')
      BY <2>1, <2>3, FS_RemoveElement
    <2>5. queues[k] \in Qids /\ refcount[k] \in Nat
      BY <2>1 DEF ServiceInv, RegistryInv, TypeOK
    <2>6. CASE LastOwner(k)
      <3>1. /\ refcount' = [refcount EXCEPT ![k] = 0]
            /\ queues' = [queues EXCEPT ![k] = NoQueue]
            /\ stopping' = queues[k]
            /\ cancelled' = [cancelled EXCEPT ![queues[k]] = TRUE]
        BY <1>1, <2>5, <2>6, NoneAssumption DEF ReleaseKey, Cancel
      <3>2. Owners(k)' = {} /\ refcount[k] = 1
        <4>1. Cardinality(Owners(k)') \in Nat
          BY <2>4, FS_CardinalityType
        <4>2. refcount[k] = 1
          BY <2>4, <2>5, <2>6, <4>1 DEF LastOwner
        <4>3. QED
          BY <2>4, <4>2, FS_EmptySet
      <3>3. RefcountExact'
        BY <2>2, <3>1, <3>2, FS_EmptySet DEF RefcountExact, ServiceInv, TypeOK
      <3>4. qkey[queues[k]] = k
        BY <2>5, NoneAssumption DEF ServiceInv, RegistryInv
      <3>5. RegistryInv'
        <4> SUFFICES ASSUME NEW j \in Keys
                     PROVE  /\ queues'[j] # NoQueue => /\ qkey'[queues'[j]] = j
                                                      /\ ~cancelled'[queues'[j]]
                                                      /\ Live(queues[j])'
                            /\ queues'[j] # NoQueue <=> Owners(j)' # {}
          BY DEF RegistryInv
        <4>1. CASE j = k
          BY <3>1, <3>2, <4>1 DEF ServiceInv, TypeOK
        <4>2. CASE j # k
          <5>1. queues'[j] = queues[j] /\ Owners(j)' = Owners(j)
            BY <2>2, <3>1, <4>2 DEF ServiceInv, TypeOK
          <5>2. queues[j] # NoQueue => queues[j] # queues[k]
            BY <3>4, <4>2 DEF ServiceInv, RegistryInv
          <5>3. QED
            BY <2>0, <3>1, <5>1, <5>2 DEF ServiceInv, RegistryInv, TypeOK, Live
        <4>3. QED
          BY <4>1, <4>2
      <3>6. ReleaseInv'
        BY <2>0, <2>5, <3>1, <3>4, NoneAssumption DEF ReleaseInv, ServiceInv, TypeOK
      <3>7. WorkerInv'
        <4> SUFFICES ASSUME NEW p \in Qids
                     PROVE  /\ (wstate[p] = "unborn") <=> (qkey[p] = NoKey)
                            /\ Live(p) => queues'[qkey[p]] = p \/ stopping' = p
                            /\ cancelled'[p] => stopping' = p \/ wstate[p] = "ended"
                            /\ current[p] # NoCall =>
                                 wstate[p] = "running" /\ KeyOf(current[p]) = qkey[p]
                            /\ \A c \in pending[p] : KeyOf(c) = qkey[p]
          BY <2>0 DEF WorkerInv, Live
        <4>1. Live(p) => qkey[p] \in Keys
          BY DEF Live, ServiceInv, WorkerInv, TypeOK
        <4>2. Live(p) => queues'[qkey[p]] = p \/ stopping' = p
          BY <2>0, <3>1, <4>1, NoneAssumption DEF ServiceInv, WorkerInv, TypeOK
        <4>3. cancelled'[p] => stopping' = p \/ wstate[p] = "ended"
          BY <2>0, <3>1, NoneAssumption DEF ServiceInv, WorkerInv, TypeOK
        <4>4. QED
          BY <4>2, <4>3 DEF ServiceInv, WorkerInv
      <3>8. DirectInv'
        BY <2>0 DEF DirectInv, ServiceInv
      <3>9. QED
        BY <1>t, <3>3, <3>5, <3>6, <3>7, <3>8 DEF ServiceInv
    <2>7. CASE ~LastOwner(k)
      <3>1. /\ refcount' = [refcount EXCEPT ![k] = @ - 1]
            /\ UNCHANGED <<queues, stopping, cancelled>>
        BY <1>1, <2>7 DEF ReleaseKey
      <3>2. Owners(k)' # {}
        BY <2>4, <2>5, <2>7, FS_EmptySet DEF LastOwner
      <3>3. RefcountExact'
        BY <2>2, <2>4, <3>1 DEF RefcountExact, ServiceInv, TypeOK
      <3>4. RegistryInv'
        BY <2>0, <2>1, <2>2, <3>1, <3>2 DEF RegistryInv, ServiceInv, Live
      <3>5. ReleaseInv'
        BY <2>0, <3>1, NoneAssumption DEF ReleaseInv, ServiceInv, TypeOK
      <3>6. WorkerInv' /\ DirectInv'
        BY <2>0, <3>1 DEF WorkerInv, DirectInv, ServiceInv, Live
      <3>7. QED
        BY <1>t, <3>3, <3>4, <3>5, <3>6 DEF ServiceInv
    <2>8. QED
      BY <2>6, <2>7
  <1>2. CASE StopReturns
    <2>1. /\ stopping \in Qids /\ wstate[stopping] = "ended" /\ stopping' = NoQueue
          /\ UNCHANGED <<queues, refcount, owned, holder, todo, qkey, wstate,
                         cancelled, pending, current, caller>>
      BY <1>2 DEF StopReturns, ServiceInv, TypeOK
    <2>2. \A k : Owners(k)' = Owners(k)
      BY <2>1, SameOwners
    <2>3. RegistryInv' /\ RefcountExact' /\ DirectInv' /\ ReleaseInv'
      BY <2>1, <2>2
      DEF ServiceInv, RegistryInv, RefcountExact, DirectInv, ReleaseInv, Live
    <2>4. WorkerInv'
      BY <2>1 DEF ServiceInv, WorkerInv, Live
    <2>5. QED
      BY <1>t, <2>3, <2>4 DEF ServiceInv
  <1>3. CASE ReleaseEnd
    <2>1. /\ holder' = NoEntry /\ todo = {} /\ stopping = NoQueue
          /\ UNCHANGED <<queues, refcount, owned, todo, stopping, qkey, wstate,
                         cancelled, pending, current, caller>>
      BY <1>3 DEF ReleaseEnd
    <2>2. \A k : Owners(k)' = Owners(k)
      BY <2>1 DEF Owners
    <2>3. RegistryInv' /\ RefcountExact' /\ DirectInv' /\ ReleaseInv'
      BY <2>1, <2>2
      DEF ServiceInv, RegistryInv, RefcountExact, DirectInv, ReleaseInv, Live
    <2>4. WorkerInv'
      BY <2>1 DEF ServiceInv, WorkerInv, Live
    <2>5. QED
      BY <1>t, <2>3, <2>4 DEF ServiceInv
  <1>4. QED
    BY <1>1, <1>2, <1>3 DEF Release

\* Booking a key for an entry while nobody holds the lock.
LEMMA OwnedCounts ==
  ASSUME ServiceInv, holder = NoEntry, UNCHANGED <<holder, todo>>,
         NEW e \in Entries, NEW k \in Keys, Owned(e, k)
  PROVE  /\ Owners(k)' = Owners(k) \cup {e}
         /\ \A j \in Keys \ {k} : Owners(j)' = Owners(j)
         /\ RefcountExact'
         /\ \A j \in Keys \ {k} : refcount'[j] = refcount[j]
  <1>0. /\ owned \in [Entries -> SUBSET Keys] /\ refcount \in [Keys -> Nat]
        /\ todo = {} /\ NoEntry \notin Entries
    BY NoneAssumption DEF ServiceInv, TypeOK, ReleaseInv
  <1>1. CASE k \in owned[e]
    <2>1. UNCHANGED <<owned, refcount>>
      BY <1>1 DEF Owned
    <2>2. \A j : Owners(j)' = Owners(j)
      BY <2>1, SameOwners
    <2>3. e \in Owners(k)
      BY <1>1 DEF Owners
    <2>4. QED
      BY <2>1, <2>2, <2>3 DEF ServiceInv, RefcountExact
  <1>2. CASE k \notin owned[e]
    <2>1. /\ owned' = [owned EXCEPT ![e] = @ \cup {k}]
          /\ refcount' = [refcount EXCEPT ![k] = @ + 1]
      BY <1>2 DEF Owned
    <2>2. Owners(k)' = Owners(k) \cup {e} /\ e \notin Owners(k)
      BY <1>0, <1>2, <2>1 DEF Owners
    <2>3. \A j \in Keys \ {k} : Owners(j)' = Owners(j)
      BY <1>0, <2>1 DEF Owners
    <2>4. IsFiniteSet(Owners(k)) /\ refcount[k] = Cardinality(Owners(k))
      BY EntryAssumption, FS_Subset DEF Owners, ServiceInv, RefcountExact
    <2>5. Cardinality(Owners(k)') = refcount[k] + 1
      BY <2>2, <2>4, FS_AddElement
    <2>6. \A j \in Keys \ {k} : refcount'[j] = refcount[j]
      BY <1>0, <2>1
    <2>7. RefcountExact'
      BY <1>0, <2>1, <2>3, <2>5, <2>6 DEF ServiceInv, RefcountExact
    <2>8. QED
      BY <2>2, <2>3, <2>6, <2>7
  <1>3. QED
    BY <1>1, <1>2

\* Getting the lock means that no release is in progress.
LEMMA LockMeansIdle ==
  ASSUME ServiceInv, NEW c \in Calls, EnsureLocks(c)
  PROVE  /\ holder = NoEntry /\ todo = {} /\ stopping = NoQueue
  BY DEF EnsureLocks, AtOnce, Woken, LockFree, ServiceInv, ReleaseInv

LEMMA InvCaller ==
  ASSUME ServiceInv, NEW c \in Calls, Caller(c)
  PROVE  ServiceInv'
  <1> USE DEF regVars, relVars, workerVars, callVars
  <1>t. TypeOK'
    BY TypeCaller DEF ServiceInv
  <1>1. CASE \/ RunDirect(c) \/ EnsureWaits(c) \/ CallerCancelled(c)
             \/ WaiterCancelled(c) \/ \E o \in Outcomes : DirectReturns(c, o)
    <2>1. UNCHANGED <<queues, refcount, owned, holder, todo, stopping, qkey, wstate,
                      cancelled, pending, current>>
      BY <1>1 DEF RunDirect, EnsureWaits, CallerCancelled, WaiterCancelled,
                  DirectReturns
    <2>2. \A k : Owners(k)' = Owners(k)
      BY <2>1, SameOwners
    <2>3. DirectInv'
      BY <1>1 DEF RunDirect, EnsureWaits, CallerCancelled, WaiterCancelled,
                  DirectReturns, Outcomes, DirectInv, ServiceInv, TypeOK
    <2>4. WorkerInv' /\ ReleaseInv'
      BY <2>1 DEF ServiceInv, WorkerInv, ReleaseInv, Live
    <2>5. RegistryInv' /\ RefcountExact'
      BY <2>1, <2>2 DEF ServiceInv, RegistryInv, RefcountExact, Live
    <2>6. QED
      BY <1>t, <2>3, <2>4, <2>5 DEF ServiceInv
  <1>2. CASE EnqueueExisting(c)
    <2> DEFINE k == KeyOf(c)
               e == Req[c].entry
               q == queues[k]
    <2>0. k \in Keys /\ e \in Entries
      BY CallFacts
    <2> HIDE DEF k, e
    <2>1. /\ EnsureLocks(c) /\ q # NoQueue /\ Owned(e, k) /\ Put(c, q)
          /\ UNCHANGED <<queues, holder, todo, stopping, qkey, wstate, cancelled,
                         current>>
      BY <1>2 DEF EnqueueExisting, k, e
    <2>2. holder = NoEntry /\ todo = {} /\ stopping = NoQueue
      BY <2>1, LockMeansIdle
    <2>3. /\ Owners(k)' = Owners(k) \cup {e}
          /\ \A j \in Keys \ {k} : Owners(j)' = Owners(j)
          /\ RefcountExact'
      BY <2>0, <2>1, <2>2, OwnedCounts
    <2>4. q \in Qids /\ qkey[q] = k
      BY <2>0, <2>1 DEF ServiceInv, TypeOK, RegistryInv
    <2>5. RegistryInv'
      <3> SUFFICES ASSUME NEW j \in Keys
                   PROVE  /\ queues[j] # NoQueue => /\ qkey[queues[j]] = j
                                                   /\ ~cancelled[queues[j]]
                                                   /\ Live(queues[j])
                          /\ queues[j] # NoQueue <=> Owners(j)' # {}
        BY <2>1 DEF RegistryInv, Live
      <3>1. CASE j = k
        BY <2>1, <2>3, <3>1 DEF ServiceInv, RegistryInv
      <3>2. CASE j # k
        BY <2>3, <3>2 DEF ServiceInv, RegistryInv
      <3>3. QED
        BY <3>1, <3>2
    <2>6. ReleaseInv'
      BY <2>1, <2>2 DEF ServiceInv, ReleaseInv
    <2>7. DirectInv'
      BY <2>1 DEF Put, DirectInv, ServiceInv, TypeOK
    <2>8. \A p \in Qids : \A d \in pending'[p] : KeyOf(d) = qkey[p]
      BY <2>1, <2>4 DEF Put, ServiceInv, TypeOK, WorkerInv, k
    <2>9. WorkerInv'
      BY <2>1, <2>8 DEF ServiceInv, WorkerInv, Live
    <2>10. QED
      BY <1>t, <2>3, <2>5, <2>6, <2>7, <2>9 DEF ServiceInv
  <1>3. CASE EnqueueNew(c)
    <2> DEFINE k == KeyOf(c)
               e == Req[c].entry
               q == CHOOSE q \in Unborn : TRUE
    <2>0. k \in Keys /\ e \in Entries
      BY CallFacts
    <2>1. q \in Qids /\ wstate[q] = "unborn"
      BY <1>3, FreshQueue DEF EnqueueNew, Unborn
    <2>2. /\ EnsureLocks(c) /\ queues[k] = NoQueue
          /\ queues' = [queues EXCEPT ![k] = q]
          /\ qkey' = [qkey EXCEPT ![q] = k]
          /\ wstate' = [wstate EXCEPT ![q] = "getting"]
          /\ Owned(e, k) /\ Put(c, q)
          /\ UNCHANGED <<holder, todo, stopping, cancelled, current>>
      BY <1>3 DEF EnqueueNew
    <2> HIDE DEF k, e, q
    <2>3. holder = NoEntry /\ todo = {} /\ stopping = NoQueue
      BY <2>2, LockMeansIdle
    <2>4. /\ Owners(k)' = Owners(k) \cup {e}
          /\ \A j \in Keys \ {k} : Owners(j)' = Owners(j)
          /\ RefcountExact'
      BY <2>0, <2>2, <2>3, OwnedCounts
    <2>5. /\ qkey[q] = NoKey /\ ~cancelled[q] /\ current[q] = NoCall
          /\ pending[q] = {}
      <3>1. qkey[q] = NoKey
        BY <2>1 DEF ServiceInv, WorkerInv
      <3>2. ~cancelled[q]
        BY <2>1, <2>3, NoneAssumption DEF ServiceInv, WorkerInv
      <3>3. current[q] = NoCall
        BY <2>1 DEF ServiceInv, WorkerInv
      <3>4. pending[q] = {}
        BY <2>1, <3>1, CallFacts, NoneAssumption DEF ServiceInv, WorkerInv, TypeOK
      <3>5. QED
        BY <3>1, <3>2, <3>3, <3>4
    <2>6. \A j \in Keys : queues[j] # q
      BY <2>1, NoneAssumption DEF ServiceInv, RegistryInv, Live
    <2>7. RegistryInv'
      <3> SUFFICES ASSUME NEW j \in Keys
                   PROVE  /\ queues'[j] # NoQueue => /\ qkey'[queues'[j]] = j
                                                    /\ ~cancelled[queues'[j]]
                                                    /\ Live(queues[j])'
                          /\ queues'[j] # NoQueue <=> Owners(j)' # {}
        BY <2>2 DEF RegistryInv
      <3>1. CASE j = k
        <4>1. queues'[j] = q /\ qkey'[q] = k /\ wstate'[q] = "getting"
          BY <2>0, <2>1, <2>2, <3>1 DEF ServiceInv, TypeOK
        <4>2. QED
          BY <2>1, <2>4, <2>5, <3>1, <4>1, NoneAssumption DEF Live
      <3>2. CASE j # k
        <4>1. queues'[j] = queues[j]
          BY <2>0, <2>2, <3>2 DEF ServiceInv, TypeOK
        <4>2. queues[j] # NoQueue => /\ qkey'[queues[j]] = qkey[queues[j]]
                                     /\ wstate'[queues[j]] = wstate[queues[j]]
          BY <2>1, <2>2, <2>6 DEF ServiceInv, TypeOK
        <4>3. QED
          BY <2>4, <3>2, <4>1, <4>2 DEF ServiceInv, RegistryInv, Live
      <3>3. QED
        BY <3>1, <3>2
    <2>8. ReleaseInv'
      <3>1. UNCHANGED <<holder, todo, stopping>>
        BY <2>2
      <3>2. QED
        BY <2>3, <3>1 DEF ReleaseInv
    <2>9. DirectInv'
      BY <2>2 DEF Put, DirectInv, ServiceInv, TypeOK
    <2>10. WorkerInv'
      <3> SUFFICES ASSUME NEW p \in Qids
                   PROVE  /\ (wstate'[p] = "unborn") <=> (qkey'[p] = NoKey)
                          /\ Live(p)' => queues'[qkey'[p]] = p \/ stopping = p
                          /\ cancelled[p] => stopping = p \/ wstate'[p] = "ended"
                          /\ current[p] # NoCall =>
                               wstate'[p] = "running" /\ KeyOf(current[p]) = qkey'[p]
                          /\ \A d \in pending'[p] : KeyOf(d) = qkey'[p]
        BY <2>2 DEF WorkerInv
      <3>1. CASE p = q
        <4>1. /\ queues'[k] = q /\ qkey'[q] = k /\ wstate'[q] = "getting"
              /\ pending'[q] = {c}
          BY <2>0, <2>1, <2>2, <2>5 DEF ServiceInv, TypeOK, Put
        <4>2. QED
          BY <2>0, <2>5, <3>1, <4>1, NoneAssumption DEF k
      <3>2. CASE p # q
        <4>1. /\ qkey'[p] = qkey[p] /\ wstate'[p] = wstate[p]
              /\ pending'[p] = pending[p]
          BY <2>1, <2>2, <3>2 DEF ServiceInv, TypeOK, Put
        <4>2. Live(p) => qkey[p] \in Keys /\ queues[qkey[p]] = p
          BY <2>3, NoneAssumption DEF ServiceInv, WorkerInv, TypeOK, Live
        <4>3. Live(p) => queues'[qkey[p]] = p
          BY <2>0, <2>2, <4>2, NoneAssumption DEF ServiceInv, TypeOK
        <4>4. QED
          BY <4>1, <4>3 DEF ServiceInv, WorkerInv, Live
      <3>3. QED
        BY <3>1, <3>2
    <2>11. QED
      BY <1>t, <2>4, <2>7, <2>8, <2>9, <2>10 DEF ServiceInv
  <1>4. QED
    BY <1>1, <1>2, <1>3 DEF Caller

LEMMA InvStep == ServiceInv /\ [Next]_vars => ServiceInv'
  <1> SUFFICES ASSUME ServiceInv, [Next]_vars PROVE ServiceInv'
    OBVIOUS
  <1>1. CASE UNCHANGED vars
    <2>1. TypeOK'
      BY <1>1, TypeStep DEF ServiceInv
    <2>2. \A k : Owners(k)' = Owners(k)
      BY <1>1, SameOwners DEF vars
    <2>3. WorkerInv' /\ ReleaseInv' /\ DirectInv'
      BY <1>1 DEF vars, ServiceInv, WorkerInv, ReleaseInv, DirectInv, Live
    <2>4. RegistryInv' /\ RefcountExact'
      BY <1>1, <2>2 DEF vars, ServiceInv, RegistryInv, RefcountExact, Live
    <2>5. QED
      BY <2>1, <2>3, <2>4 DEF ServiceInv
  <1>2. CASE Next
    BY <1>2, InvLifecycle, InvRelease, InvCaller, InvWorker DEF Next
  <1>3. QED
    BY <1>1, <1>2

\* The registry, the workers and a release in progress agree with each other in
\* every reachable state.
THEOREM ServiceInvariant == Spec => []ServiceInv
  BY InvInit, InvStep, PTL DEF Spec

-----------------------------------------------------------------------------
(* What follows from it.                                                    *)

LEMMA InvOneCommand == ServiceInv => OneCommandPerKey
  <1> SUFFICES ASSUME ServiceInv, NEW c \in Calls, NEW d \in Calls,
                      Executing(c), Executing(d), ~Bypass(c), ~Bypass(d),
                      KeyOf(c) = KeyOf(d)
               PROVE  c = d
    BY DEF OneCommandPerKey
  <1>1. caller[c] # "direct" /\ caller[d] # "direct"
    BY DEF ServiceInv, DirectInv
  <1>2. PICK p \in Qids, q \in Qids : current[p] = c /\ current[q] = d
    BY <1>1 DEF Executing
  <1>3. /\ Live(p) /\ Live(q)
        /\ qkey[p] = KeyOf(c) /\ qkey[q] = KeyOf(d)
    BY <1>2, NoneAssumption DEF ServiceInv, WorkerInv, Live
  <1>4. qkey[p] = qkey[q] /\ qkey[p] \in Keys
    BY <1>3, CallFacts
  <1>5. p = q
    <2>1. queues[qkey[p]] = p \/ stopping = p
      BY <1>3 DEF ServiceInv, WorkerInv
    <2>2. queues[qkey[p]] = q \/ stopping = q
      BY <1>3, <1>4 DEF ServiceInv, WorkerInv
    <2>3. stopping # NoQueue => queues[qkey[stopping]] = NoQueue
      BY DEF ServiceInv, ReleaseInv
    <2>4. QED
      BY <1>4, <2>1, <2>2, <2>3, NoneAssumption
  <1>6. QED
    BY <1>2, <1>5

\* On one transport key, queued commands never overlap: also not while a stopped
\* worker is still unwinding and another entry already wants the transport.
THEOREM CommandsAreSerial == Spec => []OneCommandPerKey
  BY ServiceInvariant, InvOneCommand, PTL

\* URIs of one serial port have one key.
LEMMA OneSerialKey ==
  ASSUME NEW u \in URIs, NEW w \in URIs, OneSerialPort(u, w)
  PROVE  TransportKey(u) = TransportKey(w)
  <1>1. u.endpoint = w.endpoint /\ {u.scheme, w.scheme} \subseteq SerialSchemes
    BY DEF OneSerialPort
  <1>2. CASE u.endpoint \in PortNames
    <2>1. u = w
      BY <1>1, <1>2 DEF OneSerialPort, URIs
    <2>2. QED
      BY <2>1
  <1>3. CASE u.endpoint \notin PortNames
    <2>1. ~NoPath(u) /\ ~NoPath(w)
      BY <1>1, <1>3 DEF NoPath
    <2>2. TransportKey(u) = <<"serial", u.endpoint>> /\ TransportKey(w) = <<"serial", w.endpoint>>
      BY <1>1, <2>1 DEF TransportKey, SerialSchemes, EybondSchemes, TcpSchemes
    <2>3. QED
      BY <1>1, <2>2
  <1>4. QED
    BY <1>2, <1>3

\* concurrent_writes never reaches a serial port, and one port has one worker unless it
\* is called by its name in two forms: two commands are not in progress on it at a time.
THEOREM SerialPortsAreSerial == Spec => []SerialPortsNeverOverlap
  <1>1. ServiceInv => SerialPortsNeverOverlap
    <2> SUFFICES ASSUME ServiceInv, NEW c \in Calls, NEW d \in Calls,
                        Executing(c), Executing(d), OneSerialPort(Req[c].uri, Req[d].uri)
                 PROVE  c = d
      BY DEF SerialPortsNeverOverlap
    <2>1. ~Bypass(c) /\ ~Bypass(d)
      BY DEF OneSerialPort, Bypass, is_tcp_transport, SerialSchemes, EybondSchemes, TcpSchemes
    <2>2. Req[c].uri \in URIs /\ Req[d].uri \in URIs
      BY CallAssumption DEF Requests
    <2>3. KeyOf(c) = KeyOf(d)
      BY <2>2, OneSerialKey DEF KeyOf
    <2>4. QED
      BY <2>1, <2>3, InvOneCommand DEF OneCommandPerKey
  <1>2. QED
    BY <1>1, ServiceInvariant, PTL

\* The reference count of a transport is exactly the number of its owners.
THEOREM RefcountsAreExact == Spec => []RefcountExact
  <1>1. ServiceInv => RefcountExact
    BY DEF ServiceInv
  <1>2. QED
    BY <1>1, ServiceInvariant, PTL

\* Releasing one entry never stops the queue of a transport another entry owns.
THEOREM OwnersAreServed == Spec => []OwnedIsServed
  <1>1. ServiceInv => OwnedIsServed
    <2> SUFFICES ASSUME ServiceInv, NEW e \in Entries, NEW k \in owned[e]
                 PROVE  /\ queues[k] # NoQueue
                        /\ qkey[queues[k]] = k
                        /\ ~cancelled[queues[k]]
                        /\ Live(queues[k])
      BY DEF OwnedIsServed, Live
    <2>1. k \in Keys /\ e \in Owners(k)
      BY DEF ServiceInv, TypeOK, Owners
    <2>2. QED
      BY <2>1 DEF ServiceInv, RegistryInv
  <1>2. QED
    BY <1>1, ServiceInvariant, PTL
=============================================================================
