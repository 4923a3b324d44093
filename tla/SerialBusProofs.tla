-------------------------- MODULE SerialBusProofs ---------------------------
(***************************************************************************)
(* CommandQueue implements SerialBus for any set of calls, transports and   *)
(* queue objects and any finite set of config entries: on each transport    *)
(* key commands are served one at a time, at most once, user commands first *)
(* and in order of arrival.                                                 *)
(***************************************************************************)
EXTENDS CommandQueueProofs

-----------------------------------------------------------------------------
(* Where a command is.                                                      *)

\* The types that the steps below need.
LEMMA QueueTypes ==
  ASSUME ServiceInv
  PROVE  /\ wstate \in [Qids -> WorkerStates] /\ cancelled \in [Qids -> BOOLEAN]
         /\ pending \in [Qids -> SUBSET Calls] /\ current \in [Qids -> Calls \cup {NoCall}]
         /\ nextSeq \in [Qids -> Nat] /\ seq \in [Calls -> Nat]
         /\ caller \in [Calls -> CallerStates] /\ queues \in [Keys -> Qids \cup {NoQueue}]
         /\ qkey \in [Qids -> Keys \cup {NoKey}]
  BY DEF ServiceInv, TypeOK

\* A queue that has not been created is empty and has not been cancelled.
LEMMA UnbornIsEmpty ==
  ASSUME ServiceInv, NEW q \in Qids, wstate[q] = "unborn"
  PROVE  pending[q] = {} /\ current[q] = NoCall /\ ~cancelled[q] /\ stopping # q
<1>1. qkey[q] = NoKey /\ NoKey \notin Keys
  BY NoneAssumption DEF ServiceInv, WorkerInv
<1>2. \A c \in pending[q] : KeyOf(c) = qkey[q] /\ c \in Calls
  BY QueueTypes DEF ServiceInv, WorkerInv
<1>3. pending[q] = {}
  BY <1>1, <1>2, CallFacts
<1>4. current[q] = NoCall
  BY DEF ServiceInv, WorkerInv
<1>5. stopping # q
  BY <1>1, NoneAssumption DEF ServiceInv, ReleaseInv
<1>6. ~cancelled[q]
  BY <1>5 DEF ServiceInv, WorkerInv
<1> QED BY <1>3, <1>4, <1>5, <1>6

\* A queue that exists and has not been cancelled is the one the registry lists.
LEMMA UncancelledIsListed ==
  ASSUME QueueInv, NEW q \in Qids, ~cancelled[q], wstate[q] # "unborn"
  PROVE  qkey[q] \in Keys /\ queues[qkey[q]] = q /\ Live(q)
<1>1. Live(q)
  BY QueueTypes DEF QueueInv, CallInv, Live, WorkerStates
<1>2. qkey[q] \in Keys
  BY QueueTypes DEF QueueInv, ServiceInv, WorkerInv
<1>3. stopping # q
  BY NoneAssumption DEF QueueInv, ServiceInv, ReleaseInv
<1> QED BY <1>1, <1>2, <1>3 DEF QueueInv, ServiceInv, WorkerInv

\* A key has one line: that of the queue the registry lists.
LEMMA LineOfKey ==
  ASSUME QueueInv, NEW q \in Qids, ~cancelled[q], NEW c \in pending[q]
  PROVE  c \in Calls /\ qkey[q] = KeyOf(c) /\ queues[KeyOf(c)] = q
<1>1. c \in Calls /\ KeyOf(c) = qkey[q]
  BY QueueTypes DEF QueueInv, ServiceInv, WorkerInv
<1>2. wstate[q] # "unborn"
  BY UnbornIsEmpty DEF QueueInv
<1> QED BY <1>1, <1>2, UncancelledIsListed

LEMMA CallInit == Init => CallInv
  BY DEF Init, CallInv

\* Only callers move.
LEMMA CallMoves ==
  ASSUME QueueInv, NEW c \in Calls, NEW x,
         caller' = [caller EXCEPT ![c] = x],
         x = "locking" => ~Bypass(c),
         x \in {"idle", "locking"} => caller[c] \in {"idle", "locking"},
         UNCHANGED <<wstate, cancelled, pending, current, nextSeq, seq>>
  PROVE  CallInv'
<1>1. \A d \in Calls : caller'[d] = IF d = c THEN x ELSE caller[d]
  BY QueueTypes DEF QueueInv
<1>2. \A q \in Qids : pending[q] \subseteq Calls /\ (current[q] # NoCall => current[q] \in Calls)
  BY QueueTypes DEF QueueInv
<1>3. \A d \in Calls : caller'[d] \in {"idle", "locking"} => caller[d] \in {"idle", "locking"}
  BY <1>1
<1>4. \A d \in Calls : caller'[d] = "locking" => ~Bypass(d)
  BY <1>1 DEF QueueInv, CallInv
<1> QED BY <1>2, <1>3, <1>4 DEF QueueInv, CallInv

\* A command enters the line of a queue.
LEMMA CallPut ==
  ASSUME QueueInv, NEW c \in Calls, NEW q \in Qids, Put(c, q),
         ~Bypass(c), caller[c] \in {"idle", "locking"},
         UNCHANGED <<cancelled, current>>,
         \A r \in Qids : wstate'[r] \in {"ended", "running"} => wstate'[r] = wstate[r]
  PROVE  CallInv'
<1>1. /\ \A r \in Qids : pending'[r] = IF r = q THEN pending[q] \cup {c} ELSE pending[r]
      /\ \A r \in Qids : nextSeq'[r] = IF r = q THEN nextSeq[q] + 1 ELSE nextSeq[r]
      /\ \A d \in Calls : seq'[d] = IF d = c THEN nextSeq[q] ELSE seq[d]
      /\ \A d \in Calls : caller'[d] = IF d = c THEN "awaiting" ELSE caller[d]
  BY QueueTypes DEF QueueInv, Put
<1>2. /\ \A r \in Qids : pending[r] \subseteq Calls /\ nextSeq[r] \in Nat
      /\ \A r \in Qids : current[r] # NoCall => current[r] \in Calls
      /\ \A d \in Calls : seq[d] \in Nat
  BY QueueTypes DEF QueueInv
<1>3. /\ \A r \in Qids : c \notin pending[r] /\ current[r] # c
  BY NoneAssumption DEF QueueInv, CallInv
<1>4. \A r \in Qids : \A d \in pending'[r] :
        /\ ~Bypass(d) /\ caller'[d] \notin {"idle", "locking"} /\ seq'[d] < nextSeq'[r]
  <2> SUFFICES ASSUME NEW r \in Qids, NEW d \in pending'[r]
               PROVE  /\ ~Bypass(d) /\ caller'[d] \notin {"idle", "locking"}
                      /\ seq'[d] < nextSeq'[r]
    OBVIOUS
  <2>1. CASE d = c
    <3>1. r = q
      BY <1>1, <1>3, <2>1
    <3> QED BY <1>1, <1>2, <2>1, <3>1
  <2>2. CASE d # c
    <3>1. d \in pending[r] /\ d \in Calls
      BY <1>1, <1>2, <2>2
    <3>2. ~Bypass(d) /\ caller[d] \notin {"idle", "locking"} /\ seq[d] < nextSeq[r]
      BY <3>1 DEF QueueInv, CallInv
    <3>3. seq[d] \in Nat /\ nextSeq[r] \in Nat /\ nextSeq[q] \in Nat
      BY <1>2, <3>1
    <3> QED BY <1>1, <2>2, <3>1, <3>2, <3>3
  <2> QED BY <2>1, <2>2
<1>5. \A r \in Qids : current'[r] # NoCall => /\ ~Bypass(current'[r])
                                              /\ caller'[current'[r]] \notin {"idle", "locking"}
  BY <1>1, <1>2 DEF QueueInv, CallInv
<1>6. \A r, s \in Qids : /\ current'[s] \notin pending'[r]
                         /\ r # s => pending'[r] \cap pending'[s] = {}
                         /\ r # s /\ current'[r] # NoCall => current'[r] # current'[s]
  BY <1>1, <1>3 DEF QueueInv, CallInv
<1>7. \A r \in Qids : /\ wstate'[r] = "ended" => cancelled'[r]
                      /\ wstate'[r] = "running" => current'[r] # NoCall
  BY DEF QueueInv, CallInv
<1>8. \A d \in Calls : caller'[d] = "locking" => ~Bypass(d)
  BY <1>1 DEF QueueInv, CallInv
<1> QED BY <1>4, <1>5, <1>6, <1>7, <1>8 DEF CallInv

\* A worker's step.
LEMMA CallWorker ==
  ASSUME QueueInv, NEW q \in Qids, Worker(q)
  PROVE  CallInv'
<1>1. /\ \A r \in Qids : pending[r] \subseteq Calls
      /\ \A r \in Qids : current[r] # NoCall => current[r] \in Calls
  BY QueueTypes DEF QueueInv
<1>2. UNCHANGED <<cancelled, nextSeq, seq>>
  BY DEF Worker, Take, FnReturns, FnCancelled, Wakes, WorkerEnds, workerVars, callVars
<1>3. ASSUME NEW c \in Calls, Take(q, c)
      PROVE  CallInv'
  <2>1. /\ wstate[q] = "getting" /\ ~cancelled[q] /\ c \in pending[q] /\ caller' = caller
        /\ \A r \in Qids : pending'[r] = IF r = q THEN pending[q] \ {c} ELSE pending[r]
        /\ \A r \in Qids : current'[r] = IF r = q THEN c ELSE current[r]
        /\ \A r \in Qids : wstate'[r] = IF r = q THEN "running" ELSE wstate[r]
    BY <1>3, QueueTypes DEF QueueInv, Take, callVars
  <2>2. c # NoCall
    BY NoneAssumption
  <2>3. \A r \in Qids : r # q => c \notin pending[r]
    BY <2>1 DEF QueueInv, CallInv
  <2>4. \A r \in Qids : current[r] # c
    BY <2>1 DEF QueueInv, CallInv
  <2>5. \A r \in Qids : pending'[r] \subseteq pending[r]
    BY <2>1
  <2>6. ~Bypass(c) /\ caller[c] \notin {"idle", "locking"}
    BY <2>1 DEF QueueInv, CallInv
  <2>7. \A r \in Qids :
          /\ wstate'[r] = "ended" => cancelled'[r]
          /\ wstate'[r] = "running" => current'[r] # NoCall
          /\ \A d \in pending'[r] : /\ ~Bypass(d) /\ caller'[d] \notin {"idle", "locking"}
                                    /\ seq'[d] < nextSeq'[r]
          /\ current'[r] # NoCall => /\ ~Bypass(current'[r])
                                     /\ caller'[current'[r]] \notin {"idle", "locking"}
    BY <1>2, <2>1, <2>2, <2>5, <2>6 DEF QueueInv, CallInv
  <2>8. \A r, s \in Qids : /\ current'[s] \notin pending'[r]
                           /\ r # s => pending'[r] \cap pending'[s] = {}
                           /\ r # s /\ current'[r] # NoCall => current'[r] # current'[s]
    BY <2>1, <2>3, <2>4, <2>5 DEF QueueInv, CallInv
  <2> QED BY <2>1, <2>7, <2>8 DEF QueueInv, CallInv
<1>4. ASSUME wstate[q] = "running", current' = [current EXCEPT ![q] = NoCall],
             wstate' = [wstate EXCEPT ![q] = "sleeping"], pending' = pending,
             \A d \in Calls : \/ caller'[d] = caller[d]
                              \/ caller'[d] \notin {"idle", "locking"}
      PROVE  CallInv'
  <2>1. /\ \A r \in Qids : current'[r] = IF r = q THEN NoCall ELSE current[r]
        /\ \A r \in Qids : wstate'[r] = IF r = q THEN "sleeping" ELSE wstate[r]
    BY <1>4, QueueTypes DEF QueueInv
  <2>2. \A r \in Qids : NoCall \notin pending[r]
    BY <1>1, NoneAssumption
  <2>3. \A r \in Qids :
          /\ wstate'[r] = "ended" => cancelled'[r]
          /\ wstate'[r] = "running" => current'[r] # NoCall
          /\ \A d \in pending'[r] : /\ ~Bypass(d) /\ caller'[d] \notin {"idle", "locking"}
                                    /\ seq'[d] < nextSeq'[r]
          /\ current'[r] # NoCall => /\ ~Bypass(current'[r])
                                     /\ caller'[current'[r]] \notin {"idle", "locking"}
    BY <1>1, <1>2, <1>4, <2>1 DEF QueueInv, CallInv
  <2>4. \A r, s \in Qids : /\ current'[s] \notin pending'[r]
                           /\ r # s => pending'[r] \cap pending'[s] = {}
                           /\ r # s /\ current'[r] # NoCall => current'[r] # current'[s]
    BY <1>4, <2>1, <2>2 DEF QueueInv, CallInv
  <2>5. \A d \in Calls : caller'[d] = "locking" => ~Bypass(d)
    BY <1>4 DEF QueueInv, CallInv
  <2> QED BY <2>3, <2>4, <2>5 DEF CallInv
<1>5. ASSUME NEW o \in Outcomes, FnReturns(q, o)
      PROVE  CallInv'
  <2>1. \A d \in Calls : caller'[d] = caller[d] \/ caller'[d] \notin {"idle", "locking"}
    BY <1>5, QueueTypes DEF QueueInv, FnReturns, Resolve, Outcomes
  <2> QED BY <1>4, <1>5, <2>1 DEF FnReturns
<1>6. CASE FnCancelled(q)
  BY <1>4, <1>6 DEF FnCancelled, callVars
<1>7. CASE Wakes(q) \/ WorkerEnds(q)
  <2>1. /\ UNCHANGED <<pending, current, caller>>
        /\ \A r \in Qids : wstate'[r] = "ended" => wstate[r] = "ended" \/ cancelled[r]
        /\ \A r \in Qids : wstate'[r] = "running" => wstate[r] = "running"
    BY <1>7, QueueTypes DEF QueueInv, Wakes, WorkerEnds, callVars
  <2> QED BY <1>2, <2>1 DEF QueueInv, CallInv
<1> QED BY <1>3, <1>5, <1>6, <1>7 DEF Worker

\* Nothing moves but the life cycle of an entry, the lock's line or a release.
LEMMA CallRests ==
  ASSUME CallInv, UNCHANGED <<wstate, pending, current, nextSeq, seq, caller>>,
         \A q \in Qids : cancelled[q] => cancelled'[q]
  PROVE  CallInv'
  BY DEF CallInv

\* The caller's own steps, by what they do to the lines.
LEMMA CallCaller ==
  ASSUME QueueInv, NEW c \in Calls, Caller(c)
  PROVE  CallInv'
<1> USE DEF regVars, relVars, workerVars, callVars
<1>1. CASE RunDirect(c)
  BY <1>1, CallMoves DEF RunDirect
<1>2. CASE EnsureWaits(c)
  BY <1>2, CallMoves DEF EnsureWaits
<1>3. CASE EnqueueExisting(c)
  <2> DEFINE q == queues[KeyOf(c)]
  <2>1. q \in Qids
    BY <1>3, QueueTypes, CallFacts DEF QueueInv, EnqueueExisting
  <2>2. Put(c, q) /\ UNCHANGED <<wstate, cancelled, current>>
    BY <1>3 DEF EnqueueExisting
  <2>3. ~Bypass(c) /\ caller[c] \in {"idle", "locking"}
    BY <1>3 DEF EnqueueExisting, EnsureLocks, QueueInv, CallInv
  <2> HIDE DEF q
  <2> QED BY <2>1, <2>2, <2>3, CallPut
<1>4. CASE EnqueueNew(c)
  <2> DEFINE q == CHOOSE q \in Unborn : TRUE
  <2>1. q \in Unborn
    BY <1>4, FreshQueue DEF EnqueueNew
  <2>2. /\ Put(c, q) /\ UNCHANGED <<cancelled, current>>
        /\ wstate' = [wstate EXCEPT ![q] = "getting"]
    BY <1>4 DEF EnqueueNew
  <2>3. ~Bypass(c) /\ caller[c] \in {"idle", "locking"}
    BY <1>4 DEF EnqueueNew, EnsureLocks, QueueInv, CallInv
  <2> HIDE DEF q
  <2>4. q \in Qids
    BY <2>1 DEF Unborn
  <2>5. \A r \in Qids : wstate'[r] \in {"ended", "running"} => wstate'[r] = wstate[r]
    BY <2>2, QueueTypes DEF QueueInv
  <2> QED BY <2>2, <2>3, <2>4, <2>5, CallPut
<1>5. CASE CallerCancelled(c)
  BY <1>5, CallMoves DEF CallerCancelled
<1>6. CASE WaiterCancelled(c)
  BY <1>6, CallMoves DEF WaiterCancelled
<1>7. ASSUME NEW o \in Outcomes, DirectReturns(c, o)
      PROVE  CallInv'
  BY <1>7, CallMoves DEF DirectReturns, Outcomes
<1> QED BY <1>1, <1>2, <1>3, <1>4, <1>5, <1>6, <1>7 DEF Caller

LEMMA CallStep == QueueInv /\ [Next]_vars => CallInv'
<1> SUFFICES ASSUME QueueInv, [Next]_vars PROVE CallInv'
  OBVIOUS
<1> USE DEF regVars, relVars, workerVars, callVars
<1>c. CallInv
  BY DEF QueueInv
<1>1. ASSUME NEW e \in Entries, Lifecycle(e) PROVE CallInv'
  BY <1>c, <1>1, CallRests
  DEF Lifecycle, Setup, SetupDone, SetupFails, BeginUnload, ReleaseWaits, ReleaseBegin
<1>2. CASE Release
  <2>1. UNCHANGED <<wstate, pending, current, nextSeq, seq, caller>>
    BY <1>2 DEF Release, ReleaseKey, StopReturns, ReleaseEnd
  <2>2. \A q \in Qids : cancelled[q] => cancelled'[q]
    BY <1>2, QueueTypes DEF QueueInv, Release, ReleaseKey, StopReturns, ReleaseEnd, Cancel
  <2> QED BY <1>c, <2>1, <2>2, CallRests
<1>3. ASSUME NEW c \in Calls, Caller(c) PROVE CallInv'
  BY <1>3, CallCaller
<1>4. ASSUME NEW q \in Qids, Worker(q) PROVE CallInv'
  BY <1>4, CallWorker
<1>5. CASE UNCHANGED vars
  BY <1>c, <1>5, CallRests DEF vars
<1> QED BY <1>1, <1>2, <1>3, <1>4, <1>5 DEF Next

\* The registry, the workers, the releases and the lines of commands agree, whatever the
\* order of calls, cancellations, unloads and reloads.
THEOREM QueueInvariant == Spec => []QueueInv
<1>1. Init => QueueInv
  BY InvInit, CallInit DEF QueueInv
<1>2. QueueInv /\ [Next]_vars => QueueInv'
  BY InvStep, CallStep DEF QueueInv
<1> QED BY <1>1, <1>2, PTL DEF Spec

-----------------------------------------------------------------------------
(* The bus.                                                                 *)

Serving(c) == \E q \in Qids : current[q] = c
Fresh(c)   == caller[c] \in {"idle", "locking"}

\* The status of a command, one by one.
LEMMA StatusOf ==
  ASSUME NEW c \in QueuedCalls
  PROVE  BusStatus[c] = IF InLine(c) THEN "waiting" ELSE IF Serving(c) THEN "serving"
                        ELSE IF Fresh(c) THEN "new" ELSE "gone"
  BY DEF BusStatus, Serving, Fresh

LEMMA StatusOfPrime ==
  ASSUME NEW c \in QueuedCalls
  PROVE  BusStatus'[c] = IF \E q \in Qids : c \in pending'[q] /\ ~cancelled'[q] THEN "waiting"
                         ELSE IF \E q \in Qids : current'[q] = c THEN "serving"
                         ELSE IF caller'[c] \in {"idle", "locking"} THEN "new" ELSE "gone"
  BY DEF BusStatus, InLine, QueuedCalls, Bypass, is_tcp_transport

\* A command that keeps its place keeps its status.
LEMMA StatusStays ==
  ASSUME NEW c \in QueuedCalls,
         (\E q \in Qids : c \in pending'[q] /\ ~cancelled'[q]) <=> InLine(c),
         (\E q \in Qids : current'[q] = c) <=> Serving(c),
         caller'[c] \in {"idle", "locking"} <=> Fresh(c)
  PROVE  BusStatus'[c] = BusStatus[c]
  BY StatusOf, StatusOfPrime

\* The status is a function.
LEMMA StatusIs ==
  /\ BusStatus = [c \in QueuedCalls |-> BusStatus[c]]
  /\ BusStatus' = [c \in QueuedCalls |-> BusStatus'[c]]
  BY DEF BusStatus, QueuedCalls, Bypass, is_tcp_transport

\* A step that moves one command.
LEMMA OneMoves ==
  ASSUME NEW c \in QueuedCalls, NEW x, BusStatus'[c] = x,
         \A d \in QueuedCalls \ {c} : BusStatus'[d] = BusStatus[d]
  PROVE  BusStatus' = [BusStatus EXCEPT ![c] = x]
  BY StatusIs

\* No command changes its place.
LEMMA BusRests ==
  ASSUME UNCHANGED <<cancelled, pending, current, seq>>,
         \A c \in QueuedCalls : caller'[c] \in {"idle", "locking"} <=> Fresh(c)
  PROVE  UNCHANGED Bus!busVars
<1>1. \A c \in QueuedCalls : BusStatus'[c] = BusStatus[c]
  BY StatusStays DEF InLine, Serving
<1>2. BusStatus' = BusStatus
  BY <1>1, StatusIs
<1>3. BusBefore' = BusBefore
  BY DEF BusBefore
<1> QED BY <1>2, <1>3 DEF Bus!busVars

LEMMA BusStarts == Init => Bus!BusInit
<1> SUFFICES ASSUME Init PROVE Bus!BusInit
  OBVIOUS
<1>1. \A c \in QueuedCalls : ~InLine(c) /\ ~Serving(c) /\ Fresh(c)
  BY NoneAssumption DEF Init, InLine, Serving, Fresh, QueuedCalls
<1>2. BusStatus = [c \in QueuedCalls |-> "new"]
  BY <1>1 DEF BusStatus, Serving, Fresh
<1>3. BusBefore = {}
  BY DEF Init, BusBefore
<1> QED BY <1>2, <1>3 DEF Bus!BusInit

\* The pairs of a line, one by one.
LEMMA PairsOf ==
  ASSUME NEW i \in Calls, NEW j \in Calls
  PROVE  <<i, j>> \in BusBefore <=>
           \E q \in Qids : /\ ~cancelled[q] /\ i \in pending[q] /\ j \in pending[q]
                           /\ seq[i] < seq[j]
  BY DEF BusBefore

LEMMA PairsOfPrime ==
  ASSUME NEW i \in Calls, NEW j \in Calls
  PROVE  <<i, j>> \in BusBefore' <=>
           \E q \in Qids : /\ ~cancelled'[q] /\ i \in pending'[q] /\ j \in pending'[q]
                           /\ seq'[i] < seq'[j]
  BY DEF BusBefore

\* A pair is one of two calls.
LEMMA PairsAre ==
  /\ \A p \in BusBefore : p \in Calls \X Calls /\ p = <<p[1], p[2]>>
  /\ \A p \in BusBefore' : p \in Calls \X Calls /\ p = <<p[1], p[2]>>
  BY DEF BusBefore

\* Those that wait with a command are those of its queue.
LEMMA WaitersOf ==
  ASSUME QueueInv, NEW c \in QueuedCalls
  PROVE  Bus!WaitingWith(c) =
           {i \in Calls : \E q \in Qids : /\ ~cancelled[q] /\ i \in pending[q]
                                          /\ queues[KeyOf(c)] = q /\ KeyOf(i) = KeyOf(c)}
<1>1. \A i \in QueuedCalls : BusStatus[i] = "waiting" <=> InLine(i)
  BY StatusOf
<1>2. \A i \in Calls : InLine(i) => i \in QueuedCalls
  BY DEF InLine, QueuedCalls, QueueInv, CallInv
<1>3. \A i \in Calls, q \in Qids : ~cancelled[q] /\ i \in pending[q] => queues[KeyOf(i)] = q
  BY LineOfKey
<1> QED BY <1>1, <1>2, <1>3 DEF Bus!WaitingWith, InLine, QueuedCalls

\* A call gives up before it has queued its command.
LEMMA WithdrawStep ==
  ASSUME QueueInv, NEW c \in QueuedCalls, Fresh(c),
         caller' = [caller EXCEPT ![c] = "cancelled"],
         UNCHANGED <<cancelled, pending, current, seq>>
  PROVE  Bus!Withdraw(c)
<1>1. c \in Calls
  BY DEF QueuedCalls
<1>2. ~InLine(c) /\ ~Serving(c)
  BY <1>1, NoneAssumption DEF InLine, Serving, Fresh, QueueInv, CallInv
<1>3. \A d \in Calls : caller'[d] = IF d = c THEN "cancelled" ELSE caller[d]
  BY QueueTypes DEF QueueInv
<1>4. \A d \in QueuedCalls \ {c} : BusStatus'[d] = BusStatus[d]
  BY <1>3, StatusStays DEF InLine, Serving, Fresh, QueuedCalls
<1>5. BusStatus[c] = "new"
  BY <1>2, StatusOf
<1>6. BusStatus'[c] = "gone"
  BY <1>1, <1>2, <1>3, StatusOfPrime DEF InLine, Serving
<1>7. BusStatus' = [BusStatus EXCEPT ![c] = "gone"]
  BY <1>4, <1>6, OneMoves
<1>8. BusBefore' = BusBefore
  BY DEF BusBefore
<1> QED BY <1>5, <1>7, <1>8 DEF Bus!Withdraw

\* A call queues its command.
LEMMA SubmitStep ==
  ASSUME QueueInv, NEW c \in QueuedCalls, NEW q \in Qids, Put(c, q), Fresh(c),
         ~cancelled[q], UNCHANGED <<cancelled, current>>,
         \A i \in pending[q] : KeyOf(i) = KeyOf(c),
         queues[KeyOf(c)] = q \/ (queues[KeyOf(c)] = NoQueue /\ pending[q] = {})
  PROVE  Bus!Submit(c)
<1>1. c \in Calls
  BY DEF QueuedCalls
<1>2. /\ \A r \in Qids : pending'[r] = IF r = q THEN pending[q] \cup {c} ELSE pending[r]
      /\ \A d \in Calls : seq'[d] = IF d = c THEN nextSeq[q] ELSE seq[d]
      /\ \A d \in Calls : caller'[d] = IF d = c THEN "awaiting" ELSE caller[d]
      /\ \A r \in Qids : pending[r] \subseteq Calls
  BY <1>1, QueueTypes DEF QueueInv, Put
<1>3. \A r \in Qids : c \notin pending[r] /\ current[r] # c
  BY <1>1, NoneAssumption DEF Fresh, QueueInv, CallInv
<1>4. BusStatus[c] = "new"
  BY <1>3, StatusOf DEF InLine, Serving
<1>5. BusStatus' = [BusStatus EXCEPT ![c] = "waiting"]
  <2>1. c \in pending'[q] /\ ~cancelled'[q]
    BY <1>2
  <2>2. BusStatus'[c] = "waiting"
    BY <2>1, StatusOfPrime
  <2>3. \A d \in QueuedCalls \ {c} : BusStatus'[d] = BusStatus[d]
    BY <1>2, StatusStays DEF InLine, Serving, Fresh, QueuedCalls
  <2> QED BY <2>2, <2>3, OneMoves
<1>6. Bus!WaitingWith(c) = pending[q]
  <2>1. Bus!WaitingWith(c) =
          {i \in Calls : \E r \in Qids : /\ ~cancelled[r] /\ i \in pending[r]
                                         /\ queues[KeyOf(c)] = r /\ KeyOf(i) = KeyOf(c)}
    BY WaitersOf
  <2>2. CASE queues[KeyOf(c)] = q
    BY <1>2, <2>1, <2>2
  <2>3. CASE queues[KeyOf(c)] = NoQueue /\ pending[q] = {}
    BY <2>1, <2>3, NoneAssumption
  <2> QED BY <2>2, <2>3
<1>7. \A i, j \in Calls : <<i, j>> \in BusBefore' <=>
                            <<i, j>> \in BusBefore \/ (j = c /\ i \in pending[q])
  <2> SUFFICES ASSUME NEW i \in Calls, NEW j \in Calls
               PROVE  <<i, j>> \in BusBefore' <=>
                        <<i, j>> \in BusBefore \/ (j = c /\ i \in pending[q])
    OBVIOUS
  <2>1. seq[i] \in Nat /\ nextSeq[q] \in Nat
    BY QueueTypes DEF QueueInv
  <2>2. \A d \in pending[q] : seq[d] < nextSeq[q] /\ d \in Calls /\ seq[d] \in Nat
    BY <1>2, QueueTypes DEF QueueInv, CallInv
  <2>3. CASE i # c /\ j # c
    BY <1>1, <1>2, <2>3, PairsOf, PairsOfPrime
  <2>4. CASE j = c /\ i \in pending[q]
    <3>1. i # c
      BY <1>3, <2>4
    <3>2. i \in pending'[q] /\ c \in pending'[q] /\ seq'[i] < seq'[c] /\ ~cancelled'[q]
      BY <1>1, <1>2, <2>2, <2>4, <3>1
    <3> QED BY <2>4, <3>2, PairsOfPrime
  <2>5. CASE j = c /\ i \notin pending[q]
    <3>1. <<i, j>> \notin BusBefore
      BY <1>3, <2>5, PairsOf
    <3>2. \A r \in Qids : c \in pending'[r] => r = q
      BY <1>2, <1>3
    <3>3. i \in pending'[q] => i = c
      BY <1>2, <2>5
    <3>4. ~(seq'[c] < seq'[c])
      BY <1>1, <1>2, <2>1
    <3> QED BY <2>5, <3>1, <3>2, <3>3, <3>4, PairsOfPrime
  <2>6. CASE i = c /\ j # c
    <3>1. <<i, j>> \notin BusBefore
      BY <1>3, <2>6, PairsOf
    <3>2. \A r \in Qids : c \in pending'[r] => r = q
      BY <1>2, <1>3
    <3>3. j \in pending'[q] => j \in pending[q]
      BY <1>2, <2>6
    <3>4. j \in pending[q] => ~(seq'[c] < seq'[j])
      BY <1>1, <1>2, <2>1, <2>2, <2>6
    <3> QED BY <2>6, <3>1, <3>2, <3>3, <3>4, PairsOfPrime
  <2> QED BY <2>3, <2>4, <2>5, <2>6
<1>8. BusBefore' = BusBefore \cup {<<i, c>> : i \in pending[q]}
  <2>1. BusBefore \subseteq Calls \X Calls /\ BusBefore' \subseteq Calls \X Calls
    BY DEF BusBefore
  <2>2. \A p : p \in BusBefore' => p \in BusBefore \cup {<<i, c>> : i \in pending[q]}
    <3> SUFFICES ASSUME NEW p \in BusBefore'
                 PROVE  p \in BusBefore \cup {<<i, c>> : i \in pending[q]}
      OBVIOUS
    <3>1. PICK i \in Calls, j \in Calls : p = <<i, j>>
      BY <2>1
    <3> QED BY <1>7, <3>1
  <2>3. \A p : p \in BusBefore => p \in BusBefore'
    <3> SUFFICES ASSUME NEW p \in BusBefore PROVE p \in BusBefore'
      OBVIOUS
    <3>1. PICK i \in Calls, j \in Calls : p = <<i, j>>
      BY <2>1
    <3> QED BY <1>7, <3>1
  <2>4. \A i \in pending[q] : <<i, c>> \in BusBefore'
    BY <1>1, <1>2, <1>7
  <2> QED BY <2>2, <2>3, <2>4
<1> QED BY <1>4, <1>5, <1>6, <1>8 DEF Bus!Submit

\* A worker takes a command: nothing else is in service on the key, and nothing in the
\* line was to be served before it.
LEMMA ServeStep ==
  ASSUME QueueInv, NEW q \in Qids, NEW c \in Calls, Take(q, c)
  PROVE  c \in QueuedCalls /\ Bus!Serve(c)
<1>1. /\ wstate[q] = "getting" /\ ~cancelled[q] /\ c \in pending[q]
      /\ \A d \in pending[q] \ {c} : Precedes(c, d)
      /\ UNCHANGED <<cancelled, seq, caller>>
      /\ \A r \in Qids : pending'[r] = IF r = q THEN pending[q] \ {c} ELSE pending[r]
      /\ \A r \in Qids : current'[r] = IF r = q THEN c ELSE current[r]
  BY QueueTypes DEF QueueInv, Take, callVars
<1>2. c \in QueuedCalls
  BY <1>1 DEF QueuedCalls, QueueInv, CallInv
<1>3. \A r \in Qids : r # q => c \notin pending[r]
  BY <1>1 DEF QueueInv, CallInv
<1>4. \A r \in Qids : current[r] \notin pending[q]
  BY DEF QueueInv, CallInv
<1>5. qkey[q] = KeyOf(c) /\ queues[KeyOf(c)] = q
  BY <1>1, LineOfKey
<1>6. BusStatus[c] = "waiting"
  BY <1>1, <1>2, StatusOf DEF InLine
<1>7. current[q] = NoCall
  BY <1>1 DEF QueueInv, ServiceInv, WorkerInv
<1>8. \A i \in QueuedCalls : KeyOf(i) = KeyOf(c) => BusStatus[i] # "serving"
  <2> SUFFICES ASSUME NEW i \in QueuedCalls, KeyOf(i) = KeyOf(c), Serving(i)
               PROVE  FALSE
    BY StatusOf
  <2>1. i \in Calls /\ i # NoCall
    BY NoneAssumption DEF QueuedCalls
  <2>2. PICK r \in Qids : current[r] = i
    BY DEF Serving
  <2>3. Live(r) /\ qkey[r] = KeyOf(c)
    BY <2>1, <2>2 DEF QueueInv, ServiceInv, WorkerInv, Live
  <2>4. queues[KeyOf(c)] = r \/ stopping = r
    BY <2>3 DEF QueueInv, ServiceInv, WorkerInv
  <2>5. stopping = r => queues[KeyOf(c)] = NoQueue
    BY <2>3, NoneAssumption DEF QueueInv, ServiceInv, ReleaseInv
  <2>6. r = q
    BY <1>5, <2>4, <2>5, NoneAssumption
  <2> QED BY <1>7, <2>1, <2>2, <2>6
<1>9. \A i \in Bus!WaitingWith(c) \ {c} :
        \/ IsUserCall(c) /\ ~IsUserCall(i)
        \/ (IsUserCall(i) <=> IsUserCall(c)) /\ <<i, c>> \notin BusBefore
  <2> SUFFICES ASSUME NEW i \in Bus!WaitingWith(c), i # c
               PROVE  \/ IsUserCall(c) /\ ~IsUserCall(i)
                      \/ (IsUserCall(i) <=> IsUserCall(c)) /\ <<i, c>> \notin BusBefore
    OBVIOUS
  <2>1. i \in Calls /\ i \in pending[q]
    BY <1>2, <1>5, WaitersOf
  <2>2. Precedes(c, i)
    BY <1>1, <2>1
  <2>3. /\ Req[c].prio \in {PRIORITY_USER, PRIORITY_POLL}
        /\ Req[i].prio \in {PRIORITY_USER, PRIORITY_POLL}
    BY <2>1, CallAssumption DEF Requests
  <2>4. seq[c] \in Nat /\ seq[i] \in Nat
    BY <2>1, QueueTypes DEF QueueInv
  <2>5. CASE Req[c].prio < Req[i].prio
    BY <2>3, <2>5 DEF IsUserCall, PRIORITY_USER, PRIORITY_POLL
  <2>6. CASE Req[c].prio = Req[i].prio /\ seq[c] < seq[i]
    <3>1. ~(seq[i] < seq[c])
      BY <2>4, <2>6
    <3> QED BY <2>1, <2>6, <3>1, PairsOf DEF IsUserCall
  <2> QED BY <2>2, <2>5, <2>6 DEF Precedes
<1>10. BusStatus' = [BusStatus EXCEPT ![c] = "serving"]
  <2>1. /\ ~\E r \in Qids : c \in pending'[r] /\ ~cancelled'[r]
        /\ current'[q] = c
    BY <1>1, <1>3
  <2>2. BusStatus'[c] = "serving"
    BY <1>2, <2>1, StatusOfPrime
  <2>3. \A d \in QueuedCalls \ {c} : BusStatus'[d] = BusStatus[d]
    <3> SUFFICES ASSUME NEW d \in QueuedCalls, d # c PROVE BusStatus'[d] = BusStatus[d]
      OBVIOUS
    <3>1. d # NoCall
      BY NoneAssumption DEF QueuedCalls
    <3>2. (\E r \in Qids : d \in pending'[r] /\ ~cancelled'[r]) <=> InLine(d)
      BY <1>1 DEF InLine
    <3>3. (\E r \in Qids : current'[r] = d) <=> Serving(d)
      BY <1>1, <1>7, <3>1 DEF Serving
    <3> QED BY <1>1, <3>2, <3>3, StatusStays DEF Fresh
  <2> QED BY <1>2, <2>2, <2>3, OneMoves
<1>11. BusBefore' = Bus!Without({c})
  <2>1. \A i, j \in Calls : <<i, j>> \in BusBefore' <=>
                              <<i, j>> \in BusBefore /\ i # c /\ j # c
    <3> SUFFICES ASSUME NEW i \in Calls, NEW j \in Calls
                 PROVE  <<i, j>> \in BusBefore' <=> <<i, j>> \in BusBefore /\ i # c /\ j # c
      OBVIOUS
    <3>1. \A r \in Qids : /\ i \in pending'[r] <=> i \in pending[r] /\ i # c
                          /\ j \in pending'[r] <=> j \in pending[r] /\ j # c
      BY <1>1, <1>3
    <3> QED BY <1>1, <3>1, PairsOf, PairsOfPrime
  <2> QED BY <2>1, PairsAre DEF Bus!Without
<1> QED BY <1>2, <1>6, <1>8, <1>9, <1>10, <1>11 DEF Bus!Serve

\* The worker's fn returns, raises or is cancelled.
LEMMA FinishStep ==
  ASSUME QueueInv, NEW q \in Qids, NEW c, c = current[q], wstate[q] = "running",
         current' = [current EXCEPT ![q] = NoCall],
         \A d \in Calls : caller'[d] \in {"idle", "locking"} <=> Fresh(d),
         UNCHANGED <<cancelled, pending, seq>>
  PROVE  c \in QueuedCalls /\ Bus!Finish(c)
<1>1. c # NoCall /\ c \in Calls
  BY QueueTypes DEF QueueInv, CallInv
<1>2. c \in QueuedCalls
  BY <1>1 DEF QueuedCalls, QueueInv, CallInv
<1>3. ~InLine(c) /\ Serving(c) /\ ~Fresh(c)
  BY <1>1 DEF InLine, Serving, Fresh, QueueInv, CallInv
<1>4. \A r \in Qids : current'[r] = IF r = q THEN NoCall ELSE current[r]
  BY QueueTypes DEF QueueInv
<1>5. \A r \in Qids : r # q => current[r] # c
  BY <1>1 DEF QueueInv, CallInv
<1>6. BusStatus[c] = "serving"
  BY <1>2, <1>3, StatusOf
<1>7. BusStatus'[c] = "gone"
  <2>1. ~\E r \in Qids : c \in pending'[r] /\ ~cancelled'[r]
    BY <1>3 DEF InLine
  <2>2. ~\E r \in Qids : current'[r] = c
    BY <1>1, <1>4, <1>5
  <2> QED BY <1>1, <1>2, <1>3, <2>1, <2>2, StatusOfPrime
<1>8. \A d \in QueuedCalls \ {c} : BusStatus'[d] = BusStatus[d]
  <2> SUFFICES ASSUME NEW d \in QueuedCalls, d # c PROVE BusStatus'[d] = BusStatus[d]
    OBVIOUS
  <2>1. d # NoCall /\ d \in Calls
    BY NoneAssumption DEF QueuedCalls
  <2>2. (\E r \in Qids : d \in pending'[r] /\ ~cancelled'[r]) <=> InLine(d)
    BY DEF InLine
  <2>3. (\E r \in Qids : current'[r] = d) <=> Serving(d)
    BY <1>4, <2>1 DEF Serving
  <2> QED BY <2>1, <2>2, <2>3, StatusStays
<1>9. BusStatus' = [BusStatus EXCEPT ![c] = "gone"]
  BY <1>2, <1>7, <1>8, OneMoves
<1>10. BusBefore' = BusBefore
  BY DEF BusBefore
<1> QED BY <1>2, <1>6, <1>9, <1>10 DEF Bus!Finish

\* A release stops a queue: its line is dropped, and nothing else waits on its key.
LEMMA DropStep ==
  ASSUME QueueInv, NEW q \in Qids, NEW S, S = pending[q], ~cancelled[q],
         cancelled' = Cancel(q), UNCHANGED <<pending, current, seq, caller>>
  PROVE  IF S = {} THEN UNCHANGED Bus!busVars ELSE S \in SUBSET QueuedCalls /\ Bus!Drop(S)
<1>1. S \subseteq QueuedCalls
  BY QueueTypes DEF QueuedCalls, QueueInv, CallInv
<1>2. \A r \in Qids : cancelled'[r] = IF r = q THEN TRUE ELSE cancelled[r]
  BY QueueTypes DEF QueueInv, Cancel
<1>3. \A r \in Qids : r # q => \A c \in S : c \notin pending[r]
  BY DEF QueueInv, CallInv
<1>4. \A c \in S : InLine(c) /\ ~Serving(c) /\ ~Fresh(c)
  BY DEF InLine, Serving, Fresh, QueueInv, CallInv
<1>5. \A c \in S : BusStatus[c] = "waiting"
  BY <1>1, <1>4, StatusOf
<1>6. \A c \in S : BusStatus'[c] = "gone"
  <2> SUFFICES ASSUME NEW c \in S PROVE BusStatus'[c] = "gone"
    OBVIOUS
  <2>1. ~\E r \in Qids : c \in pending'[r] /\ ~cancelled'[r]
    BY <1>2, <1>3
  <2> QED BY <1>1, <1>4, <2>1, StatusOfPrime DEF Serving, Fresh
<1>7. \A c \in QueuedCalls \ S : BusStatus'[c] = BusStatus[c]
  <2> SUFFICES ASSUME NEW c \in QueuedCalls, c \notin S PROVE BusStatus'[c] = BusStatus[c]
    OBVIOUS
  <2>1. (\E r \in Qids : c \in pending'[r] /\ ~cancelled'[r]) <=> InLine(c)
    BY <1>2 DEF InLine
  <2> QED BY <2>1, StatusStays DEF Serving, Fresh
<1>8. BusStatus' = [c \in QueuedCalls |-> IF c \in S THEN "gone" ELSE BusStatus[c]]
  BY <1>6, <1>7, StatusIs
<1>9. BusBefore' = Bus!Without(S)
  <2>1. \A i, j \in Calls : <<i, j>> \in BusBefore' <=>
                              <<i, j>> \in BusBefore /\ i \notin S /\ j \notin S
    <3> SUFFICES ASSUME NEW i \in Calls, NEW j \in Calls
                 PROVE  <<i, j>> \in BusBefore' <=>
                          <<i, j>> \in BusBefore /\ i \notin S /\ j \notin S
      OBVIOUS
    <3>1. \A r \in Qids :
            ~cancelled'[r] /\ i \in pending'[r] /\ j \in pending'[r] /\ seq'[i] < seq'[j] <=>
            /\ ~cancelled[r] /\ i \in pending[r] /\ j \in pending[r] /\ seq[i] < seq[j]
            /\ i \notin S /\ j \notin S
      BY <1>2, <1>3
    <3> QED BY <3>1, PairsOf, PairsOfPrime
  <2> QED BY <2>1, PairsAre DEF Bus!Without
<1>10. \A i \in S, j \in QueuedCalls : BusStatus[j] = "waiting" /\ KeyOf(i) = KeyOf(j) => j \in S
  <2> SUFFICES ASSUME NEW i \in S, NEW j \in QueuedCalls, InLine(j), KeyOf(i) = KeyOf(j)
               PROVE  j \in S
    BY StatusOf
  <2>1. PICK r \in Qids : j \in pending[r] /\ ~cancelled[r]
    BY DEF InLine
  <2>2. queues[KeyOf(j)] = r /\ queues[KeyOf(i)] = q
    BY <2>1, LineOfKey
  <2> QED BY <2>1, <2>2
<1>11. CASE S = {}
  <2>1. BusStatus' = BusStatus
    BY <1>8, <1>11, StatusIs
  <2>2. BusBefore' = BusBefore
    BY <1>9, <1>11 DEF Bus!Without
  <2> QED BY <1>11, <2>1, <2>2 DEF Bus!busVars
<1>12. CASE S # {}
  BY <1>1, <1>5, <1>8, <1>9, <1>10, <1>12 DEF Bus!Drop
<1> QED BY <1>11, <1>12

-----------------------------------------------------------------------------
(* Every step.                                                              *)

BusStep == Bus!BusNext \/ UNCHANGED Bus!busVars

LEMMA BusWorker ==
  ASSUME QueueInv, NEW q \in Qids, Worker(q)
  PROVE  BusStep
<1> USE DEF callVars, workerVars
<1>1. ASSUME NEW c \in Calls, Take(q, c) PROVE BusStep
  BY <1>1, ServeStep DEF BusStep, Bus!BusNext
<1>2. ASSUME NEW o \in Outcomes, FnReturns(q, o) PROVE BusStep
  <2>1. \A d \in Calls : caller'[d] \in {"idle", "locking"} <=> Fresh(d)
    BY <1>2, QueueTypes DEF QueueInv, FnReturns, Resolve, Outcomes, Fresh
  <2>2. \E c : c \in QueuedCalls /\ Bus!Finish(c)
    BY <1>2, <2>1, FinishStep DEF FnReturns
  <2> QED BY <2>2 DEF BusStep, Bus!BusNext
<1>3. CASE FnCancelled(q)
  <2>1. \E c : c \in QueuedCalls /\ Bus!Finish(c)
    BY <1>3, FinishStep DEF FnCancelled, Fresh
  <2> QED BY <2>1 DEF BusStep, Bus!BusNext
<1>4. CASE Wakes(q) \/ WorkerEnds(q)
  BY <1>4, BusRests DEF Wakes, WorkerEnds, Fresh, BusStep
<1> QED BY <1>1, <1>2, <1>3, <1>4 DEF Worker

LEMMA BusRelease ==
  ASSUME QueueInv, Release
  PROVE  BusStep
<1> USE DEF callVars, workerVars, regVars
<1>1. ASSUME NEW k \in Keys, ReleaseKey(k) PROVE BusStep
  <2>1. UNCHANGED <<pending, current, seq, caller>>
    BY <1>1 DEF ReleaseKey
  <2>2. CASE LastOwner(k) /\ queues[k] # NoQueue
    <3> DEFINE q == queues[k]
    <3>1. q \in Qids /\ ~cancelled[q]
      BY <2>2, QueueTypes DEF QueueInv, ServiceInv, RegistryInv
    <3>2. cancelled' = Cancel(q)
      BY <1>1, <2>2 DEF ReleaseKey
    <3> HIDE DEF q
    <3>3. \E S : IF S = {} THEN UNCHANGED Bus!busVars
                 ELSE S \in SUBSET QueuedCalls /\ Bus!Drop(S)
      BY <2>1, <3>1, <3>2, DropStep
    <3> QED BY <3>3 DEF BusStep, Bus!BusNext
  <2>3. CASE ~(LastOwner(k) /\ queues[k] # NoQueue)
    <3>1. cancelled' = cancelled
      BY <1>1, <2>3 DEF ReleaseKey
    <3> QED BY <2>1, <3>1, BusRests DEF Fresh, BusStep
  <2> QED BY <2>2, <2>3
<1>2. CASE StopReturns \/ ReleaseEnd
  BY <1>2, BusRests DEF StopReturns, ReleaseEnd, Fresh, BusStep
<1> QED BY <1>1, <1>2 DEF Release

LEMMA BusCaller ==
  ASSUME QueueInv, NEW c \in Calls, Caller(c)
  PROVE  BusStep
<1> USE DEF callVars, workerVars
<1>t. caller \in [Calls -> CallerStates]
  BY QueueTypes DEF QueueInv
<1>1. CASE RunDirect(c)
  <2>1. \A d \in QueuedCalls : caller'[d] = caller[d]
    BY <1>t, <1>1 DEF RunDirect, QueuedCalls
  <2> QED BY <1>1, <2>1, BusRests DEF RunDirect, Fresh, BusStep
<1>2. CASE EnsureWaits(c)
  <2>1. \A d \in QueuedCalls : caller'[d] \in {"idle", "locking"} <=> Fresh(d)
    BY <1>t, <1>2 DEF EnsureWaits, QueuedCalls, Fresh
  <2> QED BY <1>2, <2>1, BusRests DEF EnsureWaits, BusStep
<1>3. CASE EnqueueExisting(c)
  <2> DEFINE q == queues[KeyOf(c)]
  <2>1. ~Bypass(c) /\ Fresh(c) /\ c \in QueuedCalls
    BY <1>3 DEF EnqueueExisting, EnsureLocks, QueueInv, CallInv, Fresh, QueuedCalls
  <2>2. q \in Qids /\ KeyOf(c) \in Keys
    BY <1>3, QueueTypes, CallFacts DEF QueueInv, EnqueueExisting
  <2>3. qkey[q] = KeyOf(c) /\ ~cancelled[q]
    BY <1>3, <2>2 DEF EnqueueExisting, QueueInv, ServiceInv, RegistryInv
  <2>4. Put(c, q) /\ UNCHANGED <<cancelled, current>>
    BY <1>3 DEF EnqueueExisting
  <2>5. queues[KeyOf(c)] = q
    OBVIOUS
  <2> HIDE DEF q
  <2>6. \A i \in pending[q] : KeyOf(i) = KeyOf(c)
    BY <2>2, <2>3 DEF QueueInv, ServiceInv, WorkerInv
  <2>7. Bus!Submit(c)
    BY <2>1, <2>2, <2>3, <2>4, <2>5, <2>6, SubmitStep
  <2> QED BY <2>1, <2>7 DEF BusStep, Bus!BusNext
<1>4. CASE EnqueueNew(c)
  <2> DEFINE q == CHOOSE q \in Unborn : TRUE
  <2>1. ~Bypass(c) /\ Fresh(c) /\ c \in QueuedCalls
    BY <1>4 DEF EnqueueNew, EnsureLocks, QueueInv, CallInv, Fresh, QueuedCalls
  <2>2. q \in Unborn
    BY <1>4, FreshQueue DEF EnqueueNew
  <2>3. Put(c, q) /\ UNCHANGED <<cancelled, current>> /\ queues[KeyOf(c)] = NoQueue
    BY <1>4 DEF EnqueueNew
  <2> HIDE DEF q
  <2>4. q \in Qids /\ wstate[q] = "unborn"
    BY <2>2 DEF Unborn
  <2>5. pending[q] = {} /\ ~cancelled[q]
    BY <2>4, UnbornIsEmpty DEF QueueInv
  <2>6. Bus!Submit(c)
    BY <2>1, <2>3, <2>4, <2>5, SubmitStep
  <2> QED BY <2>1, <2>6 DEF BusStep, Bus!BusNext
<1>5. CASE CallerCancelled(c)
  <2>1. \A d \in QueuedCalls : caller'[d] \in {"idle", "locking"} <=> Fresh(d)
    BY <1>t, <1>5 DEF CallerCancelled, QueuedCalls, Fresh
  <2> QED BY <1>5, <2>1, BusRests DEF CallerCancelled, BusStep
<1>6. CASE WaiterCancelled(c)
  <2>1. Fresh(c) /\ c \in QueuedCalls
    BY <1>6 DEF WaiterCancelled, Fresh, QueueInv, CallInv, QueuedCalls
  <2>2. Bus!Withdraw(c)
    BY <1>6, <2>1, WithdrawStep DEF WaiterCancelled
  <2> QED BY <2>1, <2>2 DEF BusStep, Bus!BusNext
<1>7. ASSUME NEW o \in Outcomes, DirectReturns(c, o) PROVE BusStep
  <2>1. \A d \in QueuedCalls : caller'[d] \in {"idle", "locking"} <=> Fresh(d)
    BY <1>t, <1>7 DEF DirectReturns, QueuedCalls, Fresh, Outcomes
  <2> QED BY <1>7, <2>1, BusRests DEF DirectReturns, BusStep
<1> QED BY <1>1, <1>2, <1>3, <1>4, <1>5, <1>6, <1>7 DEF Caller

\* Every step of the queues is a step of the bus, or none.
LEMMA BusSteps == QueueInv /\ [Next]_vars => BusStep
<1> SUFFICES ASSUME QueueInv, [Next]_vars PROVE BusStep
  OBVIOUS
<1> USE DEF callVars, workerVars
<1>1. ASSUME NEW e \in Entries, Lifecycle(e) PROVE BusStep
  BY <1>1, BusRests DEF Lifecycle, Setup, SetupDone, SetupFails, BeginUnload,
                        ReleaseWaits, ReleaseBegin, Fresh, BusStep
<1>2. CASE Release
  BY <1>2, BusRelease
<1>3. ASSUME NEW c \in Calls, Caller(c) PROVE BusStep
  BY <1>3, BusCaller
<1>4. ASSUME NEW q \in Qids, Worker(q) PROVE BusStep
  BY <1>4, BusWorker
<1>5. CASE UNCHANGED vars
  BY <1>5, BusRests DEF vars, Fresh, BusStep
<1> QED BY <1>1, <1>2, <1>3, <1>4, <1>5 DEF Next

\* The queues implement SerialBus (CommandQueue, QueueRegistry and run_on_bus): over all
\* interleavings of calls, cancellations, failures, unloads and reloads a transport key
\* serves one command at a time, each at most once, the user's before the polls', in
\* their order of arrival, and drops a whole line or nothing of it.
THEOREM QueuesImplementSerialBus == Spec => ImplementsSerialBus
<1>1. Init => Bus!BusInit
  BY BusStarts
<1>2. QueueInv /\ [Next]_vars => [Bus!BusNext]_Bus!busVars
  BY BusSteps DEF BusStep
<1> QED BY <1>1, <1>2, QueueInvariant, PTL DEF Spec, ImplementsSerialBus, Bus!BusSpec
=============================================================================
