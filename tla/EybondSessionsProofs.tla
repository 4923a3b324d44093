------------------------ MODULE EybondSessionsProofs ------------------------
(***************************************************************************)
(* Proofs about EybondSessions for any sets of dongles, sessions and        *)
(* requests.                                                                *)
(***************************************************************************)
EXTENDS EybondSessions, TLAPS

-----------------------------------------------------------------------------
(* Facts about transaction ids, frames and lines.                           *)

\* A transaction id stays in its range and, below the bound, grows.
LEMMA NextTid ==
  ASSUME NEW s \in Sessions, tid \in [Sessions -> Tids]
  PROVE  /\ next_tid(s) \in Tids
         /\ tid[s] < FrameBound => next_tid(s) = tid[s] + 1
  <1>1. tid[s] \in 0..(TidSpace - 1)
    BY DEF Tids
  <1>2. QED
    BY <1>1, BoundAssumption DEF next_tid, Tids

\* What the head of an inbox is, by its function code.
LEMMA HeadFrame ==
  ASSUME NEW s \in Sessions, inbox \in [Sessions -> Seq(Frames)], inbox[s] # <<>>
  PROVE  /\ Head(inbox[s]) = inbox[s][1]
         /\ 1 \in 1..Len(inbox[s])
         /\ Head(inbox[s]) \in Frames
         /\ Head(inbox[s]).fc = "heartbeat" => Head(inbox[s]).pn \in PNs \cup {NoPN}
         /\ Head(inbox[s]).fc = "forward" => /\ Head(inbox[s]).tid \in Tids
                                            /\ Head(inbox[s]).req \in Reqs
  <1>1. inbox[s] \in Seq(Frames)
    OBVIOUS
  <1>2. Head(inbox[s]) = inbox[s][1] /\ 1 \in 1..Len(inbox[s])
        /\ Head(inbox[s]) \in Frames
    BY <1>1
  <1>3. QED
    BY <1>2 DEF Frames

\* Reading a frame leaves the frames behind it.
LEMMA TailFrames ==
  ASSUME NEW s \in Sessions, inbox \in [Sessions -> Seq(Frames)], inbox[s] # <<>>
  PROVE  /\ Tail(inbox[s]) \in Seq(Frames)
         /\ Len(Tail(inbox[s])) = Len(inbox[s]) - 1
         /\ \A i \in 1..Len(Tail(inbox[s])) : /\ i + 1 \in 1..Len(inbox[s])
                                              /\ Tail(inbox[s])[i] = inbox[s][i + 1]
  <1>1. inbox[s] \in Seq(Frames)
    OBVIOUS
  <1>2. QED
    BY <1>1

\* A cancelled waiter leaves the line; the others keep their order, and the head
\* stays unless it was the waiter itself.
LEMMA LeaveLine ==
  ASSUME NEW w \in Seq(Reqs), NEW i \in 1..Len(w)
  PROVE  /\ Without(w, i) \in Seq(Reqs)
         /\ \A j \in 1..Len(w) : j # i =>
              \E k \in 1..Len(Without(w, i)) : Without(w, i)[k] = w[j]
         /\ i # 1 => Without(w, i) # <<>> /\ Head(Without(w, i)) = Head(w)
  <1> DEFINE u == SubSeq(w, 1, i - 1)
             v == SubSeq(w, i + 1, Len(w))
  <1>1. /\ u \in Seq(Reqs) /\ Len(u) = i - 1
        /\ \A j \in 1..(i - 1) : u[j] = w[j]
    OBVIOUS
  <1>2. /\ v \in Seq(Reqs) /\ Len(v) = Len(w) - i
        /\ \A j \in 1..(Len(w) - i) : v[j] = w[i + j]
    OBVIOUS
  <1> HIDE DEF u, v
  <1>3. u \o v \in Seq(Reqs) /\ Len(u \o v) = Len(w) - 1
    <2>1. u \in Seq(Reqs) /\ v \in Seq(Reqs)
      BY <1>1, <1>2
    <2>2. u \o v \in Seq(Reqs) /\ Len(u \o v) = Len(u) + Len(v)
      BY <2>1
    <2>3. Len(w) \in Nat /\ i \in Nat
      OBVIOUS
    <2>4. QED
      BY <1>1, <1>2, <2>2, <2>3
  <1>4. ASSUME NEW j \in 1..(i - 1) PROVE (u \o v)[j] = w[j]
    <2>1. j >= 1 /\ j <= Len(u) /\ j <= Len(u) + Len(v)
      BY <1>1, <1>2
    <2>2. (u \o v)[j] = u[j]
      BY <1>1, <1>2, <2>1
    <2>3. QED
      BY <1>1, <2>2
  <1>5. ASSUME NEW j \in (i + 1)..Len(w) PROVE (u \o v)[j - 1] = w[j]
    <2>1. j - 1 > Len(u) /\ j - 1 <= Len(u) + Len(v) /\ (j - 1) - Len(u) = j - i
      BY <1>1, <1>2
    <2>2. (u \o v)[j - 1] = v[j - i]
      BY <1>1, <1>2, <2>1
    <2>3. j - i \in 1..(Len(w) - i) /\ i + (j - i) = j
      OBVIOUS
    <2>4. QED
      BY <1>2, <2>2, <2>3
  <1>w. Without(w, i) = u \o v
    BY DEF Without, u, v
  <1>e. ASSUME NEW j \in 1..Len(w), j # i
        PROVE  \E k \in 1..Len(Without(w, i)) : Without(w, i)[k] = w[j]
    <2>1. CASE j < i
      <3>1. j \in 1..Len(u \o v) /\ (u \o v)[j] = w[j]
        BY <1>3, <1>4, <2>1
      <3>2. QED
        BY <1>w, <3>1
    <2>2. CASE j > i
      <3>1. j - 1 \in 1..Len(u \o v) /\ (u \o v)[j - 1] = w[j]
        BY <1>3, <1>5, <2>2
      <3>2. QED
        BY <1>w, <3>1
    <2>3. QED
      BY <1>e, <2>1, <2>2
  <1>6. ASSUME i # 1
        PROVE  Without(w, i) # <<>> /\ Head(Without(w, i)) = Head(w)
    <2>1. 1 \in 1..(i - 1) /\ Len(w) > 1
      BY <1>6
    <2>2. Without(w, i) \in Seq(Reqs) /\ Len(Without(w, i)) > 0
          /\ Without(w, i)[1] = w[1]
      BY <1>3, <1>4, <1>w, <2>1
    <2>3. QED
      BY <2>1, <2>2
  <1>7. QED
    BY <1>3, <1>w, <1>e, <1>6

-----------------------------------------------------------------------------
(* Types.                                                                   *)

\* Waking waiters and failing futures leaves requests in states of theirs.
LEMMA WakeTypes ==
  ASSUME req \in [Reqs -> ReqStates]
  PROVE  /\ \A p : WakeFor(p) \in [Reqs -> ReqStates]
         /\ \A s : LostWith(s) \in [Reqs -> ReqStates]
  BY DEF WakeFor, LostWith, ReqStates

\* _drop_session keeps the types of the tables.
LEMMA DropTypes ==
  ASSUME TypeOK, NEW s \in Sessions
  PROVE  /\ Unmapped(s) \in [PNs -> Sessions \cup {NoSession}]
         /\ drop_session(s) =>
              /\ sessions' \in SUBSET Sessions
              /\ sessions_by_pn' \in [PNs -> Sessions \cup {NoSession}]
              /\ ready_by_pn' \in SUBSET PNs
              /\ pending' \in [Sessions -> SUBSET Reqs]
              /\ any_ready' \in BOOLEAN
  BY DEF TypeOK, Unmapped, drop_session

\* A request is sent to a session, if anywhere.
LEMMA ResolvedType ==
  ASSUME TypeOK, NEW r \in Reqs
  PROVE  Resolved(r) \in Sessions \cup {NoSession}
  <1>1. CASE Target[r] # NoPN
    BY <1>1, TargetAssumption DEF TypeOK, Resolved
  <1>2. CASE Target[r] = NoPN
    BY <1>2 DEF TypeOK, Resolved
  <1>3. QED
    BY <1>1, <1>2

LEMMA TransmitTypes ==
  ASSUME TypeOK, NEW r \in Reqs, NEW s \in Sessions, NEW line \in Seq(Reqs),
         line # <<>>, Transmit(r, s, line)
  PROVE  /\ tid' \in [Sessions -> Tids]
         /\ req' \in [Reqs -> ReqStates]
         /\ rsess' \in [Reqs -> Sessions \cup {NoSession}]
         /\ rtid' \in [Reqs -> Tids]
         /\ pending' \in [Sessions -> SUBSET Reqs]
         /\ wire' \in [Sessions -> SUBSET Reqs]
         /\ send_lock' \in [Sessions -> Seq(Reqs)]
  <1>1. next_tid(s) \in Tids
    BY NextTid DEF TypeOK
  <1>2. Tail(line) \in Seq(Reqs)
    OBVIOUS
  <1>3. CASE Writable(s)
    <2>1. /\ tid' = [tid EXCEPT ![s] = next_tid(s)]
          /\ req' = [req EXCEPT ![r] = "sent"]
          /\ rsess' = [rsess EXCEPT ![r] = s]
          /\ rtid' = [rtid EXCEPT ![r] = next_tid(s)]
          /\ pending' = [pending EXCEPT ![s] = @ \cup {r}]
          /\ wire' = [wire EXCEPT ![s] = IF link[s] = "up" THEN @ \cup {r} ELSE @]
          /\ send_lock' = [send_lock EXCEPT ![s] = line]
      BY <1>3 DEF Transmit
    <2>2. wire' \in [Sessions -> SUBSET Reqs]
      BY <2>1 DEF TypeOK
    <2>3. send_lock' \in [Sessions -> Seq(Reqs)] /\ tid' \in [Sessions -> Tids]
          /\ rtid' \in [Reqs -> Tids]
      BY <1>1, <2>1 DEF TypeOK
    <2>4. QED
      BY <2>1, <2>2, <2>3 DEF TypeOK, ReqStates
  <1>4. CASE ~Writable(s)
    BY <1>1, <1>2, <1>4 DEF TypeOK, Transmit, ReqStates
  <1>5. QED
    BY <1>3, <1>4

LEMMA ProceedsTypes ==
  ASSUME TypeOK, NEW r \in Reqs, Proceeds(r)
  PROVE  /\ tid' \in [Sessions -> Tids]
         /\ req' \in [Reqs -> ReqStates]
         /\ rsess' \in [Reqs -> Sessions \cup {NoSession}]
         /\ rtid' \in [Reqs -> Tids]
         /\ pending' \in [Sessions -> SUBSET Reqs]
         /\ wire' \in [Sessions -> SUBSET Reqs]
         /\ send_lock' \in [Sessions -> Seq(Reqs)]
  <1>1. CASE Resolved(r) = NoSession
    BY <1>1 DEF Proceeds, Dropped, TypeOK, ReqStates
  <1>2. CASE Resolved(r) # NoSession
    <2> DEFINE s == Resolved(r)
    <2>1. s \in Sessions /\ Joins(r, s)
      BY <1>2, ResolvedType DEF Proceeds
    <2> HIDE DEF s
    <2>2. CASE Transmit(r, s, <<r>>)
      <3>1. <<r>> \in Seq(Reqs) /\ <<r>> # <<>>
        OBVIOUS
      <3>2. QED
        BY <2>1, <2>2, <3>1, TransmitTypes
    <2>3. CASE ~Transmit(r, s, <<r>>)
      <3>1. /\ send_lock' = [send_lock EXCEPT ![s] = Append(@, r)]
            /\ req' = [req EXCEPT ![r] = "locking"]
            /\ rsess' = [rsess EXCEPT ![r] = s]
            /\ UNCHANGED <<tid, rtid, pending, wire>>
        BY <2>1, <2>3 DEF Joins
      <3>2. send_lock[s] \in Seq(Reqs)
        BY <2>1 DEF TypeOK
      <3>3. Append(send_lock[s], r) \in Seq(Reqs)
        BY <3>2
      <3>4. send_lock' \in [Sessions -> Seq(Reqs)]
        BY <3>1, <3>3 DEF TypeOK
      <3>5. QED
        BY <2>1, <3>1, <3>4 DEF TypeOK, ReqStates
    <2>4. QED
      BY <2>2, <2>3
  <1>3. QED
    BY <1>1, <1>2

LEMMA TypeInit == Init => TypeOK
  <1> SUFFICES ASSUME Init PROVE TypeOK
    OBVIOUS
  <1>1. 0 \in Tids
    BY BoundAssumption DEF Tids
  <1>2. got \in [Reqs -> [from : PNs \cup {NoPN}, req : Reqs \cup {NoReq}]]
    BY DEF Init
  <1>3. status \in [PNs -> {"unknown", "connected", "disconnected"}]
    BY DEF Init
  <1>4. inbox \in [Sessions -> Seq(Frames)] /\ send_lock \in [Sessions -> Seq(Reqs)]
    BY DEF Init
  <1>5. QED
    BY <1>1, <1>2, <1>3, <1>4 DEF Init, TypeOK, ReqStates

LEMMA TypeDongle ==
  ASSUME TypeOK, NEW s \in Sessions, Dongle(s)
  PROVE  TypeOK'
  <1> USE DEF TypeOK, mgrVars, mapVars, reqVars
  <1>1. ASSUME NEW p \in PNs, Accept(s, p)
        PROVE  TypeOK'
    <2>1. 0 \in Tids
      BY BoundAssumption DEF Tids
    <2>2. QED
      BY <1>1, <2>1 DEF Accept
  <1>2. ASSUME NEW p \in PNs \cup {NoPN}, DongleHeartbeat(s, p)
        PROVE  TypeOK'
    <2>1. [fc |-> "heartbeat", pn |-> p] \in Frames
      BY DEF Frames
    <2>2. inbox' \in [Sessions -> Seq(Frames)]
      BY <1>2, <2>1 DEF DongleHeartbeat
    <2>3. QED
      BY <1>2, <2>2 DEF DongleHeartbeat
  <1>3. ASSUME NEW r \in Reqs, DongleReplies(s, r)
        PROVE  TypeOK'
    <2>1. [fc |-> "forward", tid |-> rtid[r], req |-> r] \in Frames
      BY DEF Frames
    <2>2. inbox' \in [Sessions -> Seq(Frames)]
      BY <1>3, <2>1 DEF DongleReplies
    <2>3. QED
      BY <1>3, <2>2 DEF DongleReplies
  <1>4. CASE DongleVanishes(s) \/ DongleCloses(s) \/ LinkFails(s)
    BY <1>4 DEF DongleVanishes, DongleCloses, LinkFails
  <1>5. QED
    BY <1>1, <1>2, <1>3, <1>4 DEF Dongle

LEMMA TypeHandler ==
  ASSUME TypeOK, NEW s \in Sessions, Handler(s)
  PROVE  TypeOK'
  <1> USE DEF TypeOK, mgrVars, mapVars, reqVars
  <1>1. CASE HandlerStarts(s)
    BY <1>1, WakeTypes DEF HandlerStarts
  <1>r. ASSUME NEW fc, Reads(s, fc)
        PROVE  inbox' \in [Sessions -> Seq(Frames)]
    BY <1>r, TailFrames DEF Reads
  <1>2. CASE Identifies(s)
    <2> DEFINE p == Head(inbox[s]).pn
               old == sessions_by_pn[p]
    <2>1. p \in PNs
      BY <1>2, HeadFrame DEF Identifies, Reads
    <2>2. old \in Sessions \cup {NoSession}
      BY <2>1
    <2>3. inbox' \in [Sessions -> Seq(Frames)]
      BY <1>2, <1>r DEF Identifies
    <2>4. /\ pn' = [pn EXCEPT ![s] = p]
          /\ status' = [status EXCEPT ![p] = "connected"]
          /\ sessions_by_pn' = [sessions_by_pn EXCEPT ![p] = s]
          /\ ready_by_pn' = ready_by_pn \cup {p}
          /\ UNCHANGED <<mgrVars, dongle, handler, tid, wire, send_lock, rsess, rtid, got>>
      BY <1>2 DEF Identifies
    <2>5. /\ link' \in [Sessions -> {"up", "stale", "eof", "reset", "closed"}]
          /\ sessions' \in SUBSET Sessions
          /\ any_ready' \in BOOLEAN
          /\ pending' \in [Sessions -> SUBSET Reqs]
          /\ req' \in [Reqs -> ReqStates]
      <3>1. CASE old = NoSession
        BY <1>2, <3>1, WakeTypes DEF Identifies
      <3>2. CASE old # NoSession
        <4>1. /\ link' = [link EXCEPT ![old] = "closed"]
              /\ sessions' = sessions \ {old}
              /\ any_ready' = (any_ready /\ sessions \ {old} # {})
              /\ pending' = [pending EXCEPT ![old] = {}]
              /\ req' = [r \in Reqs |-> IF LostWith(old)[r] = "lost" THEN "lost"
                                                                    ELSE WakeFor(p)[r]]
          BY <1>2, <3>2 DEF Identifies
        <4>2. req' \in [Reqs -> ReqStates]
          BY <4>1, WakeTypes DEF ReqStates
        <4>3. QED
          BY <4>1, <4>2
      <3>3. QED
        BY <3>1, <3>2
    <2>6. QED
      BY <2>1, <2>3, <2>4, <2>5
  <1>3. CASE HeartbeatAgain(s)
    <2>1. inbox' \in [Sessions -> Seq(Frames)]
      BY <1>3, <1>r DEF HeartbeatAgain
    <2>2. QED
      BY <1>3, <2>1 DEF HeartbeatAgain
  <1>4. CASE ReadsReply(s)
    <2> DEFINE matched == {r \in pending[s] : rtid[r] = Head(inbox[s]).tid}
               reply == [from |-> dongle[s], req |-> Head(inbox[s]).req]
    <2>1. inbox' \in [Sessions -> Seq(Frames)]
      BY <1>4, <1>r DEF ReadsReply
    <2>2. Head(inbox[s]).req \in Reqs
      BY <1>4, HeadFrame DEF ReadsReply, Reads
    <2>3. /\ pending' = [pending EXCEPT ![s] = @ \ matched]
          /\ req' = [r \in Reqs |-> IF r \in matched /\ req[r] = "sent" THEN "replied"
                                                                       ELSE req[r]]
          /\ got' = [r \in Reqs |-> IF r \in matched /\ req[r] = "sent" THEN reply
                                                                       ELSE got[r]]
          /\ UNCHANGED <<mgrVars, dongle, handler, link, pn, tid, wire, send_lock,
                         mapVars, rsess, rtid>>
      BY <1>4 DEF ReadsReply
    <2>4. reply \in [from : PNs \cup {NoPN}, req : Reqs \cup {NoReq}]
      BY <2>2
    <2> HIDE DEF matched, reply
    <2>5. QED
      BY <2>1, <2>3, <2>4 DEF ReqStates
  <1>5. CASE HandlerStops(s)
    BY <1>5 DEF HandlerStops
  <1>6. CASE SessionEnds(s)
    <2>1. status' \in [PNs -> {"unknown", "connected", "disconnected"}]
      BY <1>6 DEF SessionEnds, Disconnected
    <2>2. QED
      BY <1>6, <2>1, DropTypes, WakeTypes DEF SessionEnds
  <1>7. QED
    BY <1>1, <1>2, <1>3, <1>4, <1>5, <1>6 DEF Handler

LEMMA TypeKeepalive ==
  ASSUME TypeOK, NEW s \in Sessions, Keepalive(s)
  PROVE  TypeOK'
  <1> USE DEF TypeOK, mgrVars, mapVars, reqVars
  <1>1. CASE SendsHeartbeat(s)
    BY <1>1, NextTid DEF SendsHeartbeat
  <1>2. CASE HeartbeatFails(s)
    BY <1>2 DEF HeartbeatFails
  <1>3. QED
    BY <1>1, <1>2 DEF Keepalive

LEMMA ReleaseTypes ==
  ASSUME TypeOK, NEW r \in Reqs, rsess[r] \in Sessions, send_lock[rsess[r]] # <<>>,
         Releases(r)
  PROVE  /\ send_lock' \in [Sessions -> Seq(Reqs)]
         /\ rsess' \in [Reqs -> Sessions \cup {NoSession}]
  <1>1. send_lock[rsess[r]] \in Seq(Reqs)
    BY DEF TypeOK
  <1>2. Tail(send_lock[rsess[r]]) \in Seq(Reqs)
    BY <1>1
  <1>3. QED
    BY <1>2 DEF TypeOK, Releases

\* Requests whose lock is held or awaited keep the types: their line is not empty.
LEMMA TypeRequest ==
  ASSUME TypeOK, LockInv, NEW r \in Reqs,
         Begin(r) \/ Proceed(r) \/ Expire(r) \/ Cancels(r)
  PROVE  TypeOK'
  <1> USE DEF mgrVars, sessVars, mapVars, reqVars
  <1>1. CASE Begin(r)
    <2>1. CASE MustWait(r)
      <3>1. req' \in [Reqs -> ReqStates]
        <4>1. req' = [req EXCEPT ![r] = "waiting"] /\ req \in [Reqs -> ReqStates]
          BY <1>1, <2>1 DEF Begin, TypeOK
        <4>2. QED
          BY <4>1 DEF ReqStates
      <3>2. QED
        BY <1>1, <2>1, <3>1 DEF Begin, TypeOK
    <2>2. CASE ~MustWait(r)
      BY <1>1, <2>2, ProceedsTypes DEF Begin, TypeOK
    <2>3. QED
      BY <2>1, <2>2
  <1>2. CASE Wakes(r)
    BY <1>2, ProceedsTypes DEF Wakes, TypeOK
  <1>3. CASE GetsLock(r)
    <2>1. rsess[r] \in Sessions /\ send_lock[rsess[r]] \in Seq(Reqs)
          /\ send_lock[rsess[r]] # <<>>
      BY <1>3 DEF GetsLock, LockInv, TypeOK
    <2>2. QED
      BY <1>3, <2>1, TransmitTypes DEF GetsLock, TypeOK
  <1>f. InFlight(r) => rsess[r] \in Sessions /\ send_lock[rsess[r]] # <<>>
    BY DEF LockInv
  <1>4. CASE Finishes(r)
    <2>1. req' \in [Reqs -> ReqStates]
      BY <1>4 DEF Finishes, TypeOK, ReqStates
    <2>2. QED
      BY <1>f, <1>4, <2>1, ReleaseTypes DEF Finishes, InFlight, TypeOK
  <1>5. CASE ReplyTimeout(r)
    <2>1. rsess[r] \in Sessions
      BY <1>f, <1>5 DEF ReplyTimeout, InFlight
    <2>2. req' \in [Reqs -> ReqStates] /\ pending' \in [Sessions -> SUBSET Reqs]
      BY <1>5, <2>1 DEF ReplyTimeout, TypeOK, ReqStates
    <2>3. QED
      BY <1>f, <1>5, <2>2, ReleaseTypes DEF ReplyTimeout, InFlight, TypeOK
  <1>6. CASE WaitTimeout(r) \/ CancelsWaiting(r)
    <2>1. req' \in [Reqs -> ReqStates]
      <3>1. req' \in {[req EXCEPT ![r] = "none"], [req EXCEPT ![r] = "cancelled"]}
            /\ req \in [Reqs -> ReqStates]
        BY <1>6 DEF WaitTimeout, CancelsWaiting, TypeOK
      <3>2. QED
        BY <3>1 DEF ReqStates
    <2>2. QED
      BY <1>6, <2>1 DEF WaitTimeout, CancelsWaiting, TypeOK
  <1>7. CASE CancelsSent(r)
    <2>1. req' \in [Reqs -> ReqStates]
      BY <1>7 DEF CancelsSent, TypeOK, ReqStates
    <2>2. QED
      BY <1>f, <1>7, <2>1, ReleaseTypes DEF CancelsSent, InFlight, TypeOK
  <1>8. CASE CancelsLocking(r)
    <2>1. rsess[r] \in Sessions /\ send_lock[rsess[r]] \in Seq(Reqs)
      BY <1>8 DEF CancelsLocking, LockInv, TypeOK
    <2>2. PICK i \in 1..Len(send_lock[rsess[r]]) :
            send_lock' = [send_lock EXCEPT ![rsess[r]] = Without(@, i)]
      BY <1>8 DEF CancelsLocking
    <2>3. Without(send_lock[rsess[r]], i) \in Seq(Reqs)
      BY <2>1, LeaveLine
    <2>4. send_lock' \in [Sessions -> Seq(Reqs)]
      BY <2>2, <2>3 DEF TypeOK
    <2>5. /\ req' = [req EXCEPT ![r] = "cancelled"]
          /\ rsess' = [rsess EXCEPT ![r] = NoSession]
          /\ UNCHANGED <<mgrVars, dongle, handler, link, pn, tid, inbox, wire, pending,
                         mapVars, rtid, got>>
      BY <1>8 DEF CancelsLocking
    <2>6. QED
      BY <2>4, <2>5 DEF TypeOK, ReqStates
  <1>9. QED
    BY <1>1, <1>2, <1>3, <1>4, <1>5, <1>6, <1>7, <1>8 DEF Proceed, Expire, Cancels

LEMMA ClearTypes ==
  ASSUME TypeOK, NEW q \in [Reqs -> ReqStates], ShutdownClears(q),
         link' \in [Sessions -> {"up", "stale", "eof", "reset", "closed"}],
         pending' \in [Sessions -> SUBSET Reqs]
  PROVE  TypeOK'
  <1>1. req' \in [Reqs -> ReqStates]
    BY DEF ShutdownClears, ReqStates
  <1>2. QED
    BY <1>1 DEF ShutdownClears, TypeOK

LEMMA TypeShutdown ==
  ASSUME TypeOK, Shutdown
  PROVE  TypeOK'
  <1> USE DEF sessVars, mapVars, reqVars
  <1>1. CASE ShutdownBegins \/ ShutdownEnds
    BY <1>1 DEF ShutdownBegins, ShutdownEnds, TypeOK
  <1>2. CASE ShutdownIdle
    BY <1>2, ClearTypes DEF ShutdownIdle, TypeOK
  <1>3. ASSUME NEW s \in Sessions, ShutdownDrops(s)
        PROVE  TypeOK'
    <2>1. req' \in [Reqs -> ReqStates]
      BY <1>3, WakeTypes DEF ShutdownDrops, TypeOK
    <2>2. QED
      BY <1>3, <2>1, DropTypes DEF ShutdownDrops, TypeOK
  <1>4. ASSUME NEW s \in Sessions, ShutdownDropsLast(s)
        PROVE  TypeOK'
    <2>1. LostWith(s) \in [Reqs -> ReqStates]
      BY WakeTypes DEF TypeOK
    <2>2. /\ link' \in [Sessions -> {"up", "stale", "eof", "reset", "closed"}]
          /\ pending' \in [Sessions -> SUBSET Reqs]
      BY <1>4 DEF ShutdownDropsLast, TypeOK
    <2>3. QED
      BY <1>4, <2>1, <2>2, ClearTypes DEF ShutdownDropsLast
  <1>5. QED
    BY <1>1, <1>2, <1>3, <1>4 DEF Shutdown

-----------------------------------------------------------------------------
(* The invariant in two halves: what it says of sessions and of requests.   *)

SessionSide == ObjectInv /\ MapInv /\ RoutingTables /\ IdentifiedIsRouted /\ StatusIsHonest
RequestSide == LockInv /\ TidInv /\ InFlightIsWatched /\ AnswersAreGenuine

LEMMA Halves == SessionInv <=> TypeOK /\ SessionSide /\ RequestSide
  BY DEF SessionInv, SessionSide, RequestSide

LEMMA InvInit == Init => SessionInv
  <1> SUFFICES ASSUME Init PROVE SessionInv
    OBVIOUS
  <1>1. TypeOK
    BY TypeInit
  <1>2. Connected = {}
    BY DEF Init, Connected
  <1>3. ObjectInv /\ MapInv
    BY <1>2 DEF Init, ObjectInv, MapInv, Handled
  <1>4. RoutingTables /\ IdentifiedIsRouted
    BY <1>2 DEF Init, RoutingTables, IdentifiedIsRouted
  <1>5. StatusIsHonest
    BY <1>2 DEF Init, StatusIsHonest
  <1>6. LockInv /\ InFlightIsWatched /\ AnswersAreGenuine
    BY DEF Init, LockInv, InFlight, InFlightIsWatched, AnswersAreGenuine
  <1>7. TidInv
    <2>1. \A r \in Reqs, s \in Sessions : ~Known(r, s)
      BY DEF Init, Known
    <2>2. QED
      BY <2>1 DEF TidInv, Init
  <1>8. QED
    BY <1>1, <1>3, <1>4, <1>5, <1>6, <1>7 DEF SessionInv

\* States of a request that is in no line and has no session.
Quiet == {"idle", "waiting", "deaf", "woken"}

\* Steps that only take away from sessions: futures of the sessions D are failed
\* and forgotten, frames are read or lost, handlers move on, and requests that
\* have no session yet may be woken or given up.
LEMMA RequestsKept ==
  ASSUME TypeOK, RequestSide, NEW D \in SUBSET Sessions,
         \A r \in Reqs :
           \/ req'[r] = req[r] /\ ~(req[r] = "sent" /\ \E d \in D : r \in pending[d])
           \/ req[r] \in Quiet /\ req'[r] \in Quiet \cup {"none", "cancelled"}
           \/ req[r] = "sent" /\ req'[r] = "lost" /\ \E d \in D : r \in pending[d],
         \A x \in Sessions : pending'[x] = IF x \in D THEN {} ELSE pending[x],
         \A x \in Sessions : wire'[x] \subseteq wire[x],
         \A x \in Sessions : \A i \in 1..Len(inbox'[x]) :
           \E j \in 1..Len(inbox[x]) : inbox'[x][i] = inbox[x][j],
         \A x \in Sessions : x \notin D /\ Handled(x) => Handled(x)',
         \A x \in Sessions : \/ handler'[x] = "free"
                             \/ handler[x] # "free" /\ dongle'[x] = dongle[x],
         UNCHANGED <<rsess, rtid, got, send_lock, tid>>
  PROVE  RequestSide'
  <1>1. LockInv'
    <2> SUFFICES ASSUME NEW r \in Reqs
                 PROVE
      /\ req'[r] = "locking" => /\ rsess'[r] \in Sessions
                                /\ \E i \in 1..Len(send_lock'[rsess'[r]]) :
                                      send_lock'[rsess'[r]][i] = r
      /\ InFlight(r)' => /\ rsess'[r] \in Sessions
                         /\ send_lock'[rsess'[r]] # <<>>
                         /\ Head(send_lock'[rsess'[r]]) = r
      /\ req'[r] \in {"locking", "sent"} /\ Target[r] # NoPN =>
           handler'[rsess'[r]] = "free" \/ dongle'[rsess'[r]] = Target[r]
      BY DEF LockInv
    <2>1. req'[r] = "locking" => req[r] = "locking"
      BY DEF Quiet
    <2>2. InFlight(r)' => InFlight(r)
      BY DEF InFlight, Quiet
    <2>3. req'[r] = "sent" => req[r] = "sent"
      BY DEF Quiet
    <2>4. req[r] \in {"locking", "sent"} => rsess[r] \in Sessions
      BY DEF RequestSide, LockInv, InFlight
    <2>5. QED
      BY <2>1, <2>2, <2>3, <2>4 DEF RequestSide, LockInv
  <1>2. TidInv'
    <2>1. \A r \in Reqs, x \in Sessions : Known(r, x)' => Known(r, x)
      BY DEF Known
    <2>2. \A r \in Reqs : Started(r) => Started(r)'
      BY DEF Started, Quiet
    <2>3. \A x \in Sessions : \A r \in pending'[x] :
            req'[r] = "cancelled" \/ (req'[r] = "sent" /\ rsess'[r] = x)
      <3> SUFFICES ASSUME NEW x \in Sessions, NEW r \in pending'[x]
                   PROVE  req'[r] = "cancelled" \/ (req'[r] = "sent" /\ rsess'[r] = x)
        OBVIOUS
      <3>1. x \notin D /\ r \in pending[x] /\ r \in Reqs
        BY DEF TypeOK
      <3>2. req[r] = "cancelled" \/ (req[r] = "sent" /\ rsess[r] = x)
        BY <3>1 DEF RequestSide, TidInv
      <3>3. req[r] = "sent" => \A d \in D : r \notin pending[d]
        BY <3>1, <3>2 DEF RequestSide, TidInv
      <3>4. req'[r] = req[r]
        BY <3>1, <3>2, <3>3 DEF Quiet
      <3>5. QED
        BY <3>2, <3>4
    <2>4. \A x \in Sessions : \A i \in 1..Len(inbox'[x]) :
            inbox'[x][i].fc = "forward" => inbox'[x][i].tid = rtid'[inbox'[x][i].req]
      <3> SUFFICES ASSUME NEW x \in Sessions, NEW i \in 1..Len(inbox'[x]),
                          inbox'[x][i].fc = "forward"
                   PROVE  inbox'[x][i].tid = rtid'[inbox'[x][i].req]
        OBVIOUS
      <3>1. PICK j \in 1..Len(inbox[x]) : inbox'[x][i] = inbox[x][j]
        OBVIOUS
      <3>2. inbox[x][j].tid = rtid[inbox[x][j].req]
        BY <3>1 DEF RequestSide, TidInv
      <3>3. QED
        BY <3>1, <3>2
    <2>5. /\ \A r \in Reqs, x \in Sessions : Known(r, x) => Started(r) /\ rtid[r] <= tid[x]
          /\ \A r, q \in Reqs, x \in Sessions :
               Known(r, x) /\ Known(q, x) /\ rtid[r] = rtid[q] => r = q
      BY DEF RequestSide, TidInv
    <2>6. /\ \A r \in Reqs, x \in Sessions :
               Known(r, x)' => Started(r)' /\ rtid'[r] <= tid'[x]
          /\ \A r, q \in Reqs, x \in Sessions :
               Known(r, x)' /\ Known(q, x)' /\ rtid'[r] = rtid'[q] => r = q
      BY <2>1, <2>2, <2>5
    <2>7. QED
      BY <2>3, <2>4, <2>6 DEF TidInv
  <1>3. InFlightIsWatched'
    <2> SUFFICES ASSUME NEW r \in Reqs, req'[r] = "sent"
                 PROVE  /\ r \in pending'[rsess'[r]]
                        /\ handler'[rsess'[r]] \in {"reading", "ending"}
      BY DEF InFlightIsWatched
    <2>1. req[r] = "sent" /\ \A d \in D : r \notin pending[d]
      BY DEF Quiet
    <2>2. r \in pending[rsess[r]] /\ Handled(rsess[r]) /\ rsess[r] \in Sessions
      BY <2>1 DEF RequestSide, InFlightIsWatched, Handled, LockInv, InFlight
    <2>3. QED
      BY <2>1, <2>2 DEF Handled
  <1>4. AnswersAreGenuine'
    <2>1. \A r \in Reqs : req'[r] \in {"replied", "answered"} => req'[r] = req[r]
      BY DEF Quiet
    <2>2. QED
      BY <2>1 DEF RequestSide, AnswersAreGenuine
  <1>5. QED
    BY <1>1, <1>2, <1>3, <1>4 DEF RequestSide

\* What SessionSide and RequestSide depend on.
sideVars == <<life, draining, dongle, handler, pn, inbox, wire, pending, send_lock,
              sessions, sessions_by_pn, ready_by_pn, any_ready, status>>
requestVars == <<dongle, handler, tid, inbox, wire, pending, send_lock, req, rsess,
                 rtid, got>>

LEMMA SameSessions ==
  ASSUME SessionSide, UNCHANGED sideVars,
         \A x \in Sessions : handler[x] = "free" => link'[x] = link[x]
  PROVE  SessionSide'
  <1> USE DEF SessionSide, sideVars
  <1>1. ObjectInv'
    BY DEF ObjectInv
  <1>2. MapInv'
    BY DEF MapInv, Connected, Handled
  <1>3. RoutingTables' /\ IdentifiedIsRouted' /\ StatusIsHonest'
    BY DEF RoutingTables, IdentifiedIsRouted, StatusIsHonest, Connected
  <1>4. QED
    BY <1>1, <1>2, <1>3

LEMMA SameRequests ==
  ASSUME RequestSide, UNCHANGED requestVars
  PROVE  RequestSide'
  <1> USE DEF RequestSide, requestVars
  <1>1. LockInv' /\ InFlightIsWatched' /\ AnswersAreGenuine'
    BY DEF LockInv, InFlight, InFlightIsWatched, AnswersAreGenuine
  <1>2. TidInv'
    BY DEF TidInv, Known, Started
  <1>3. QED
    BY <1>1, <1>2

\* A frame that arrives: the frames before it stay where they are.
LEMMA Arrives ==
  ASSUME TypeOK, NEW s \in Sessions, NEW f \in Frames,
         inbox' = [inbox EXCEPT ![s] = Append(@, f)]
  PROVE  /\ \A x \in Sessions : \A i \in 1..Len(inbox'[x]) :
              \/ x = s /\ inbox'[x][i] = f
              \/ i \in 1..Len(inbox[x]) /\ inbox'[x][i] = inbox[x][i]
         /\ \A x \in Sessions : x # s => inbox'[x] = inbox[x]
         /\ \A x \in Sessions : \A i \in 1..Len(inbox[x]) :
              i \in 1..Len(inbox'[x]) /\ inbox'[x][i] = inbox[x][i]
  <1>1. inbox[s] \in Seq(Frames) /\ inbox'[s] = Append(inbox[s], f)
    BY DEF TypeOK
  <1>2. \A x \in Sessions : x # s => inbox'[x] = inbox[x]
    BY DEF TypeOK
  <1>3. /\ Len(inbox'[s]) = Len(inbox[s]) + 1 /\ Len(inbox[s]) \in Nat
        /\ inbox'[s][Len(inbox[s]) + 1] = f
        /\ \A i \in 1..Len(inbox[s]) : inbox'[s][i] = inbox[s][i]
    BY <1>1
  <1>4. \A i \in 1..Len(inbox'[s]) :
          inbox'[s][i] = f \/ (i \in 1..Len(inbox[s]) /\ inbox'[s][i] = inbox[s][i])
    BY <1>3
  <1>5. \A i \in 1..Len(inbox[s]) : i \in 1..Len(inbox'[s])
    BY <1>3
  <1>6. QED
    BY <1>2, <1>3, <1>4, <1>5

LEMMA InvDongle ==
  ASSUME SessionInv, NEW s \in Sessions, Dongle(s)
  PROVE  SessionInv'
  <1> USE DEF mgrVars, mapVars, reqVars
  <1>t. TypeOK' /\ TypeOK /\ SessionSide /\ RequestSide
    BY TypeDongle, Halves
  <1>1. ASSUME NEW p \in PNs, Accept(s, p)
        PROVE  SessionInv'
    <2>1. /\ handler[s] = "free" /\ send_lock[s] = <<>>
          /\ dongle' = [dongle EXCEPT ![s] = p]
          /\ handler' = [handler EXCEPT ![s] = "accepted"]
          /\ link' = [x \in Sessions |->
                        IF x = s THEN "up"
                        ELSE IF dongle[x] = p /\ link[x] = "up" THEN "stale" ELSE link[x]]
          /\ tid' = [tid EXCEPT ![s] = 0]
          /\ UNCHANGED <<life, draining, pn, inbox, wire, pending, send_lock, mapVars,
                         reqVars>>
      BY <1>1 DEF Accept
    <2>2. \A x \in Sessions : x # s => dongle'[x] = dongle[x] /\ handler'[x] = handler[x]
                                       /\ tid'[x] = tid[x]
      BY <1>t, <2>1 DEF TypeOK
    <2>3. handler'[s] = "accepted" /\ dongle'[s] = p /\ tid'[s] = 0
      BY <1>t, <2>1 DEF TypeOK
    <2>4. /\ inbox[s] = <<>> /\ pn[s] = NoPN /\ wire[s] = {} /\ pending[s] = {}
          /\ s \notin sessions
      BY <1>t, <2>1 DEF SessionSide, ObjectInv
    <2>5. \A x \in Sessions : Handled(x)' <=> Handled(x)
      BY <2>1, <2>2, <2>3 DEF Handled
    <2>6. ObjectInv'
      <3> SUFFICES ASSUME NEW x \in Sessions
                   PROVE
        /\ handler'[x] = "free" => /\ link'[x] = "closed" /\ inbox'[x] = <<>>
        /\ handler'[x] \in {"free", "accepted"} =>
             pn'[x] = NoPN /\ wire'[x] = {} /\ pending'[x] = {} /\ x \notin sessions'
        /\ handler'[x] = "accepted" => send_lock'[x] = <<>>
        /\ pn'[x] # NoPN => pn'[x] = dongle'[x]
        /\ \A i \in 1..Len(inbox'[x]) :
             inbox'[x][i].fc = "heartbeat" => inbox'[x][i].pn \in {dongle'[x], NoPN}
        BY DEF ObjectInv
      <3>1. CASE x = s
        <4>1. inbox'[s] = <<>> /\ \A i \in 1..Len(inbox'[s]) : FALSE
          BY <2>1, <2>4
        <4>2. QED
          BY <2>1, <2>3, <2>4, <3>1, <4>1 DEF mapVars
      <3>2. CASE x # s
        <4>1. handler[x] = "free" => link'[x] = "closed"
          BY <1>t, <2>1, <3>2 DEF SessionSide, ObjectInv
        <4>2. QED
          BY <1>t, <2>1, <2>2, <3>2, <4>1 DEF SessionSide, ObjectInv
      <3>3. QED
        BY <3>1, <3>2
    <2>7. MapInv'
      BY <1>t, <2>1, <2>5 DEF SessionSide, MapInv, Connected, TypeOK
    <2>8. \A q \in Connected : /\ sessions_by_pn[q] \in Sessions
                               /\ sessions_by_pn[q] # s
      <3>1. \A q \in Connected : sessions_by_pn[q] \in Sessions
        BY <1>t DEF Connected, TypeOK
      <3>2. \A q \in Connected : Handled(sessions_by_pn[q])
        BY <1>t DEF SessionSide, MapInv
      <3>3. QED
        BY <2>1, <3>1, <3>2 DEF Handled
    <2>9. RoutingTables' /\ IdentifiedIsRouted'
      BY <1>t, <2>1, <2>2, <2>8 DEF SessionSide, RoutingTables, IdentifiedIsRouted, Connected
    <2>10. StatusIsHonest'
      BY <1>t, <2>1, <2>5 DEF SessionSide, StatusIsHonest, Connected, Handled
    <2>11. LockInv'
      <3>1. \A r \in Reqs : req[r] \in {"locking", "sent"} => rsess[r] \in Sessions
                                                             /\ rsess[r] # s
        <4> SUFFICES ASSUME NEW r \in Reqs, req[r] \in {"locking", "sent"}
                     PROVE  rsess[r] \in Sessions /\ send_lock[rsess[r]] # <<>>
          BY <2>1
        <4>1. CASE req[r] = "locking"
          <5>1. rsess[r] \in Sessions /\ \E i \in 1..Len(send_lock[rsess[r]]) : TRUE
            BY <1>t, <4>1 DEF RequestSide, LockInv
          <5>2. QED
            BY <5>1
        <4>2. CASE req[r] = "sent"
          BY <1>t, <4>2 DEF RequestSide, LockInv, InFlight
        <4>3. QED
          BY <4>1, <4>2
      <3>2. QED
        BY <1>t, <2>1, <2>2, <3>1 DEF RequestSide, LockInv, InFlight
    <2>12. TidInv'
      <3>1. \A r \in Reqs, x \in Sessions : Known(r, x)' <=> Known(r, x)
        BY <2>1 DEF Known
      <3>2. \A r \in Reqs : ~Known(r, s)
        BY <2>4 DEF Known
      <3>3. \A r \in Reqs, x \in Sessions : Known(r, x)' => Started(r)' /\ rtid'[r] <= tid'[x]
        BY <1>t, <2>1, <2>2, <3>1, <3>2 DEF RequestSide, TidInv, Started
      <3>4. \A x \in Sessions :
             /\ \A r, q \in Reqs : Known(r, x)' /\ Known(q, x)' /\ rtid'[r] = rtid'[q] => r = q
             /\ \A r \in pending'[x] : req'[r] = "cancelled" \/ (req'[r] = "sent" /\ rsess'[r] = x)
             /\ \A i \in 1..Len(inbox'[x]) :
                  inbox'[x][i].fc = "forward" => inbox'[x][i].tid = rtid'[inbox'[x][i].req]
        BY <1>t, <2>1, <3>1 DEF RequestSide, TidInv
      <3>5. QED
        BY <3>3, <3>4 DEF TidInv
    <2>13. InFlightIsWatched' /\ AnswersAreGenuine'
      <3>1. \A r \in Reqs : req[r] = "sent" => rsess[r] \in Sessions
        BY <1>t DEF RequestSide, LockInv, InFlight
      <3>2. QED
        BY <1>t, <2>1, <2>5, <3>1 DEF RequestSide, InFlightIsWatched, AnswersAreGenuine, Handled
    <2>14. QED
      BY <1>t, <2>6, <2>7, <2>9, <2>10, <2>11, <2>12, <2>13 DEF SessionInv
  <1>2. ASSUME NEW p \in PNs \cup {NoPN}, DongleHeartbeat(s, p)
        PROVE  SessionInv'
    <2> DEFINE f == [fc |-> "heartbeat", pn |-> p]
    <2>1. /\ handler[s] # "free"
          /\ p = dongle[s] \/ p = NoPN
          /\ inbox' = [inbox EXCEPT ![s] = Append(@, f)]
          /\ UNCHANGED <<mgrVars, dongle, handler, link, pn, tid, wire, pending, send_lock,
                         mapVars, reqVars>>
      BY <1>2 DEF DongleHeartbeat
    <2>2. f \in Frames /\ f.fc = "heartbeat" /\ f.pn = p
      BY DEF Frames
    <2> HIDE DEF f
    <2>3. /\ \A x \in Sessions : \A i \in 1..Len(inbox'[x]) :
               \/ x = s /\ inbox'[x][i] = f
               \/ i \in 1..Len(inbox[x]) /\ inbox'[x][i] = inbox[x][i]
          /\ \A x \in Sessions : x # s => inbox'[x] = inbox[x]
          /\ \A x \in Sessions : \A i \in 1..Len(inbox[x]) :
               i \in 1..Len(inbox'[x]) /\ inbox'[x][i] = inbox[x][i]
      BY <1>t, <2>1, <2>2, Arrives
    <2>4. ObjectInv'
      BY <1>t, <2>1, <2>2, <2>3 DEF SessionSide, ObjectInv
    <2>5. MapInv' /\ RoutingTables' /\ IdentifiedIsRouted' /\ StatusIsHonest'
      BY <1>t, <2>1 DEF SessionSide, MapInv, RoutingTables, IdentifiedIsRouted,
                        StatusIsHonest, Connected, Handled
    <2>6. \A r \in Reqs, x \in Sessions : Known(r, x)' => Known(r, x)
      BY <2>1, <2>2, <2>3 DEF Known
    <2>7. TidInv'
      <3>1. \A x \in Sessions : \A i \in 1..Len(inbox'[x]) :
              inbox'[x][i].fc = "forward" => inbox'[x][i].tid = rtid'[inbox'[x][i].req]
        BY <1>t, <2>1, <2>2, <2>3 DEF RequestSide, TidInv
      <3>2. QED
        BY <1>t, <2>1, <2>6, <3>1 DEF RequestSide, TidInv, Started
    <2>8. LockInv' /\ InFlightIsWatched' /\ AnswersAreGenuine'
      BY <1>t, <2>1 DEF RequestSide, LockInv, InFlight, InFlightIsWatched, AnswersAreGenuine
    <2>9. QED
      BY <1>t, <2>4, <2>5, <2>7, <2>8 DEF SessionInv
  <1>3. ASSUME NEW r \in Reqs, DongleReplies(s, r)
        PROVE  SessionInv'
    <2> DEFINE f == [fc |-> "forward", tid |-> rtid[r], req |-> r]
    <2>1. /\ handler[s] # "free" /\ r \in wire[s]
          /\ wire' = [wire EXCEPT ![s] = @ \ {r}]
          /\ inbox' = [inbox EXCEPT ![s] = Append(@, f)]
          /\ UNCHANGED <<mgrVars, dongle, handler, link, pn, tid, pending, send_lock,
                         mapVars, reqVars>>
      BY <1>3 DEF DongleReplies
    <2>2. f \in Frames /\ f.fc = "forward" /\ f.tid = rtid[r] /\ f.req = r
      BY <1>t DEF Frames, TypeOK
    <2> HIDE DEF f
    <2>3. /\ \A x \in Sessions : \A i \in 1..Len(inbox'[x]) :
               \/ x = s /\ inbox'[x][i] = f
               \/ i \in 1..Len(inbox[x]) /\ inbox'[x][i] = inbox[x][i]
          /\ \A x \in Sessions : x # s => inbox'[x] = inbox[x]
          /\ \A x \in Sessions : \A i \in 1..Len(inbox[x]) :
               i \in 1..Len(inbox'[x]) /\ inbox'[x][i] = inbox[x][i]
      BY <1>t, <2>1, <2>2, Arrives
    <2>4. \A x \in Sessions : wire'[x] \subseteq wire[x]
      BY <1>t, <2>1 DEF TypeOK
    <2>5. ObjectInv'
      BY <1>t, <2>1, <2>2, <2>3, <2>4 DEF SessionSide, ObjectInv
    <2>6. MapInv' /\ RoutingTables' /\ IdentifiedIsRouted' /\ StatusIsHonest'
      BY <1>t, <2>1 DEF SessionSide, MapInv, RoutingTables, IdentifiedIsRouted,
                        StatusIsHonest, Connected, Handled
    <2>7. \A q \in Reqs, x \in Sessions : Known(q, x)' => Known(q, x)
      BY <2>1, <2>2, <2>3, <2>4 DEF Known
    <2>8. TidInv'
      <3>1. \A x \in Sessions : \A i \in 1..Len(inbox'[x]) :
              inbox'[x][i].fc = "forward" => inbox'[x][i].tid = rtid'[inbox'[x][i].req]
        BY <1>t, <2>1, <2>2, <2>3 DEF RequestSide, TidInv
      <3>2. QED
        BY <1>t, <2>1, <2>7, <3>1 DEF RequestSide, TidInv, Started
    <2>9. LockInv' /\ InFlightIsWatched' /\ AnswersAreGenuine'
      BY <1>t, <2>1 DEF RequestSide, LockInv, InFlight, InFlightIsWatched, AnswersAreGenuine
    <2>10. QED
      BY <1>t, <2>5, <2>6, <2>8, <2>9 DEF SessionInv
  <1>4. CASE DongleVanishes(s) \/ DongleCloses(s) \/ LinkFails(s)
    <2>1. UNCHANGED sideVars /\ UNCHANGED requestVars
          /\ \A x \in Sessions : handler[x] = "free" => link'[x] = link[x]
      BY <1>t, <1>4 DEF DongleVanishes, DongleCloses, LinkFails, sideVars, requestVars, TypeOK
    <2>2. QED
      BY <1>t, <2>1, SameSessions, SameRequests, Halves DEF SessionInv, SessionSide, RequestSide
  <1>5. QED
    BY <1>1, <1>2, <1>3, <1>4 DEF Dongle

\* A read takes a frame away and adds none.
LEMMA ReadShrinks ==
  ASSUME TypeOK, NEW s \in Sessions, NEW fc, Reads(s, fc)
  PROVE  /\ handler[s] = "reading"
         /\ \A x \in Sessions : \A i \in 1..Len(inbox'[x]) :
              \E j \in 1..Len(inbox[x]) : inbox'[x][i] = inbox[x][j]
         /\ \A x \in Sessions : x # s => inbox'[x] = inbox[x]
  <1>1. handler[s] = "reading" /\ inbox[s] # <<>>
        /\ inbox' = [inbox EXCEPT ![s] = Tail(@)]
    BY DEF Reads
  <1>2. inbox'[s] = Tail(inbox[s]) /\ \A x \in Sessions : x # s => inbox'[x] = inbox[x]
    BY <1>1 DEF TypeOK
  <1>3. \A i \in 1..Len(inbox'[s]) : i + 1 \in 1..Len(inbox[s])
                                     /\ inbox'[s][i] = inbox[s][i + 1]
    BY <1>1, <1>2, TailFrames DEF TypeOK
  <1>4. QED
    BY <1>1, <1>2, <1>3

\* ObjectInv where sessions only lose frames, futures and places in the tables.
LEMMA ObjectsKept ==
  ASSUME ObjectInv,
         UNCHANGED <<dongle, send_lock>>,
         \A x \in Sessions : \/ handler'[x] = handler[x]
                             \/ Handled(x)' /\ handler[x] # "free",
         \A x \in Sessions : /\ link'[x] = link[x] \/ link'[x] = "closed"
                             /\ pn'[x] = pn[x] \/ (Handled(x)' /\ pn'[x] = dongle[x])
                             /\ wire'[x] \subseteq wire[x]
                             /\ pending'[x] \subseteq pending[x]
                             /\ x \in sessions' => x \in sessions \/ Handled(x)'
                             /\ inbox'[x] = inbox[x] \/ handler[x] # "free",
         \A x \in Sessions : \A i \in 1..Len(inbox'[x]) :
           \E j \in 1..Len(inbox[x]) : inbox'[x][i] = inbox[x][j]
  PROVE  ObjectInv'
  <1> SUFFICES ASSUME NEW x \in Sessions
               PROVE
        /\ handler'[x] = "free" => /\ link'[x] = "closed" /\ inbox'[x] = <<>>
        /\ handler'[x] \in {"free", "accepted"} =>
             pn'[x] = NoPN /\ wire'[x] = {} /\ pending'[x] = {} /\ x \notin sessions'
        /\ handler'[x] = "accepted" => send_lock'[x] = <<>>
        /\ pn'[x] # NoPN => pn'[x] = dongle'[x]
        /\ \A i \in 1..Len(inbox'[x]) :
             inbox'[x][i].fc = "heartbeat" => inbox'[x][i].pn \in {dongle'[x], NoPN}
    BY DEF ObjectInv
  <1>1. handler'[x] \in {"free", "accepted"} => handler'[x] = handler[x] /\ ~Handled(x)'
    BY DEF Handled
  <1>2. handler'[x] = "free" => link'[x] = "closed" /\ inbox'[x] = <<>>
    BY <1>1 DEF ObjectInv
  <1>3. handler'[x] \in {"free", "accepted"} =>
          pn'[x] = NoPN /\ wire'[x] = {} /\ pending'[x] = {} /\ x \notin sessions'
    BY <1>1 DEF ObjectInv
  <1>4. handler'[x] = "accepted" => send_lock'[x] = <<>>
    BY <1>1 DEF ObjectInv
  <1>5. pn'[x] # NoPN => pn'[x] = dongle'[x]
    BY DEF ObjectInv
  <1>6. \A i \in 1..Len(inbox'[x]) :
          inbox'[x][i].fc = "heartbeat" => inbox'[x][i].pn \in {dongle'[x], NoPN}
    <2> SUFFICES ASSUME NEW i \in 1..Len(inbox'[x]), inbox'[x][i].fc = "heartbeat"
                 PROVE  inbox'[x][i].pn \in {dongle'[x], NoPN}
      OBVIOUS
    <2>1. PICK j \in 1..Len(inbox[x]) : inbox'[x][i] = inbox[x][j]
      OBVIOUS
    <2>2. QED
      BY <2>1 DEF ObjectInv
  <1>7. QED
    BY <1>2, <1>3, <1>4, <1>5, <1>6

\* A handler that starts: accepted by the event loop, now in the session set.
LEMMA InvStarts ==
  ASSUME SessionInv, NEW s \in Sessions, HandlerStarts(s)
  PROVE  SessionInv'
  <1>t. TypeOK' /\ TypeOK /\ SessionSide /\ RequestSide
    BY TypeHandler, Halves DEF Handler
  <1>1. /\ handler[s] = "accepted"
        /\ handler' = [handler EXCEPT ![s] = "reading"]
        /\ sessions' = sessions \cup {s}
        /\ any_ready' = TRUE
        /\ req' = WakeFor(NoPN)
        /\ UNCHANGED <<life, draining, heard, dongle, link, pn, tid, inbox, wire, pending,
                       send_lock, sessions_by_pn, ready_by_pn, status, rsess, rtid, got>>
    BY DEF HandlerStarts, mgrVars
  <1>2. /\ \A x \in Sessions : x # s => handler'[x] = handler[x]
        /\ handler'[s] = "reading"
    BY <1>t, <1>1 DEF TypeOK
  <1>3. \A x \in Sessions : Handled(x) => Handled(x)'
    BY <1>2 DEF Handled
  <1>4. ObjectInv'
    <2>1. Handled(s)'
      BY <1>2 DEF Handled
    <2>2. \A x \in Sessions : x # s => handler'[x] = handler[x] /\ (x \in sessions' => x \in sessions)
      BY <1>1, <1>2
    <2>3. \A x \in Sessions : /\ \/ handler'[x] = handler[x]
                                 \/ Handled(x)' /\ handler[x] # "free"
                              /\ x \in sessions' => x \in sessions \/ Handled(x)'
      BY <1>1, <2>1, <2>2
    <2>4. \A x \in Sessions : \A i \in 1..Len(inbox'[x]) :
            \E j \in 1..Len(inbox[x]) : inbox'[x][i] = inbox[x][j]
      BY <1>1
    <2>5. ObjectInv
      BY <1>t DEF SessionSide
    <2>6. QED
      BY <1>1, <2>3, <2>4, <2>5, ObjectsKept
  <1>5. MapInv'
    <2>1. \A p \in Connected : sessions_by_pn[p] \in Sessions
      BY <1>t DEF Connected, TypeOK
    <2>2. \A x \in Sessions : Handled(x)' => Handled(x) \/ x = s
      BY <1>2 DEF Handled
    <2>3. QED
      BY <1>t, <1>1, <1>3, <2>1, <2>2 DEF SessionSide, MapInv, Connected
  <1>6. pn[s] = NoPN
    BY <1>t, <1>1 DEF SessionSide, ObjectInv
  <1>7. RoutingTables' /\ IdentifiedIsRouted'
    BY <1>t, <1>1, <1>6 DEF SessionSide, RoutingTables, IdentifiedIsRouted, Connected
  <1>8. StatusIsHonest'
    BY <1>t, <1>1, <1>3 DEF SessionSide, StatusIsHonest, Connected, Handled
  <1>9. RequestSide'
    <2>1. \A r \in Reqs : \/ req'[r] = req[r]
                          \/ req[r] \in Quiet /\ req'[r] \in Quiet
      BY <1>t, <1>1 DEF WakeFor, Quiet, TypeOK
    <2>2. \A x \in Sessions : handler'[x] = "free" \/ handler[x] # "free"
      BY <1>1, <1>2
    <2>3. QED
      BY <1>t, <1>1, <1>3, <2>1, <2>2, RequestsKept
  <1>10. QED
    BY <1>t, <1>4, <1>5, <1>7, <1>8, <1>9, Halves DEF SessionInv, RequestSide

\* A session is identified and takes its PN over from the one that held it.
LEMMA InvIdentifies ==
  ASSUME SessionInv, NEW s \in Sessions, Identifies(s)
  PROVE  SessionInv'
  <1> DEFINE p == Head(inbox[s]).pn
             old == sessions_by_pn[p]
             D == IF old = NoSession THEN {} ELSE {old}
  <1>t. TypeOK' /\ TypeOK /\ SessionSide /\ RequestSide
    BY TypeHandler, Halves DEF Handler
  <1>1. /\ Reads(s, "heartbeat")
        /\ p # NoPN /\ pn[s] = NoPN
        /\ pn' = [pn EXCEPT ![s] = p]
        /\ status' = [status EXCEPT ![p] = "connected"]
        /\ sessions_by_pn' = [sessions_by_pn EXCEPT ![p] = s]
        /\ ready_by_pn' = ready_by_pn \cup {p}
        /\ UNCHANGED <<life, draining, heard, dongle, handler, tid, wire, send_lock, rsess,
                       rtid, got>>
    BY DEF Identifies, mgrVars
  <1>2. /\ handler[s] = "reading"
        /\ \A x \in Sessions : \A i \in 1..Len(inbox'[x]) :
             \E j \in 1..Len(inbox[x]) : inbox'[x][i] = inbox[x][j]
        /\ \A x \in Sessions : x # s => inbox'[x] = inbox[x]
    BY <1>t, <1>1, ReadShrinks
  <1>3. p \in PNs /\ p = dongle[s]
    <2>1. inbox[s] # <<>> /\ Head(inbox[s]).fc = "heartbeat"
      BY <1>1 DEF Reads
    <2>2. Head(inbox[s]) = inbox[s][1] /\ 1 \in 1..Len(inbox[s]) /\ p \in PNs \cup {NoPN}
      BY <1>t, <2>1, HeadFrame DEF TypeOK
    <2>3. p \in {dongle[s], NoPN}
      BY <1>t, <2>1, <2>2 DEF SessionSide, ObjectInv
    <2>4. QED
      BY <1>1, <2>2, <2>3
  <1>4. old \in Sessions \cup {NoSession}
    BY <1>t, <1>3 DEF TypeOK
  <1>5. old # NoSession => pn[old] = p /\ Handled(old) /\ old # s
    BY <1>t, <1>1, <1>3 DEF SessionSide, MapInv, Connected
  <1>6. /\ sessions' = sessions \ D
        /\ \A x \in Sessions : pending'[x] = IF x \in D THEN {} ELSE pending[x]
        /\ \A x \in Sessions : link'[x] = link[x] \/ link'[x] = "closed"
        /\ any_ready' = IF D = {} THEN any_ready ELSE (any_ready /\ sessions \ D # {})
    <2>1. CASE old = NoSession
      BY <2>1 DEF Identifies
    <2>2. CASE old # NoSession
      <3>1. /\ link' = [link EXCEPT ![old] = "closed"]
            /\ sessions' = sessions \ {old}
            /\ any_ready' = (any_ready /\ sessions \ {old} # {})
            /\ pending' = [pending EXCEPT ![old] = {}]
        BY <2>2 DEF Identifies
      <3>2. D = {old} /\ D # {}
        BY <2>2
      <3>3. /\ \A x \in Sessions : link'[x] = link[x] \/ link'[x] = "closed"
            /\ \A x \in Sessions : pending'[x] = IF x = old THEN {} ELSE pending[x]
        BY <1>t, <3>1 DEF TypeOK
      <3> HIDE DEF D, old, p
      <3>4. QED
        BY <3>1, <3>2, <3>3
    <2>3. QED
      BY <2>1, <2>2
  <1>7. \A r \in Reqs :
           \/ req'[r] = req[r] /\ ~(req[r] = "sent" /\ \E d \in D : r \in pending[d])
           \/ req[r] \in Quiet /\ req'[r] \in Quiet \cup {"none", "cancelled"}
           \/ req[r] = "sent" /\ req'[r] = "lost" /\ \E d \in D : r \in pending[d]
    <2> SUFFICES ASSUME NEW r \in Reqs
                 PROVE
           \/ req'[r] = req[r] /\ ~(req[r] = "sent" /\ \E d \in D : r \in pending[d])
           \/ req[r] \in Quiet /\ req'[r] \in Quiet \cup {"none", "cancelled"}
           \/ req[r] = "sent" /\ req'[r] = "lost" /\ \E d \in D : r \in pending[d]
      OBVIOUS
    <2>1. CASE old = NoSession
      <3>1. req' = WakeFor(p)
        BY <2>1 DEF Identifies
      <3>2. req'[r] = req[r] \/ (req[r] = "waiting" /\ req'[r] = "woken")
        BY <3>1 DEF WakeFor
      <3>3. QED
        BY <2>1, <3>2 DEF Quiet
    <2>2. CASE old # NoSession
      <3>1. req'[r] = IF LostWith(old)[r] = "lost" THEN "lost" ELSE WakeFor(p)[r]
        BY <2>2 DEF Identifies
      <3>2. LostWith(old)[r] = IF r \in pending[old] /\ req[r] = "sent" THEN "lost"
                                                                        ELSE req[r]
        BY DEF LostWith
      <3>3. WakeFor(p)[r] = IF req[r] = "waiting" /\ Target[r] = p THEN "woken" ELSE req[r]
        BY DEF WakeFor
      <3>4. D = {old}
        BY <2>2
      <3> HIDE DEF D, old, p
      <3>5. CASE r \in pending[old] /\ req[r] = "sent"
        BY <3>1, <3>2, <3>4, <3>5
      <3>6. CASE ~(r \in pending[old] /\ req[r] = "sent")
        BY <3>1, <3>2, <3>3, <3>4, <3>6 DEF Quiet
      <3>7. QED
        BY <3>5, <3>6
    <2>3. QED
      BY <2>1, <2>2
  <1>d. /\ D \in SUBSET Sessions
        /\ \A d \in D : d # s /\ pn[d] = p /\ Handled(d) /\ sessions_by_pn[p] = d
        /\ sessions_by_pn[p] \in Sessions => sessions_by_pn[p] \in D
    BY <1>4, <1>5, NoneAssumption
  <1> HIDE DEF D, old, p
  <1>h. \A x \in Sessions : Handled(x)' <=> Handled(x)
    BY <1>1 DEF Handled
  <1>8. RequestSide'
    BY <1>t, <1>1, <1>2, <1>6, <1>7, <1>d, <1>h, RequestsKept
  <1>pn. pn'[s] = p /\ \A x \in Sessions : x # s => pn'[x] = pn[x]
    BY <1>t, <1>1 DEF TypeOK
  <1>map. /\ sessions_by_pn'[p] = s
          /\ \A q \in PNs : q # p => sessions_by_pn'[q] = sessions_by_pn[q]
          /\ Connected' = Connected \cup {p}
    BY <1>t, <1>1, <1>3, NoneAssumption DEF Connected, TypeOK
  <1>9. ObjectInv'
    <2>1. Handled(s)'
      BY <1>1, <1>2 DEF Handled
    <2>2. ObjectInv
      BY <1>t DEF SessionSide
    <2>3. \A x \in Sessions : /\ pn'[x] = pn[x] \/ (Handled(x)' /\ pn'[x] = dongle[x])
                              /\ pending'[x] \subseteq pending[x]
                              /\ x \in sessions' => x \in sessions
                              /\ inbox'[x] = inbox[x] \/ handler[x] # "free"
      BY <1>2, <1>3, <1>6, <1>pn, <2>1
    <2>4. QED
      BY <1>1, <1>2, <1>6, <2>2, <2>3, ObjectsKept
  <1>10. MapInv'
    <2>1. \A q \in Connected : /\ sessions_by_pn[q] \in Sessions
                               /\ pn[sessions_by_pn[q]] = q
                               /\ Handled(sessions_by_pn[q])
      BY <1>t DEF SessionSide, MapInv, Connected, TypeOK
    <2>2. \A q \in Connected' : pn'[sessions_by_pn'[q]] = q /\ Handled(sessions_by_pn[q])'
      <3> SUFFICES ASSUME NEW q \in Connected'
                   PROVE  pn'[sessions_by_pn'[q]] = q /\ Handled(sessions_by_pn[q])'
        OBVIOUS
      <3>1. CASE q = p
        BY <1>1, <1>2, <1>pn, <1>map, <3>1 DEF Handled
      <3>2. CASE q # p
        <4>1. q \in Connected /\ q \in PNs
          BY <1>map, <3>2 DEF Connected
        <4>2. sessions_by_pn[q] # s
          BY <1>1, <2>1, <4>1, NoneAssumption
        <4>3. QED
          BY <1>pn, <1>map, <1>h, <2>1, <3>2, <4>1, <4>2
      <3>3. QED
        BY <3>1, <3>2
    <2>3. life = "up" => \A x \in Sessions : Handled(x) /\ pn'[x] = NoPN => x \in sessions'
      BY <1>t, <1>1, <1>6, <1>d, <1>pn DEF SessionSide, MapInv
    <2>4. draining' # {} => life' = "draining"
      BY <1>t, <1>1 DEF SessionSide, MapInv
    <2>5. QED
      BY <1>1, <1>h, <2>2, <2>3, <2>4 DEF MapInv
  <1>11. life = "up" => s \in sessions'
    BY <1>t, <1>1, <1>2, <1>6, <1>d DEF SessionSide, MapInv, Handled
  <1>12. RoutingTables'
    <2> SUFFICES ASSUME life = "up"
                 PROVE  /\ \A q \in Connected' : /\ sessions_by_pn'[q] \in sessions'
                                                 /\ pn'[sessions_by_pn'[q]] = q
                                                 /\ dongle'[sessions_by_pn'[q]] = q
                        /\ ready_by_pn' = Connected'
                        /\ any_ready' <=> sessions' # {}
      BY <1>1 DEF RoutingTables
    <2>1. /\ \A q \in Connected : /\ sessions_by_pn[q] \in sessions
                                  /\ pn[sessions_by_pn[q]] = q
                                  /\ dongle[sessions_by_pn[q]] = q
          /\ ready_by_pn = Connected
          /\ any_ready <=> sessions # {}
      BY <1>t DEF SessionSide, RoutingTables
    <2>2. ASSUME NEW q \in Connected'
          PROVE  sessions_by_pn'[q] \in sessions' /\ dongle'[sessions_by_pn'[q]] = q
      <3>1. CASE q = p
        BY <1>1, <1>3, <1>11, <1>map, <3>1
      <3>2. CASE q # p
        <4>1. q \in Connected /\ q \in PNs
          BY <1>map, <3>2 DEF Connected
        <4>2. sessions_by_pn[q] \notin D
          BY <1>d, <2>1, <3>2, <4>1
        <4>3. QED
          BY <1>1, <1>6, <1>map, <2>1, <3>2, <4>1, <4>2
      <3>3. QED
        BY <3>1, <3>2
    <2>3. \A q \in Connected' : pn'[sessions_by_pn'[q]] = q
      BY <1>10 DEF MapInv
    <2>4. any_ready' /\ sessions' # {}
      <3>1. sessions # {} /\ sessions' # {}
        BY <1>6, <1>11
      <3>2. any_ready
        BY <2>1, <3>1
      <3>3. QED
        BY <1>6, <3>1, <3>2
    <2>5. QED
      BY <1>1, <1>map, <2>1, <2>2, <2>3, <2>4
  <1>13. IdentifiedIsRouted'
    <2> SUFFICES ASSUME life = "up", NEW x \in sessions', pn'[x] # NoPN
                 PROVE  sessions_by_pn'[pn'[x]] = x
      BY <1>1 DEF IdentifiedIsRouted
    <2>1. x \in sessions /\ x \in Sessions /\ x \notin D
      BY <1>t, <1>6 DEF TypeOK
    <2>2. CASE x = s
      BY <1>pn, <1>map, <2>2
    <2>3. CASE x # s
      <3>1. pn'[x] = pn[x] /\ pn[x] \in PNs /\ sessions_by_pn[pn[x]] = x
        BY <1>t, <1>pn, <2>1, <2>3 DEF SessionSide, IdentifiedIsRouted, TypeOK
      <3>2. pn[x] # p
        BY <1>d, <2>1, <3>1
      <3>3. QED
        BY <1>map, <3>1, <3>2
    <2>4. QED
      BY <2>2, <2>3
  <1>14. StatusIsHonest'
    <2>1. status'[p] = "connected" /\ \A q \in PNs : q # p => status'[q] = status[q]
      BY <1>t, <1>1, <1>3 DEF TypeOK
    <2> SUFFICES ASSUME NEW q \in PNs
                 PROVE  /\ q \in Connected' => status'[q] = "connected"
                        /\ status'[q] = "connected" =>
                             \E x \in Sessions : pn'[x] = q /\ handler'[x] \in {"reading", "ending"}
      BY DEF StatusIsHonest
    <2>2. CASE q = p
      BY <1>1, <1>2, <1>pn, <2>1, <2>2
    <2>3. CASE q # p
      <3>1. q \in Connected' => q \in Connected
        BY <1>map, <2>3
      <3>2. status[q] = "connected" =>
              \E x \in Sessions : x # s /\ pn[x] = q /\ handler[x] \in {"reading", "ending"}
        BY <1>t, <1>1, NoneAssumption DEF SessionSide, StatusIsHonest
      <3>3. QED
        BY <1>t, <1>1, <1>pn, <2>1, <2>3, <3>1, <3>2 DEF SessionSide, StatusIsHonest
    <2>4. QED
      BY <2>2, <2>3
  <1>15. QED
    BY <1>t, <1>8, <1>9, <1>10, <1>12, <1>13, <1>14 DEF SessionInv, RequestSide

LEMMA InvHeartbeatAgain ==
  ASSUME SessionInv, NEW s \in Sessions, HeartbeatAgain(s)
  PROVE  SessionInv'
  <1>t. TypeOK' /\ TypeOK /\ SessionSide /\ RequestSide
    BY TypeHandler, Halves DEF Handler
  <1>1. /\ Reads(s, "heartbeat")
        /\ status' = IF pn[s] = NoPN THEN status ELSE [status EXCEPT ![pn[s]] = "connected"]
        /\ UNCHANGED <<life, draining, heard, dongle, handler, link, pn, tid, wire, pending,
                       send_lock, sessions, sessions_by_pn, ready_by_pn, any_ready,
                       req, rsess, rtid, got>>
    BY DEF HeartbeatAgain, mgrVars, reqVars
  <1>2. /\ handler[s] = "reading"
        /\ \A x \in Sessions : \A i \in 1..Len(inbox'[x]) :
             \E j \in 1..Len(inbox[x]) : inbox'[x][i] = inbox[x][j]
        /\ \A x \in Sessions : x # s => inbox'[x] = inbox[x]
    BY <1>t, <1>1, ReadShrinks
  <1>3. ObjectInv'
    <2>1. \A x \in Sessions : inbox'[x] = inbox[x] \/ handler[x] # "free"
      BY <1>2
    <2>2. QED
      BY <1>t, <1>1, <1>2, <2>1, ObjectsKept DEF SessionSide
  <1>4. MapInv' /\ RoutingTables' /\ IdentifiedIsRouted'
    BY <1>t, <1>1 DEF SessionSide, MapInv, RoutingTables, IdentifiedIsRouted, Connected, Handled
  <1>5. StatusIsHonest'
    <2>1. \A q \in PNs : \/ status'[q] = status[q]
                         \/ pn[s] = q /\ status'[q] = "connected"
      BY <1>t, <1>1 DEF TypeOK
    <2>2. QED
      BY <1>t, <1>1, <1>2, <2>1 DEF SessionSide, StatusIsHonest, Connected
  <1>6. RequestSide'
    <2>1. \A x \in Sessions : Handled(x)' <=> Handled(x)
      BY <1>1 DEF Handled
    <2> DEFINE D == {}
    <2>2. D \in SUBSET Sessions /\ \A d \in D : FALSE
      OBVIOUS
    <2> HIDE DEF D
    <2>4. /\ \A r \in Reqs : req'[r] = req[r] /\ ~(req[r] = "sent" /\ \E d \in D : r \in pending[d])
          /\ \A x \in Sessions : pending'[x] = IF x \in D THEN {} ELSE pending[x]
          /\ \A x \in Sessions : wire'[x] \subseteq wire[x]
          /\ \A x \in Sessions : \/ handler'[x] = "free"
                                 \/ handler[x] # "free" /\ dongle'[x] = dongle[x]
      BY <1>1, <2>2
    <2>5. QED
      BY <1>t, <1>1, <1>2, <2>1, <2>2, <2>4, RequestsKept
  <1>7. QED
    BY <1>t, <1>3, <1>4, <1>5, <1>6 DEF SessionInv, RequestSide

\* A reply completes the one request it belongs to.
LEMMA InvReadsReply ==
  ASSUME SessionInv, NEW s \in Sessions, ReadsReply(s)
  PROVE  SessionInv'
  <1> DEFINE f == Head(inbox[s])
             matched == {r \in pending[s] : rtid[r] = f.tid}
  <1>t. TypeOK' /\ TypeOK /\ SessionSide /\ RequestSide
    BY TypeHandler, Halves DEF Handler
  <1>1. /\ Reads(s, "forward")
        /\ pending' = [pending EXCEPT ![s] = @ \ matched]
        /\ req' = [r \in Reqs |-> IF r \in matched /\ req[r] = "sent" THEN "replied"
                                                                     ELSE req[r]]
        /\ got' = [r \in Reqs |-> IF r \in matched /\ req[r] = "sent"
                                    THEN [from |-> dongle[s], req |-> f.req] ELSE got[r]]
        /\ UNCHANGED <<life, draining, heard, dongle, handler, link, pn, tid, wire, send_lock,
                       sessions, sessions_by_pn, ready_by_pn, any_ready, status, rsess, rtid>>
    BY DEF ReadsReply, mgrVars, mapVars
  <1>2. /\ handler[s] = "reading"
        /\ \A x \in Sessions : \A i \in 1..Len(inbox'[x]) :
             \E j \in 1..Len(inbox[x]) : inbox'[x][i] = inbox[x][j]
        /\ \A x \in Sessions : x # s => inbox'[x] = inbox[x]
    BY <1>t, <1>1, ReadShrinks
  <1>3. /\ f.req \in Reqs /\ f.tid = rtid[f.req]
        /\ Known(f.req, s)
    <2>1. inbox[s] # <<>> /\ f.fc = "forward"
      BY <1>1 DEF Reads
    <2>2. f = inbox[s][1] /\ 1 \in 1..Len(inbox[s]) /\ f.req \in Reqs
      BY <1>t, <2>1, HeadFrame DEF TypeOK
    <2> HIDE DEF f
    <2>3. f.tid = rtid[f.req]
      BY <1>t, <2>1, <2>2 DEF RequestSide, TidInv
    <2>4. Known(f.req, s)
      BY <2>1, <2>2 DEF Known
    <2>5. QED
      BY <2>2, <2>3, <2>4
  <1>4. \A r \in matched : r = f.req /\ r \in Reqs /\ r \in pending[s]
    <2> SUFFICES ASSUME NEW r \in matched
                 PROVE  r = f.req /\ r \in Reqs /\ r \in pending[s]
      OBVIOUS
    <2>1. r \in pending[s] /\ r \in Reqs /\ rtid[r] = f.tid
      BY <1>t DEF TypeOK
    <2>2. Known(r, s)
      BY <2>1 DEF Known
    <2>3. rtid[r] = rtid[f.req]
      BY <1>3, <2>1
    <2> HIDE DEF f, matched
    <2>4. QED
      BY <1>t, <1>3, <2>1, <2>2, <2>3 DEF RequestSide, TidInv
  <1> HIDE DEF f, matched
  <1>5. /\ pending'[s] = pending[s] \ matched
        /\ \A x \in Sessions : x # s => pending'[x] = pending[x]
    BY <1>t, <1>1 DEF TypeOK
  <1>6. \A r \in Reqs : \/ r \in matched /\ req[r] = "sent" /\ req'[r] = "replied"
                        \/ ~(r \in matched /\ req[r] = "sent") /\ req'[r] = req[r]
                           /\ got'[r] = got[r]
    BY <1>1
  <1>7. ObjectInv'
    <2>1. \A x \in Sessions : /\ inbox'[x] = inbox[x] \/ handler[x] # "free"
                              /\ pending'[x] \subseteq pending[x]
      BY <1>2, <1>5
    <2>2. QED
      BY <1>t, <1>1, <1>2, <2>1, ObjectsKept DEF SessionSide
  <1>8. MapInv' /\ RoutingTables' /\ IdentifiedIsRouted' /\ StatusIsHonest'
    BY <1>t, <1>1 DEF SessionSide, MapInv, RoutingTables, IdentifiedIsRouted, Connected,
                      Handled, StatusIsHonest
  <1>9. LockInv'
    <2>1. \A r \in Reqs : InFlight(r)' => InFlight(r)
      BY <1>6 DEF InFlight
    <2>2. \A r \in Reqs : req'[r] \in {"locking", "sent"} => req'[r] = req[r]
      BY <1>6
    <2>3. QED
      BY <1>t, <1>1, <2>1, <2>2 DEF RequestSide, LockInv
  <1>10. TidInv'
    <2>1. \A r \in Reqs, x \in Sessions : Known(r, x)' => Known(r, x)
      BY <1>1, <1>2, <1>5 DEF Known
    <2>2. \A r \in Reqs : Started(r) => Started(r)'
      BY <1>6 DEF Started
    <2>3. \A x \in Sessions : \A r \in pending'[x] :
            req'[r] = "cancelled" \/ (req'[r] = "sent" /\ rsess'[r] = x)
      <3> SUFFICES ASSUME NEW x \in Sessions, NEW r \in pending'[x]
                   PROVE  req'[r] = "cancelled" \/ (req'[r] = "sent" /\ rsess'[r] = x)
        OBVIOUS
      <3>1. r \in pending[x] /\ r \in Reqs
        BY <1>t, <1>5 DEF TypeOK
      <3>2. req[r] = "cancelled" \/ (req[r] = "sent" /\ rsess[r] = x)
        BY <1>t, <3>1 DEF RequestSide, TidInv
      <3>3. ~(r \in matched /\ req[r] = "sent")
        <4>1. r \in matched /\ req[r] = "sent" => rsess[r] = s
          BY <1>t, <1>4 DEF RequestSide, TidInv
        <4>2. QED
          BY <1>5, <3>2, <4>1
      <3>4. QED
        BY <1>1, <1>6, <3>1, <3>2, <3>3
    <2>4. \A x \in Sessions : \A i \in 1..Len(inbox'[x]) :
            inbox'[x][i].fc = "forward" => inbox'[x][i].tid = rtid'[inbox'[x][i].req]
      <3> SUFFICES ASSUME NEW x \in Sessions, NEW i \in 1..Len(inbox'[x]),
                          inbox'[x][i].fc = "forward"
                   PROVE  inbox'[x][i].tid = rtid'[inbox'[x][i].req]
        OBVIOUS
      <3>1. PICK j \in 1..Len(inbox[x]) : inbox'[x][i] = inbox[x][j]
        BY <1>2
      <3>2. inbox[x][j].tid = rtid[inbox[x][j].req]
        BY <1>t, <3>1 DEF RequestSide, TidInv
      <3>3. QED
        BY <1>1, <3>1, <3>2
    <2>5. /\ \A r \in Reqs, x \in Sessions : Known(r, x) => Started(r) /\ rtid[r] <= tid[x]
          /\ \A r, q \in Reqs, x \in Sessions :
               Known(r, x) /\ Known(q, x) /\ rtid[r] = rtid[q] => r = q
      BY <1>t DEF RequestSide, TidInv
    <2>6. /\ \A r \in Reqs, x \in Sessions :
               Known(r, x)' => Started(r)' /\ rtid'[r] <= tid'[x]
          /\ \A r, q \in Reqs, x \in Sessions :
               Known(r, x)' /\ Known(q, x)' /\ rtid'[r] = rtid'[q] => r = q
      BY <1>1, <2>1, <2>2, <2>5
    <2>7. QED
      BY <2>3, <2>4, <2>6 DEF TidInv
  <1>11. InFlightIsWatched'
    <2> SUFFICES ASSUME NEW r \in Reqs, req'[r] = "sent"
                 PROVE  /\ r \in pending'[rsess'[r]]
                        /\ handler'[rsess'[r]] \in {"reading", "ending"}
      BY DEF InFlightIsWatched
    <2>1. req[r] = "sent" /\ r \notin matched
      BY <1>6
    <2>2. /\ r \in pending[rsess[r]] /\ handler[rsess[r]] \in {"reading", "ending"}
          /\ rsess[r] \in Sessions
      BY <1>t, <2>1 DEF RequestSide, InFlightIsWatched, LockInv, InFlight
    <2>3. QED
      BY <1>1, <1>5, <2>1, <2>2
  <1>12. AnswersAreGenuine'
    <2> SUFFICES ASSUME NEW r \in Reqs, req'[r] \in {"replied", "answered"}
                 PROVE  /\ got'[r].req = r
                        /\ Target[r] # NoPN => got'[r].from = Target[r]
      BY DEF AnswersAreGenuine
    <2>1. CASE r \in matched /\ req[r] = "sent"
      <3>1. got'[r] = [from |-> dongle[s], req |-> f.req]
        BY <1>1, <2>1
      <3>2. got'[r].req = f.req /\ got'[r].from = dongle[s]
        BY <3>1
      <3>3. rsess[r] = s
        BY <1>t, <1>4, <2>1 DEF RequestSide, TidInv
      <3>4. Target[r] # NoPN => dongle[s] = Target[r]
        BY <1>t, <1>2, <2>1, <3>3 DEF RequestSide, LockInv
      <3>5. QED
        BY <1>4, <2>1, <3>2, <3>4
    <2>2. CASE ~(r \in matched /\ req[r] = "sent")
      BY <1>t, <1>6, <2>2 DEF RequestSide, AnswersAreGenuine
    <2>3. QED
      BY <2>1, <2>2
  <1>13. QED
    BY <1>t, <1>7, <1>8, <1>9, <1>10, <1>11, <1>12 DEF SessionInv

LEMMA InvStops ==
  ASSUME SessionInv, NEW s \in Sessions, HandlerStops(s)
  PROVE  SessionInv'
  <1>t. TypeOK' /\ TypeOK /\ SessionSide /\ RequestSide
    BY TypeHandler, Halves DEF Handler
  <1>1. /\ handler[s] = "reading"
        /\ handler' = [handler EXCEPT ![s] = "ending"]
        /\ UNCHANGED <<life, draining, heard, dongle, link, pn, tid, inbox, wire, pending,
                       send_lock, sessions, sessions_by_pn, ready_by_pn, any_ready, status,
                       req, rsess, rtid, got>>
    BY DEF HandlerStops, mgrVars, mapVars, reqVars
  <1>2. handler'[s] = "ending" /\ \A x \in Sessions : x # s => handler'[x] = handler[x]
    BY <1>t, <1>1 DEF TypeOK
  <1>3. \A x \in Sessions : /\ Handled(x)' <=> Handled(x)
                            /\ handler'[x] = handler[x] \/ (Handled(x)' /\ handler[x] # "free")
    BY <1>1, <1>2 DEF Handled
  <1>4. \A x \in Sessions : \A i \in 1..Len(inbox'[x]) :
          \E j \in 1..Len(inbox[x]) : inbox'[x][i] = inbox[x][j]
    BY <1>1
  <1>5. ObjectInv'
    BY <1>t, <1>1, <1>3, <1>4, ObjectsKept DEF SessionSide
  <1>6. MapInv'
    <2>1. \A p \in Connected : sessions_by_pn[p] \in Sessions
      BY <1>t DEF Connected, TypeOK
    <2>2. QED
      BY <1>t, <1>1, <1>3, <2>1 DEF SessionSide, MapInv, Connected
  <1>7. RoutingTables' /\ IdentifiedIsRouted'
    BY <1>t, <1>1 DEF SessionSide, RoutingTables, IdentifiedIsRouted, Connected
  <1>8. StatusIsHonest'
    BY <1>t, <1>1, <1>3 DEF SessionSide, StatusIsHonest, Connected, Handled
  <1>9. RequestSide'
    <2> DEFINE D == {}
    <2>1. D \in SUBSET Sessions /\ \A d \in D : FALSE
      OBVIOUS
    <2> HIDE DEF D
    <2>2. /\ \A r \in Reqs : req'[r] = req[r] /\ ~(req[r] = "sent" /\ \E d \in D : r \in pending[d])
          /\ \A x \in Sessions : pending'[x] = IF x \in D THEN {} ELSE pending[x]
          /\ \A x \in Sessions : wire'[x] \subseteq wire[x]
          /\ \A x \in Sessions : \/ handler'[x] = "free"
                                 \/ handler[x] # "free" /\ dongle'[x] = dongle[x]
      BY <1>1, <1>2, <2>1
    <2>3. QED
      BY <1>t, <1>1, <1>3, <1>4, <2>1, <2>2, RequestsKept
  <1>10. QED
    BY <1>t, <1>5, <1>6, <1>7, <1>8, <1>9 DEF SessionInv, RequestSide

\* The futures that _drop_session completes are the ones of the session's requests.
LEMMA DropLoses ==
  ASSUME NEW s \in Sessions, NEW r \in Reqs
  PROVE  \/ LostWith(s)[r] = req[r] /\ ~(req[r] = "sent" /\ r \in pending[s])
         \/ LostWith(s)[r] = "lost" /\ req[r] = "sent" /\ r \in pending[s]
  BY DEF LostWith

\* What _drop_session leaves of the tables.
LEMMA DropTables ==
  ASSUME SessionInv, NEW s \in Sessions, drop_session(s)
  PROVE  /\ sessions' = sessions \ {s}
         /\ any_ready' = (any_ready /\ sessions \ {s} # {})
         /\ \A x \in Sessions : pending'[x] = IF x \in {s} THEN {} ELSE pending[x]
         /\ \A p \in PNs : \/ sessions_by_pn'[p] = sessions_by_pn[p]
                              /\ sessions_by_pn[p] # s
                           \/ sessions_by_pn'[p] = NoSession /\ sessions_by_pn[p] = s
                              /\ pn[s] = p
         /\ \A p \in Connected' : /\ p \in Connected /\ p \in PNs
                                  /\ sessions_by_pn'[p] = sessions_by_pn[p]
                                  /\ sessions_by_pn[p] \in Sessions \ {s}
         /\ ready_by_pn = Connected => ready_by_pn' = Connected'
  <1>t. TypeOK /\ MapInv
    BY DEF SessionInv
  <1>1. /\ sessions' = sessions \ {s}
        /\ sessions_by_pn' = Unmapped(s)
        /\ ready_by_pn' = ready_by_pn \ {p \in PNs : Unmapped(s)[p] # sessions_by_pn[p]}
        /\ pending' = [pending EXCEPT ![s] = {}]
        /\ any_ready' = (any_ready /\ sessions \ {s} # {})
    BY DEF drop_session
  <1>2. \A x \in Sessions : pending'[x] = IF x \in {s} THEN {} ELSE pending[x]
    BY <1>t, <1>1 DEF TypeOK
  <1>3. \A p \in PNs : sessions_by_pn[p] = s => pn[s] = p
    BY <1>t, NoneAssumption DEF MapInv, Connected
  <1>4. \A p \in PNs : sessions_by_pn'[p] = IF sessions_by_pn[p] = s /\ pn[s] = p THEN NoSession
                                                                     ELSE sessions_by_pn[p]
    BY <1>1 DEF Unmapped
  <1>5. \A p \in PNs : \/ sessions_by_pn'[p] = sessions_by_pn[p] /\ sessions_by_pn[p] # s
                       \/ /\ sessions_by_pn'[p] = NoSession /\ sessions_by_pn[p] = s
                          /\ pn[s] = p
    BY <1>3, <1>4
  <1>6. \A p \in Connected' : /\ p \in Connected /\ p \in PNs
                              /\ sessions_by_pn'[p] = sessions_by_pn[p]
                              /\ sessions_by_pn[p] \in Sessions \ {s}
    BY <1>t, <1>5 DEF Connected, TypeOK
  <1>7. ready_by_pn = Connected => ready_by_pn' = Connected'
    <2>1. \A p \in PNs : p \in Connected' <=> p \in Connected /\ sessions_by_pn'[p] = sessions_by_pn[p]
      BY <1>5, NoneAssumption DEF Connected
    <2>2. ready_by_pn' = ready_by_pn \ {p \in PNs : sessions_by_pn'[p] # sessions_by_pn[p]}
      BY <1>1
    <2>3. Connected' \subseteq PNs /\ Connected \subseteq PNs
      BY DEF Connected
    <2>4. QED
      BY <2>1, <2>2, <2>3
  <1>8. QED
    BY <1>1, <1>2, <1>5, <1>6, <1>7

\* The end of a session: what another session of the same dongle took over stays.
LEMMA InvEnds ==
  ASSUME SessionInv, NEW s \in Sessions, SessionEnds(s)
  PROVE  SessionInv'
  <1>t. TypeOK' /\ TypeOK /\ SessionSide /\ RequestSide
    BY TypeHandler, Halves DEF Handler
  <1>1. /\ handler[s] = "ending"
        /\ handler' = [handler EXCEPT ![s] = "free"]
        /\ link' = [link EXCEPT ![s] = "closed"]
        /\ drop_session(s)
        /\ req' = LostWith(s)
        /\ status' = Disconnected(s)
        /\ dongle' = [dongle EXCEPT ![s] = NoPN]
        /\ pn' = [pn EXCEPT ![s] = NoPN]
        /\ inbox' = [inbox EXCEPT ![s] = <<>>]
        /\ wire' = [wire EXCEPT ![s] = {}]
        /\ UNCHANGED <<life, draining, heard, tid, send_lock, rsess, rtid, got>>
    BY DEF SessionEnds, mgrVars
  <1>2. /\ handler'[s] = "free" /\ link'[s] = "closed" /\ dongle'[s] = NoPN
        /\ pn'[s] = NoPN /\ inbox'[s] = <<>> /\ wire'[s] = {}
    BY <1>t, <1>1 DEF TypeOK
  <1>3. \A x \in Sessions : x # s =>
          /\ handler'[x] = handler[x] /\ link'[x] = link[x] /\ dongle'[x] = dongle[x]
          /\ pn'[x] = pn[x] /\ inbox'[x] = inbox[x] /\ wire'[x] = wire[x]
    BY <1>t, <1>1 DEF TypeOK
  <1>4. /\ sessions' = sessions \ {s}
        /\ any_ready' = (any_ready /\ sessions \ {s} # {})
        /\ \A x \in Sessions : pending'[x] = IF x \in {s} THEN {} ELSE pending[x]
    BY <1>1, DropTables
  <1>5. \A p \in PNs : \/ sessions_by_pn'[p] = sessions_by_pn[p] /\ sessions_by_pn[p] # s
                       \/ /\ sessions_by_pn'[p] = NoSession /\ sessions_by_pn[p] = s
                          /\ pn[s] = p
    BY <1>1, DropTables
  <1>6. \A p \in Connected' : /\ p \in Connected /\ p \in PNs
                              /\ sessions_by_pn'[p] = sessions_by_pn[p]
                              /\ sessions_by_pn[p] \in Sessions \ {s}
    BY <1>1, DropTables
  <1>7. ready_by_pn = Connected => ready_by_pn' = Connected'
    BY <1>1, DropTables
  <1>h. \A x \in Sessions : Handled(x)' <=> x # s /\ Handled(x)
    BY <1>2, <1>3 DEF Handled
  <1>8. ObjectInv'
    <2> SUFFICES ASSUME NEW x \in Sessions
                 PROVE
        /\ handler'[x] = "free" => /\ link'[x] = "closed" /\ inbox'[x] = <<>>
        /\ handler'[x] \in {"free", "accepted"} =>
             pn'[x] = NoPN /\ wire'[x] = {} /\ pending'[x] = {} /\ x \notin sessions'
        /\ handler'[x] = "accepted" => send_lock'[x] = <<>>
        /\ pn'[x] # NoPN => pn'[x] = dongle'[x]
        /\ \A i \in 1..Len(inbox'[x]) :
             inbox'[x][i].fc = "heartbeat" => inbox'[x][i].pn \in {dongle'[x], NoPN}
      BY DEF ObjectInv
    <2>1. CASE x = s
      BY <1>2, <1>4, <2>1
    <2>2. CASE x # s
      BY <1>t, <1>1, <1>3, <1>4, <2>2 DEF SessionSide, ObjectInv
    <2>3. QED
      BY <2>1, <2>2
  <1>9. MapInv'
    <2>1. \A p \in Connected : pn[sessions_by_pn[p]] = p /\ Handled(sessions_by_pn[p])
      BY <1>t DEF SessionSide, MapInv
    <2>2. \A p \in Connected' : pn'[sessions_by_pn'[p]] = p /\ Handled(sessions_by_pn[p])'
      BY <1>3, <1>6, <1>h, <2>1
    <2>3. life = "up" => \A x \in Sessions : Handled(x)' /\ pn'[x] = NoPN => x \in sessions'
      BY <1>t, <1>3, <1>4, <1>h DEF SessionSide, MapInv
    <2>4. draining # {} => life = "draining"
      BY <1>t DEF SessionSide, MapInv
    <2>5. QED
      BY <1>1, <2>2, <2>3, <2>4 DEF MapInv
  <1>10. RoutingTables' /\ IdentifiedIsRouted'
    <2>1. RoutingTables'
      <3> SUFFICES ASSUME life = "up"
                   PROVE  /\ \A p \in Connected' : /\ sessions_by_pn'[p] \in sessions'
                                                   /\ pn'[sessions_by_pn'[p]] = p
                                                   /\ dongle'[sessions_by_pn'[p]] = p
                          /\ ready_by_pn' = Connected'
                          /\ any_ready' <=> sessions' # {}
        BY <1>1 DEF RoutingTables
      <3>1. \A p \in Connected' : /\ sessions_by_pn'[p] \in sessions'
                                  /\ pn'[sessions_by_pn'[p]] = p
                                  /\ dongle'[sessions_by_pn'[p]] = p
        BY <1>t, <1>3, <1>4, <1>6 DEF SessionSide, RoutingTables
      <3>2. any_ready <=> sessions # {}
        BY <1>t DEF SessionSide, RoutingTables
      <3>3. any_ready' <=> sessions' # {}
        BY <1>4, <3>2
      <3>4. QED
        BY <1>t, <1>7, <3>1, <3>3 DEF SessionSide, RoutingTables
    <2>2. IdentifiedIsRouted'
      BY <1>t, <1>1, <1>3, <1>4, <1>5 DEF SessionSide, IdentifiedIsRouted, TypeOK
    <2>3. QED
      BY <2>1, <2>2
  <1>11. StatusIsHonest'
    <2>1. \A p \in PNs : \/ status'[p] = status[p] /\ (p = pn[s] => sessions_by_pn'[p] # NoSession)
                         \/ /\ status'[p] = "disconnected" /\ p = pn[s]
                            /\ sessions_by_pn'[p] = NoSession
      <3>1. sessions_by_pn' = Unmapped(s)
        BY <1>1 DEF drop_session
      <3>2. QED
        BY <1>t, <1>1, <3>1, NoneAssumption DEF Disconnected, TypeOK
    <2> SUFFICES ASSUME NEW p \in PNs
                 PROVE  /\ p \in Connected' => status'[p] = "connected"
                        /\ status'[p] = "connected" =>
                             \E x \in Sessions : pn'[x] = p /\ handler'[x] \in {"reading", "ending"}
      BY DEF StatusIsHonest
    <2>2. p \in Connected' => status'[p] = "connected"
      BY <1>t, <1>6, <2>1 DEF SessionSide, StatusIsHonest, Connected
    <2>3. ASSUME status'[p] = "connected"
          PROVE  \E x \in Sessions : pn'[x] = p /\ handler'[x] \in {"reading", "ending"}
      <3>1. CASE p = pn[s]
        <4>1. p \in Connected'
          BY <2>1, <2>3, <3>1 DEF Connected
        <4>2. /\ sessions_by_pn[p] \in Sessions /\ sessions_by_pn[p] # s
              /\ pn[sessions_by_pn[p]] = p /\ Handled(sessions_by_pn[p])
          BY <1>t, <1>6, <4>1 DEF SessionSide, MapInv
        <4>3. QED
          BY <1>3, <4>2 DEF Handled
      <3>2. CASE p # pn[s]
        <4>1. PICK x \in Sessions : pn[x] = p /\ handler[x] \in {"reading", "ending"}
          BY <1>t, <2>1, <2>3, <3>2 DEF SessionSide, StatusIsHonest
        <4>2. QED
          BY <1>3, <3>2, <4>1
      <3>3. QED
        BY <3>1, <3>2
    <2>4. QED
      BY <2>2, <2>3
  <1>12. RequestSide'
    <2> DEFINE D == {s}
    <2>1. \A r \in Reqs :
           \/ req'[r] = req[r] /\ ~(req[r] = "sent" /\ \E d \in D : r \in pending[d])
           \/ req[r] = "sent" /\ req'[r] = "lost" /\ \E d \in D : r \in pending[d]
      BY <1>1, DropLoses
    <2>2. \A x \in Sessions : \A i \in 1..Len(inbox'[x]) :
            \E j \in 1..Len(inbox[x]) : inbox'[x][i] = inbox[x][j]
      <3>1. \A i \in 1..Len(inbox'[s]) : FALSE
        BY <1>2
      <3>2. QED
        BY <1>3, <3>1
    <2>3. \A x \in Sessions : x \notin D /\ Handled(x) => Handled(x)'
      BY <1>h
    <2>4. \A x \in Sessions : \/ handler'[x] = "free"
                              \/ handler[x] # "free" /\ dongle'[x] = dongle[x]
      BY <1>2, <1>3
    <2>5. \A x \in Sessions : wire'[x] \subseteq wire[x]
      BY <1>2, <1>3
    <2>6. \A x \in Sessions : pending'[x] = IF x \in D THEN {} ELSE pending[x]
      BY <1>4
    <2>7. D \in SUBSET Sessions
      OBVIOUS
    <2> HIDE DEF D
    <2>8. QED
      BY <1>t, <1>1, <2>1, <2>2, <2>3, <2>4, <2>5, <2>6, <2>7, RequestsKept
  <1>13. QED
    BY <1>t, <1>8, <1>9, <1>10, <1>11, <1>12 DEF SessionInv, RequestSide

LEMMA InvHandler ==
  ASSUME SessionInv, NEW s \in Sessions, Handler(s)
  PROVE  SessionInv'
  BY InvStarts, InvIdentifies, InvHeartbeatAgain, InvReadsReply, InvStops, InvEnds DEF Handler

\* A keepalive uses up a transaction id; a failed one closes the connection.
LEMMA InvKeepalive ==
  ASSUME SessionInv, NEW s \in Sessions, Keepalive(s)
  PROVE  SessionInv'
  <1>t. TypeOK' /\ TypeOK /\ SessionSide /\ RequestSide
    BY TypeKeepalive, Halves
  <1>1. CASE SendsHeartbeat(s)
    <2>1. /\ tid[s] < FrameBound
          /\ tid' = [tid EXCEPT ![s] = next_tid(s)]
          /\ UNCHANGED <<life, draining, heard, dongle, handler, link, pn, inbox, wire, pending,
                         send_lock, sessions, sessions_by_pn, ready_by_pn, any_ready, status,
                         req, rsess, rtid, got>>
      BY <1>1 DEF SendsHeartbeat, mgrVars, mapVars, reqVars
    <2>2. next_tid(s) = tid[s] + 1
      BY <1>t, <2>1, NextTid DEF TypeOK
    <2>3. \A x \in Sessions : tid[x] <= tid'[x] /\ tid[x] \in Int /\ tid'[x] \in Int
      BY <1>t, <2>1, <2>2 DEF TypeOK, Tids
    <2>4. \A x \in Sessions, r \in Reqs : rtid[r] <= tid[x] => rtid[r] <= tid'[x]
      <3>1. \A r \in Reqs : rtid[r] \in Int
        BY <1>t DEF TypeOK, Tids
      <3>2. QED
        BY <2>3, <3>1
    <2>5. TidInv'
      BY <1>t, <2>1, <2>4 DEF RequestSide, TidInv, Known, Started
    <2>6. LockInv' /\ InFlightIsWatched' /\ AnswersAreGenuine'
      BY <1>t, <2>1 DEF RequestSide, LockInv, InFlight, InFlightIsWatched, AnswersAreGenuine
    <2>7. SessionSide'
      BY <1>t, <2>1, SameSessions DEF sideVars
    <2>8. QED
      BY <1>t, <2>5, <2>6, <2>7 DEF SessionInv, SessionSide
  <1>2. CASE HeartbeatFails(s)
    <2>1. UNCHANGED sideVars /\ UNCHANGED requestVars
          /\ \A x \in Sessions : handler[x] = "free" => link'[x] = link[x]
      BY <1>t, <1>2 DEF HeartbeatFails, mgrVars, mapVars, reqVars, sideVars, requestVars, TypeOK
    <2>2. QED
      BY <1>t, <2>1, SameSessions, SameRequests DEF SessionInv, SessionSide, RequestSide
  <1>3. QED
    BY <1>1, <1>2 DEF Keepalive

\* The announcer changes nothing but what the dongles hear.
LEMMA InvAnnouncer ==
  ASSUME SessionInv, Announcer
  PROVE  SessionInv'
  <1> USE DEF sessVars, mapVars, reqVars
  <1>t. TypeOK /\ SessionSide /\ RequestSide
    BY Halves
  <1>1. PICK H \in SUBSET PNs : Broadcast(H)
    BY DEF Announcer, Announce, ForcedAnnounce
  <1>2. TypeOK'
    BY <1>t, <1>1 DEF Broadcast, TypeOK
  <1>3. UNCHANGED sideVars /\ UNCHANGED requestVars /\ link' = link
    BY <1>1 DEF Broadcast, sideVars, requestVars
  <1>4. SessionSide' /\ RequestSide'
    BY <1>t, <1>3, SameSessions, SameRequests
  <1>5. QED
    BY <1>2, <1>4 DEF SessionInv, SessionSide, RequestSide

\* The maps are cleared, with the futures of the sessions D failed.
LEMMA InvClears ==
  ASSUME SessionInv, TypeOK', NEW q, ShutdownClears(q), NEW D \in SUBSET Sessions,
         \A r \in Reqs :
           \/ q[r] = req[r] /\ ~(req[r] = "sent" /\ \E d \in D : r \in pending[d])
           \/ q[r] = "lost" /\ req[r] = "sent" /\ \E d \in D : r \in pending[d],
         \A x \in Sessions : pending'[x] = IF x \in D THEN {} ELSE pending[x],
         \A x \in Sessions : link'[x] = link[x] \/ link'[x] = "closed"
  PROVE  SessionInv'
  <1>t. TypeOK /\ SessionSide /\ RequestSide
    BY Halves
  <1>1. /\ life' = "closing" /\ draining' = {} /\ sessions' = {}
        /\ sessions_by_pn' = [p \in PNs |-> NoSession]
        /\ req' = [r \in Reqs |-> IF q[r] = "waiting" /\ Target[r] # NoPN THEN "deaf"
                                                                         ELSE q[r]]
        /\ UNCHANGED <<dongle, handler, pn, tid, inbox, wire, send_lock, status, rsess,
                       rtid, got>>
    BY DEF ShutdownClears
  <1>2. Connected' = {}
    BY <1>1 DEF Connected
  <1>3. \A x \in Sessions : \A i \in 1..Len(inbox'[x]) :
          \E j \in 1..Len(inbox[x]) : inbox'[x][i] = inbox[x][j]
    BY <1>1
  <1>4. ObjectInv'
    <2>1. \A x \in Sessions : pending'[x] \subseteq pending[x] /\ x \notin sessions'
      BY <1>1
    <2>2. QED
      BY <1>t, <1>1, <1>3, <2>1, ObjectsKept DEF SessionSide
  <1>5. MapInv' /\ RoutingTables' /\ IdentifiedIsRouted'
    BY <1>1, <1>2 DEF MapInv, RoutingTables, IdentifiedIsRouted
  <1>6. StatusIsHonest'
    BY <1>t, <1>1, <1>2 DEF SessionSide, StatusIsHonest
  <1>7. RequestSide'
    <2>1. \A r \in Reqs :
            \/ req'[r] = req[r] /\ ~(req[r] = "sent" /\ \E d \in D : r \in pending[d])
            \/ req[r] \in Quiet /\ req'[r] \in Quiet \cup {"none", "cancelled"}
            \/ req[r] = "sent" /\ req'[r] = "lost" /\ \E d \in D : r \in pending[d]
      <3> SUFFICES ASSUME NEW r \in Reqs
                   PROVE
            \/ req'[r] = req[r] /\ ~(req[r] = "sent" /\ \E d \in D : r \in pending[d])
            \/ req[r] \in Quiet /\ req'[r] \in Quiet \cup {"none", "cancelled"}
            \/ req[r] = "sent" /\ req'[r] = "lost" /\ \E d \in D : r \in pending[d]
        OBVIOUS
      <3>1. \/ q[r] = "waiting" /\ req'[r] = "deaf"
            \/ req'[r] = q[r]
        BY <1>1
      <3>2. QED
        BY <3>1 DEF Quiet
    <2>2. \A x \in Sessions : Handled(x) => Handled(x)'
      BY <1>1 DEF Handled
    <2>3. \A x \in Sessions : \/ handler'[x] = "free"
                              \/ handler[x] # "free" /\ dongle'[x] = dongle[x]
      BY <1>1
    <2>4. \A x \in Sessions : wire'[x] \subseteq wire[x]
      BY <1>1
    <2>5. QED
      BY <1>t, <1>1, <1>3, <2>1, <2>2, <2>3, <2>4, RequestsKept
  <1>8. QED
    BY <1>4, <1>5, <1>6, <1>7 DEF SessionInv, RequestSide

LEMMA InvShutdownDrops ==
  ASSUME SessionInv, NEW s \in Sessions, ShutdownDrops(s)
  PROVE  SessionInv'
  <1>t. TypeOK' /\ TypeOK /\ SessionSide /\ RequestSide
    BY TypeShutdown, Halves DEF Shutdown
  <1>1. /\ s \in draining
        /\ draining' = draining \ {s}
        /\ drop_session(s)
        /\ req' = LostWith(s)
        /\ link' = [link EXCEPT ![s] = "closed"]
        /\ UNCHANGED <<life, heard, dongle, handler, pn, tid, inbox, wire, send_lock,
                       status, rsess, rtid, got>>
    BY DEF ShutdownDrops
  <1>2. life = "draining" /\ life' = "draining"
    BY <1>t, <1>1 DEF SessionSide, MapInv
  <1>3. /\ sessions' = sessions \ {s}
        /\ \A x \in Sessions : pending'[x] = IF x \in {s} THEN {} ELSE pending[x]
        /\ \A p \in Connected' : /\ p \in Connected /\ p \in PNs
                                 /\ sessions_by_pn'[p] = sessions_by_pn[p]
                                 /\ sessions_by_pn[p] \in Sessions \ {s}
    BY <1>1, DropTables
  <1>4. \A x \in Sessions : \A i \in 1..Len(inbox'[x]) :
          \E j \in 1..Len(inbox[x]) : inbox'[x][i] = inbox[x][j]
    BY <1>1
  <1>h. \A x \in Sessions : Handled(x)' <=> Handled(x)
    BY <1>1 DEF Handled
  <1>5. ObjectInv'
    <2>1. \A x \in Sessions : link'[x] = link[x] \/ link'[x] = "closed"
      BY <1>t, <1>1 DEF TypeOK
    <2>2. \A x \in Sessions : /\ pending'[x] \subseteq pending[x]
                              /\ x \in sessions' => x \in sessions
      BY <1>3
    <2>3. QED
      BY <1>t, <1>1, <1>4, <2>1, <2>2, ObjectsKept DEF SessionSide
  <1>6. MapInv'
    <2>1. \A p \in Connected' : pn'[sessions_by_pn'[p]] = p /\ Handled(sessions_by_pn[p])'
      BY <1>t, <1>1, <1>3, <1>h DEF SessionSide, MapInv
    <2>2. QED
      BY <1>2, <2>1 DEF MapInv
  <1>7. RoutingTables' /\ IdentifiedIsRouted'
    BY <1>2 DEF RoutingTables, IdentifiedIsRouted
  <1>8. StatusIsHonest'
    BY <1>t, <1>1, <1>3 DEF SessionSide, StatusIsHonest
  <1>9. RequestSide'
    <2> DEFINE D == {s}
    <2>1. \A r \in Reqs :
           \/ req'[r] = req[r] /\ ~(req[r] = "sent" /\ \E d \in D : r \in pending[d])
           \/ req[r] = "sent" /\ req'[r] = "lost" /\ \E d \in D : r \in pending[d]
      BY <1>1, DropLoses
    <2>2. /\ \A x \in Sessions : \/ handler'[x] = "free"
                                 \/ handler[x] # "free" /\ dongle'[x] = dongle[x]
          /\ \A x \in Sessions : wire'[x] \subseteq wire[x]
      BY <1>1
    <2>3. D \in SUBSET Sessions /\ \A x \in Sessions : pending'[x] = IF x \in D THEN {} ELSE pending[x]
      BY <1>3
    <2> HIDE DEF D
    <2>4. QED
      BY <1>t, <1>1, <1>4, <1>h, <2>1, <2>2, <2>3, RequestsKept
  <1>10. QED
    BY <1>t, <1>5, <1>6, <1>7, <1>8, <1>9 DEF SessionInv, RequestSide

LEMMA InvShutdown ==
  ASSUME SessionInv, Shutdown
  PROVE  SessionInv'
  <1>t. TypeOK' /\ TypeOK /\ SessionSide /\ RequestSide
    BY TypeShutdown, Halves
  <1>1. CASE ShutdownBegins \/ ShutdownEnds
    <2>1. /\ life' # "up"
          /\ draining' # {} => life' = "draining"
          /\ UNCHANGED <<dongle, handler, link, pn, tid, inbox, wire, pending, send_lock,
                         sessions, sessions_by_pn, ready_by_pn, any_ready, status,
                         req, rsess, rtid, got>>
      BY <1>t, <1>1 DEF ShutdownBegins, ShutdownEnds, sessVars, mapVars, reqVars, SessionSide, MapInv
    <2>2. RequestSide'
      BY <1>t, <2>1, SameRequests DEF requestVars
    <2>3. ObjectInv'
      BY <1>t, <2>1 DEF SessionSide, ObjectInv
    <2>4. MapInv' /\ RoutingTables' /\ IdentifiedIsRouted' /\ StatusIsHonest'
      BY <1>t, <2>1 DEF SessionSide, MapInv, Connected, Handled, RoutingTables, IdentifiedIsRouted,
                        StatusIsHonest
    <2>5. QED
      BY <1>t, <2>2, <2>3, <2>4 DEF SessionInv, RequestSide
  <1>2. CASE ShutdownIdle
    <2> DEFINE D == {}
    <2>1. D \in SUBSET Sessions /\ \A d \in D : FALSE
      OBVIOUS
    <2> HIDE DEF D
    <2>2. ShutdownClears(req) /\ UNCHANGED <<link, pending>>
      BY <1>2 DEF ShutdownIdle
    <2>3. QED
      BY <1>t, <2>1, <2>2, InvClears
  <1>3. ASSUME NEW s \in Sessions, ShutdownDrops(s) \/ ShutdownDropsLast(s)
        PROVE  SessionInv'
    <2>1. CASE ShutdownDrops(s)
      BY <2>1, InvShutdownDrops
    <2>2. CASE ShutdownDropsLast(s)
      <3> DEFINE D == {s}
                 q == LostWith(s)
      <3>1. /\ link' = [link EXCEPT ![s] = "closed"]
            /\ pending' = [pending EXCEPT ![s] = {}]
            /\ ShutdownClears(q)
        BY <2>2 DEF ShutdownDropsLast
      <3>2. \A r \in Reqs :
              \/ q[r] = req[r] /\ ~(req[r] = "sent" /\ \E d \in D : r \in pending[d])
              \/ q[r] = "lost" /\ req[r] = "sent" /\ \E d \in D : r \in pending[d]
        BY DropLoses
      <3> HIDE DEF q
      <3>3. /\ D \in SUBSET Sessions
            /\ \A x \in Sessions : pending'[x] = IF x \in D THEN {} ELSE pending[x]
            /\ \A x \in Sessions : link'[x] = link[x] \/ link'[x] = "closed"
        BY <1>t, <3>1 DEF TypeOK
      <3> HIDE DEF D
      <3>4. QED
        BY <1>t, <3>1, <3>2, <3>3, InvClears
    <2>3. QED
      BY <1>3, <2>1, <2>2
  <1>4. QED
    BY <1>1, <1>2, <1>3 DEF Shutdown

\* A request that holds no session yet waits, is dropped or gives up.
LEMMA QuietStep ==
  ASSUME SessionInv, TypeOK', NEW r \in Reqs, NEW v \in Quiet \cup {"none", "cancelled"},
         req[r] \in Quiet, req' = [req EXCEPT ![r] = v],
         UNCHANGED <<life, draining, dongle, handler, link, pn, tid, inbox, wire, pending,
                     send_lock, sessions, sessions_by_pn, ready_by_pn, any_ready, status,
                     rsess, rtid, got>>
  PROVE  SessionInv'
  <1>t. TypeOK /\ SessionSide /\ RequestSide
    BY Halves
  <1>1. SessionSide'
    BY <1>t, SameSessions DEF sideVars
  <1>2. RequestSide'
    <2>2. \A q \in Reqs :
            \/ req'[q] = req[q]
            \/ req[q] \in Quiet /\ req'[q] \in Quiet \cup {"none", "cancelled"}
      BY <1>t DEF TypeOK
    <2>5. LockInv'
      <3>1. \A q \in Reqs : /\ req'[q] = "locking" => req[q] = "locking"
                            /\ InFlight(q)' => InFlight(q)
                            /\ req'[q] = "sent" => req[q] = "sent"
        BY <2>2 DEF Quiet, InFlight
      <3>2. QED
        BY <1>t, <3>1 DEF RequestSide, LockInv
    <2>6. TidInv'
      <3>1. \A q \in Reqs, x \in Sessions : Known(q, x)' <=> Known(q, x)
        BY DEF Known
      <3>2. \A q \in Reqs : Started(q) => Started(q)' /\ req'[q] = req[q]
        BY <2>2 DEF Started, Quiet
      <3>3. \A x \in Sessions : \A q \in pending[x] : q \in Reqs
        BY <1>t DEF TypeOK
      <3>4. \A x \in Sessions : \A q \in pending'[x] :
              req'[q] = "cancelled" \/ (req'[q] = "sent" /\ rsess'[q] = x)
        BY <1>t, <2>2, <3>3 DEF RequestSide, TidInv, Quiet
      <3>5. QED
        BY <1>t, <3>1, <3>2, <3>4 DEF RequestSide, TidInv
    <2>7. InFlightIsWatched' /\ AnswersAreGenuine'
      <3>1. \A q \in Reqs : req'[q] \in {"sent", "replied", "answered"} => req'[q] = req[q]
        BY <2>2 DEF Quiet
      <3>2. QED
        BY <1>t, <3>1 DEF RequestSide, InFlightIsWatched, AnswersAreGenuine
    <2>8. QED
      BY <2>5, <2>6, <2>7 DEF RequestSide
  <1>3. QED
    BY <1>1, <1>2, Halves DEF SessionInv, SessionSide, RequestSide

\* Steps of requests do not touch the tables, and only sessions that are being
\* handled get new requests.
LEMMA TablesKept ==
  ASSUME SessionSide,
         UNCHANGED <<life, draining, dongle, handler, link, pn, inbox, sessions,
                     sessions_by_pn, ready_by_pn, any_ready, status>>,
         \A x \in Sessions : \/ wire'[x] \subseteq wire[x] /\ pending'[x] \subseteq pending[x]
                             \/ Handled(x),
         \A x \in Sessions : handler[x] = "accepted" => send_lock'[x] = <<>>
  PROVE  SessionSide'
  <1> USE DEF SessionSide
  <1>1. ObjectInv'
    BY DEF ObjectInv, Handled
  <1>2. MapInv'
    BY DEF MapInv, Connected, Handled
  <1>3. RoutingTables' /\ IdentifiedIsRouted' /\ StatusIsHonest'
    BY DEF RoutingTables, IdentifiedIsRouted, StatusIsHonest, Connected
  <1>4. QED
    BY <1>1, <1>2, <1>3

\* A request r ends and leaves the line for the lock of s.
LEMMA Leaves ==
  ASSUME TypeOK, TypeOK', RequestSide, NEW r \in Reqs, NEW s \in Sessions,
         req'[r] \in {"none", "answered", "cancelled"},
         req'[r] = "answered" => req[r] = "replied",
         \A q \in Reqs : q # r => req'[q] = req[q] /\ rsess'[q] = rsess[q],
         \A x \in Sessions : x # s => send_lock'[x] = send_lock[x],
         \A q \in Reqs : q # r /\ req[q] = "locking" /\ rsess[q] = s =>
                           \E k \in 1..Len(send_lock'[s]) : send_lock'[s][k] = q,
         \A q \in Reqs : q # r /\ InFlight(q) /\ rsess[q] = s =>
                           send_lock'[s] # <<>> /\ Head(send_lock'[s]) = q,
         \A x \in Sessions : pending'[x] \subseteq pending[x],
         \A x \in Sessions : \A q \in pending[x] : q # r => q \in pending'[x],
         \A x \in Sessions : r \in pending'[x] => req'[r] = "cancelled",
         \A x \in Sessions : tid[x] <= tid'[x],
         UNCHANGED <<dongle, handler, inbox, wire, rtid, got>>
  PROVE  RequestSide'
  <1>2. LockInv'
    <2> SUFFICES ASSUME NEW q \in Reqs
                 PROVE
        /\ req'[q] = "locking" => /\ rsess'[q] \in Sessions
                                  /\ \E i \in 1..Len(send_lock'[rsess'[q]]) :
                                        send_lock'[rsess'[q]][i] = q
        /\ InFlight(q)' => /\ rsess'[q] \in Sessions
                           /\ send_lock'[rsess'[q]] # <<>> /\ Head(send_lock'[rsess'[q]]) = q
        /\ req'[q] \in {"locking", "sent"} /\ Target[q] # NoPN =>
             handler'[rsess'[q]] = "free" \/ dongle'[rsess'[q]] = Target[q]
      BY DEF LockInv
    <2>1. CASE q = r
      BY <2>1 DEF InFlight
    <2>2. CASE q # r
      <3>1. req'[q] = req[q] /\ rsess'[q] = rsess[q] /\ (InFlight(q)' <=> InFlight(q))
        BY <2>2 DEF InFlight
      <3>2. CASE rsess[q] = s
        BY <2>2, <3>1, <3>2 DEF RequestSide, LockInv
      <3>3. CASE rsess[q] # s
        BY <2>2, <3>1, <3>3 DEF RequestSide, LockInv
      <3>4. QED
        BY <3>2, <3>3
    <2>3. QED
      BY <2>1, <2>2
  <1>3. TidInv'
    <2>1. \A q \in Reqs, x \in Sessions : Known(q, x)' => Known(q, x)
      BY DEF Known
    <2>2. \A q \in Reqs : Started(q) => Started(q)'
      BY DEF Started
    <2>3. \A x \in Sessions : \A q \in pending'[x] :
            req'[q] = "cancelled" \/ (req'[q] = "sent" /\ rsess'[q] = x)
      <3> SUFFICES ASSUME NEW x \in Sessions, NEW q \in pending'[x]
                   PROVE  req'[q] = "cancelled" \/ (req'[q] = "sent" /\ rsess'[q] = x)
        OBVIOUS
      <3>1. q \in pending[x] /\ q \in Reqs
        BY DEF TypeOK
      <3>2. req[q] = "cancelled" \/ (req[q] = "sent" /\ rsess[q] = x)
        BY <3>1 DEF RequestSide, TidInv
      <3>3. QED
        BY <3>1, <3>2
    <2>4. \A q \in Reqs, x \in Sessions : rtid[q] <= tid[x] => rtid'[q] <= tid'[x]
      <3>1. \A q \in Reqs : rtid[q] \in Int /\ rtid'[q] = rtid[q]
        BY DEF TypeOK, Tids
      <3>2. \A x \in Sessions : tid[x] \in Int /\ tid'[x] \in Int
        BY DEF TypeOK, Tids
      <3>3. QED
        BY <3>1, <3>2
    <2>5. \A q \in Reqs, x \in Sessions : Known(q, x)' => Started(q)' /\ rtid'[q] <= tid'[x]
      BY <2>1, <2>2, <2>4 DEF RequestSide, TidInv
    <2>6. \A q, u \in Reqs, x \in Sessions :
            Known(q, x)' /\ Known(u, x)' /\ rtid'[q] = rtid'[u] => q = u
      BY <2>1 DEF RequestSide, TidInv
    <2>7. \A x \in Sessions : \A i \in 1..Len(inbox'[x]) :
            inbox'[x][i].fc = "forward" => inbox'[x][i].tid = rtid'[inbox'[x][i].req]
      BY DEF RequestSide, TidInv
    <2>8. QED
      BY <2>3, <2>5, <2>6, <2>7 DEF TidInv
  <1>4. InFlightIsWatched'
    <2> SUFFICES ASSUME NEW q \in Reqs, req'[q] = "sent"
                 PROVE  q \in pending'[rsess'[q]] /\ handler'[rsess'[q]] \in {"reading", "ending"}
      BY DEF InFlightIsWatched
    <2>1. q # r /\ req[q] = "sent" /\ rsess'[q] = rsess[q]
      OBVIOUS
    <2>2. rsess[q] \in Sessions
      BY <2>1 DEF RequestSide, LockInv, InFlight
    <2>3. QED
      BY <2>1, <2>2 DEF RequestSide, InFlightIsWatched
  <1>5. AnswersAreGenuine'
    <2>1. \A q \in Reqs : req'[q] \in {"replied", "answered"} => req[q] \in {"replied", "answered"}
      OBVIOUS
    <2>2. QED
      BY <2>1 DEF RequestSide, AnswersAreGenuine
  <1>6. QED
    BY <1>2, <1>3, <1>4, <1>5 DEF RequestSide

\* Whoever is in a line behind its head stays in it when the head leaves.
LEMMA HeadLeaves ==
  ASSUME NEW w \in Seq(Reqs), w # <<>>, NEW j \in 1..Len(w), w[j] # Head(w)
  PROVE  \E k \in 1..Len(Tail(w)) : Tail(w)[k] = w[j]
  <1>1. j # 1
    OBVIOUS
  <1>2. j - 1 \in 1..Len(Tail(w)) /\ Tail(w)[j - 1] = w[j]
    BY <1>1
  <1>3. QED
    BY <1>2

\* Facts of the line that a request in flight heads.
LEMMA HoldsLock ==
  ASSUME SessionInv, NEW r \in Reqs, InFlight(r)
  PROVE  /\ rsess[r] \in Sessions /\ send_lock[rsess[r]] # <<>>
         /\ \A q \in Reqs : q # r /\ req[q] = "locking" /\ rsess[q] = rsess[r] =>
              \E k \in 1..Len(Tail(send_lock[rsess[r]])) : Tail(send_lock[rsess[r]])[k] = q
         /\ \A q \in Reqs : InFlight(q) /\ rsess[q] = rsess[r] => q = r
         /\ handler[rsess[r]] # "accepted"
  <1>1. /\ rsess[r] \in Sessions
        /\ send_lock[rsess[r]] # <<>> /\ Head(send_lock[rsess[r]]) = r
    BY DEF SessionInv, LockInv
  <1>2. send_lock[rsess[r]] \in Seq(Reqs)
    BY <1>1 DEF SessionInv, TypeOK
  <1>3. ASSUME NEW q \in Reqs, q # r, req[q] = "locking", rsess[q] = rsess[r]
        PROVE  \E k \in 1..Len(Tail(send_lock[rsess[r]])) : Tail(send_lock[rsess[r]])[k] = q
    <2>1. PICK j \in 1..Len(send_lock[rsess[r]]) : send_lock[rsess[r]][j] = q
      BY <1>3 DEF SessionInv, LockInv
    <2>2. QED
      BY <1>1, <1>2, <1>3, <2>1, HeadLeaves
  <1>4. \A q \in Reqs : InFlight(q) /\ rsess[q] = rsess[r] => q = r
    BY <1>1 DEF SessionInv, LockInv
  <1>5. handler[rsess[r]] # "accepted"
    BY <1>1 DEF SessionInv, ObjectInv
  <1>6. QED
    BY <1>1, <1>3, <1>4, <1>5

\* A request in flight ends: with its answer, without, or cancelled.
LEMMA InvReleases ==
  ASSUME SessionInv, NEW r \in Reqs, Finishes(r) \/ ReplyTimeout(r) \/ CancelsSent(r)
  PROVE  SessionInv'
  <1> DEFINE s == rsess[r]
             L == Tail(send_lock[s])
  <1>f. InFlight(r)
    BY DEF Finishes, ReplyTimeout, CancelsSent, InFlight
  <1>t. TypeOK' /\ TypeOK /\ SessionSide /\ RequestSide
    BY TypeRequest, Halves DEF Proceed, Expire, Cancels, SessionInv
  <1>1. /\ send_lock' = [send_lock EXCEPT ![s] = L]
        /\ rsess' = [rsess EXCEPT ![r] = NoSession]
        /\ UNCHANGED <<life, draining, heard, dongle, handler, link, pn, tid, inbox, wire,
                       sessions, sessions_by_pn, ready_by_pn, any_ready, status, rtid, got>>
    BY DEF Finishes, ReplyTimeout, CancelsSent, Releases, mgrVars, mapVars
  <1>2. /\ s \in Sessions /\ handler[s] # "accepted"
        /\ \A q \in Reqs : q # r /\ req[q] = "locking" /\ rsess[q] = s =>
             \E k \in 1..Len(L) : L[k] = q
        /\ \A q \in Reqs : q # r /\ InFlight(q) /\ rsess[q] = s => L # <<>> /\ Head(L) = q
    BY <1>f, HoldsLock
  <1>3. /\ req'[r] \in {"none", "answered", "cancelled"}
        /\ req'[r] = "answered" => req[r] = "replied"
        /\ \A q \in Reqs : q # r => req'[q] = req[q]
    <2>1. req \in [Reqs -> ReqStates]
      BY <1>t DEF TypeOK
    <2>2. CASE Finishes(r)
      <3>1. req' = [req EXCEPT ![r] = IF @ = "replied" THEN "answered" ELSE "none"]
        BY <2>2 DEF Finishes
      <3>2. QED
        BY <2>1, <3>1
    <2>3. CASE ReplyTimeout(r)
      <3>1. req' = [req EXCEPT ![r] = "none"]
        BY <2>3 DEF ReplyTimeout
      <3>2. QED
        BY <2>1, <3>1
    <2>4. CASE CancelsSent(r)
      <3>1. req' = [req EXCEPT ![r] = "cancelled"]
        BY <2>4 DEF CancelsSent
      <3>2. QED
        BY <2>1, <3>1
    <2>5. QED
      BY <2>2, <2>3, <2>4
  <1>4. \A x \in Sessions : /\ r \in pending[x] => req[r] = "sent" /\ x = s
    BY <1>f, <1>t DEF RequestSide, TidInv, InFlight
  <1>5. /\ \A x \in Sessions : pending'[x] \subseteq pending[x]
        /\ \A x \in Sessions : \A q \in pending[x] : q # r => q \in pending'[x]
        /\ \A x \in Sessions : r \in pending'[x] => req'[r] = "cancelled"
    <2>1. CASE Finishes(r)
      BY <1>4, <2>1 DEF Finishes
    <2>2. CASE ReplyTimeout(r)
      <3>1. pending' = [pending EXCEPT ![s] = @ \ {r}]
        BY <2>2 DEF ReplyTimeout
      <3>2. pending'[s] = pending[s] \ {r} /\ \A x \in Sessions : x # s => pending'[x] = pending[x]
        BY <1>t, <1>2, <3>1 DEF TypeOK
      <3> HIDE DEF s
      <3>3. QED
        BY <1>4, <3>2
    <2>3. CASE CancelsSent(r)
      <3>1. req' = [req EXCEPT ![r] = "cancelled"] /\ pending' = pending
        BY <2>3 DEF CancelsSent
      <3>2. req'[r] = "cancelled"
        BY <1>t, <3>1 DEF TypeOK
      <3>3. QED
        BY <3>1, <3>2
    <2>4. QED
      BY <2>1, <2>2, <2>3
  <1>6. \A x \in Sessions : tid[x] <= tid'[x]
    BY <1>t, <1>1 DEF TypeOK, Tids
  <1>7. /\ send_lock'[s] = L
        /\ \A x \in Sessions : x # s => send_lock'[x] = send_lock[x]
        /\ \A q \in Reqs : q # r => rsess'[q] = rsess[q]
    BY <1>t, <1>1, <1>2 DEF TypeOK
  <1> HIDE DEF s, L
  <1>8. RequestSide'
    BY <1>t, <1>1, <1>2, <1>3, <1>5, <1>6, <1>7, Leaves
  <1>9. SessionSide'
    <2>1. \A x \in Sessions : handler[x] = "accepted" => send_lock'[x] = <<>>
      BY <1>t, <1>2, <1>7 DEF SessionSide, ObjectInv
    <2>2. QED
      BY <1>t, <1>1, <1>5, <2>1, TablesKept
  <1>10. QED
    BY <1>t, <1>8, <1>9 DEF SessionInv, SessionSide, RequestSide

\* A request that waits for the lock is cancelled and leaves the line.
LEMMA InvCancelsLocking ==
  ASSUME SessionInv, NEW r \in Reqs, CancelsLocking(r)
  PROVE  SessionInv'
  <1> DEFINE s == rsess[r]
             w == send_lock[s]
  <1>t. TypeOK' /\ TypeOK /\ SessionSide /\ RequestSide
    BY TypeRequest, Halves DEF Cancels, SessionInv
  <1>1. /\ req[r] = "locking"
        /\ req' = [req EXCEPT ![r] = "cancelled"]
        /\ rsess' = [rsess EXCEPT ![r] = NoSession]
        /\ UNCHANGED <<life, draining, heard, dongle, handler, link, pn, tid, inbox, wire,
                       pending, sessions, sessions_by_pn, ready_by_pn, any_ready, status,
                       rtid, got>>
    BY DEF CancelsLocking, mgrVars, mapVars
  <1>2. PICK i \in 1..Len(w) : /\ w[i] = r
                               /\ send_lock' = [send_lock EXCEPT ![s] = Without(w, i)]
    BY DEF CancelsLocking
  <1> DEFINE L == Without(w, i)
  <1>3. s \in Sessions
    BY <1>t, <1>1 DEF RequestSide, LockInv
  <1>4. w \in Seq(Reqs)
    BY <1>t, <1>3 DEF TypeOK
  <1>5. /\ \A j \in 1..Len(w) : j # i => \E k \in 1..Len(L) : L[k] = w[j]
        /\ i # 1 => L # <<>> /\ Head(L) = Head(w)
    BY <1>4, LeaveLine
  <1> HIDE DEF L
  <1>6. \A q \in Reqs : q # r /\ req[q] = "locking" /\ rsess[q] = s =>
          \E k \in 1..Len(L) : L[k] = q
    <2> SUFFICES ASSUME NEW q \in Reqs, q # r, req[q] = "locking", rsess[q] = s
                 PROVE  \E k \in 1..Len(L) : L[k] = q
      OBVIOUS
    <2>1. PICK j \in 1..Len(w) : w[j] = q
      BY <1>t DEF RequestSide, LockInv
    <2>2. QED
      BY <1>2, <1>5, <2>1
  <1>7. \A q \in Reqs : q # r /\ InFlight(q) /\ rsess[q] = s => L # <<>> /\ Head(L) = q
    <2> SUFFICES ASSUME NEW q \in Reqs, q # r, InFlight(q), rsess[q] = s
                 PROVE  L # <<>> /\ Head(L) = q
      OBVIOUS
    <2>1. w # <<>> /\ Head(w) = q
      BY <1>t DEF RequestSide, LockInv
    <2>2. i # 1
      BY <1>2, <1>4, <2>1
    <2>3. QED
      BY <1>5, <2>1, <2>2
  <1>8. handler[s] # "accepted"
    <2>1. w # <<>>
      BY <1>2, <1>4
    <2>2. QED
      BY <1>t, <1>3, <2>1 DEF SessionSide, ObjectInv
  <1>9. /\ send_lock'[s] = L
        /\ \A x \in Sessions : x # s => send_lock'[x] = send_lock[x]
        /\ req'[r] = "cancelled"
        /\ \A q \in Reqs : q # r => req'[q] = req[q] /\ rsess'[q] = rsess[q]
    BY <1>t, <1>1, <1>2, <1>3 DEF TypeOK, L
  <1>10. \A x \in Sessions : tid[x] <= tid'[x]
    BY <1>t, <1>1 DEF TypeOK, Tids
  <1> HIDE DEF s, w
  <1>11. RequestSide'
    BY <1>t, <1>1, <1>3, <1>6, <1>7, <1>9, <1>10, Leaves
  <1>12. SessionSide'
    <2>1. \A x \in Sessions : handler[x] = "accepted" => send_lock'[x] = <<>>
      BY <1>t, <1>8, <1>9 DEF SessionSide, ObjectInv
    <2>2. QED
      BY <1>t, <1>1, <2>1, TablesKept
  <1>13. QED
    BY <1>t, <1>11, <1>12 DEF SessionInv, SessionSide, RequestSide

\* A request is routed to a session that is being handled, of the dongle it is for.
LEMMA ResolvedFacts ==
  ASSUME SessionInv, NEW r \in Reqs, Resolved(r) # NoSession
  PROVE  /\ Resolved(r) \in Sessions
         /\ Handled(Resolved(r))
         /\ Target[r] # NoPN => dongle[Resolved(r)] = Target[r]
  <1> DEFINE s == Resolved(r)
  <1>1. s \in Sessions
    BY ResolvedType DEF SessionInv
  <1>2. CASE Target[r] # NoPN
    <2>1. Target[r] \in PNs /\ s = sessions_by_pn[Target[r]]
      BY <1>2, TargetAssumption DEF Resolved
    <2>2. pn[s] = Target[r] /\ Handled(s)
      BY <2>1 DEF SessionInv, MapInv, Connected
    <2> HIDE DEF s
    <2>3. pn[s] = dongle[s]
      BY <1>1, <1>2, <2>2 DEF SessionInv, ObjectInv
    <2>4. QED
      BY <1>1, <2>2, <2>3 DEF s
  <1>3. CASE Target[r] = NoPN
    <2>1. s \in sessions
      BY <1>3 DEF Resolved
    <2> HIDE DEF s
    <2>2. handler[s] \in {"free", "accepted", "reading", "ending"}
      BY <1>1 DEF SessionInv, TypeOK
    <2>3. Handled(s)
      BY <1>1, <2>1, <2>2 DEF SessionInv, ObjectInv, Handled
    <2>4. QED
      BY <1>1, <1>3, <2>3 DEF s
  <1>4. QED
    BY <1>2, <1>3

\* A request that has not been sent has no trace in any session.
LEMMA Unsent ==
  ASSUME SessionInv, NEW r \in Reqs, ~Started(r), NEW x \in Sessions
  PROVE  /\ ~Known(r, x) /\ r \notin pending[x] /\ r \notin wire[x]
         /\ \A i \in 1..Len(inbox[x]) : inbox[x][i].fc = "forward" => inbox[x][i].req # r
  <1>1. ~Known(r, x)
    BY DEF SessionInv, TidInv
  <1>2. QED
    BY <1>1 DEF Known

\* The holder r of the lock of s, whose line is then `line`, sends its frame or
\* finds the connection lost.
LEMMA Transmits ==
  ASSUME SessionInv, TypeOK', NEW r \in Reqs, NEW s \in Sessions, NEW line \in Seq(Reqs),
         Transmit(r, s, line), line # <<>>, Head(line) = r, ~Started(r),
         send_lock[s] = <<>> \/ send_lock[s] = line,
         send_lock[s] = <<>> => Tail(line) = <<>>,
         Writable(s) => Handled(s),
         Target[r] # NoPN => handler[s] = "free" \/ dongle[s] = Target[r],
         UNCHANGED <<life, draining, dongle, handler, link, pn, inbox, sessions,
                     sessions_by_pn, ready_by_pn, any_ready, status, got>>
  PROVE  SessionInv'
  <1>t. TypeOK /\ SessionSide /\ RequestSide
    BY Halves
  <1>1. tid[s] < FrameBound /\ tid' = [tid EXCEPT ![s] = next_tid(s)]
    BY DEF Transmit
  <1>2. next_tid(s) = tid[s] + 1
    BY <1>t, <1>1, NextTid DEF TypeOK
  <1>3. /\ tid'[s] = tid[s] + 1 /\ \A x \in Sessions : x # s => tid'[x] = tid[x]
        /\ \A x \in Sessions : tid[x] \in Int /\ tid'[x] \in Int /\ tid[x] <= tid'[x]
    <2>1. tid'[s] = tid[s] + 1 /\ \A x \in Sessions : x # s => tid'[x] = tid[x]
      BY <1>t, <1>1, <1>2 DEF TypeOK
    <2>2. \A x \in Sessions : tid[x] \in Int /\ tid'[x] \in Int
      BY <1>t DEF TypeOK, Tids
    <2>3. QED
      BY <2>1, <2>2
  <1>4. \A q \in Reqs : InFlight(q) => rsess[q] # s
    <2>1. ~InFlight(r)
      BY DEF Started, InFlight
    <2>2. \A q \in Reqs : InFlight(q) /\ rsess[q] = s => send_lock[s] # <<>> /\ Head(send_lock[s]) = q
      BY <1>t DEF RequestSide, LockInv
    <2>3. QED
      BY <2>1, <2>2
  <1>5. \A x \in Sessions : ~Known(r, x) /\ r \notin pending[x] /\ r \notin wire[x]
    BY Unsent
  <1>6. CASE ~Writable(s)
    <2>1. /\ req' = [req EXCEPT ![r] = "none"]
          /\ rsess' = [rsess EXCEPT ![r] = NoSession]
          /\ send_lock' = [send_lock EXCEPT ![s] = Tail(line)]
          /\ UNCHANGED <<rtid, pending, wire>>
      BY <1>6 DEF Transmit
    <2>2. /\ send_lock'[s] = Tail(line)
          /\ \A x \in Sessions : x # s => send_lock'[x] = send_lock[x]
          /\ req'[r] = "none"
          /\ \A q \in Reqs : q # r => req'[q] = req[q] /\ rsess'[q] = rsess[q]
      BY <1>t, <2>1 DEF TypeOK
    <2>3. \A q \in Reqs : q # r /\ req[q] = "locking" /\ rsess[q] = s =>
            \E k \in 1..Len(send_lock'[s]) : send_lock'[s][k] = q
      <3> SUFFICES ASSUME NEW q \in Reqs, q # r, req[q] = "locking", rsess[q] = s
                   PROVE  \E k \in 1..Len(send_lock'[s]) : send_lock'[s][k] = q
        OBVIOUS
      <3>1. PICK j \in 1..Len(send_lock[s]) : send_lock[s][j] = q
        BY <1>t DEF RequestSide, LockInv
      <3>2. send_lock[s] # <<>>
        BY <3>1
      <3>3. j \in 1..Len(line) /\ line[j] = q
        BY <3>1, <3>2
      <3>4. \E k \in 1..Len(Tail(line)) : Tail(line)[k] = q
        BY <3>3, HeadLeaves
      <3>5. QED
        BY <2>2, <3>4
    <2>4. RequestSide'
      BY <1>t, <1>3, <1>4, <1>5, <2>1, <2>2, <2>3, Leaves
    <2>5. SessionSide'
      <3>1. \A x \in Sessions : handler[x] = "accepted" => send_lock'[x] = <<>>
        BY <1>t, <2>2 DEF SessionSide, ObjectInv
      <3>2. QED
        BY <1>t, <2>1, <3>1, TablesKept
    <2>6. QED
      BY <2>4, <2>5 DEF SessionInv, SessionSide, RequestSide
  <1>7. CASE Writable(s)
    <2>1. /\ req' = [req EXCEPT ![r] = "sent"]
          /\ rsess' = [rsess EXCEPT ![r] = s]
          /\ rtid' = [rtid EXCEPT ![r] = next_tid(s)]
          /\ pending' = [pending EXCEPT ![s] = @ \cup {r}]
          /\ wire' = [wire EXCEPT ![s] = IF link[s] = "up" THEN @ \cup {r} ELSE @]
          /\ send_lock' = [send_lock EXCEPT ![s] = line]
      BY <1>7 DEF Transmit
    <2>2. /\ req'[r] = "sent" /\ rsess'[r] = s /\ rtid'[r] = tid'[s]
          /\ \A q \in Reqs : q # r => /\ req'[q] = req[q] /\ rsess'[q] = rsess[q]
                                      /\ rtid'[q] = rtid[q]
      BY <1>t, <1>2, <1>3, <2>1 DEF TypeOK
    <2>3. /\ send_lock'[s] = line
          /\ \A x \in Sessions : x # s => send_lock'[x] = send_lock[x]
      BY <1>t, <2>1 DEF TypeOK
    <2>4. /\ pending'[s] = pending[s] \cup {r}
          /\ wire'[s] \subseteq wire[s] \cup {r}
          /\ \A x \in Sessions : x # s => pending'[x] = pending[x] /\ wire'[x] = wire[x]
      BY <1>t, <2>1 DEF TypeOK
    <2>5. SessionSide'
      <3>1. \A x \in Sessions : handler[x] = "accepted" => send_lock'[x] = <<>>
        BY <1>t, <1>7, <2>3 DEF SessionSide, ObjectInv, Handled
      <3>2. QED
        BY <1>t, <1>7, <2>4, <3>1, TablesKept
    <2>6. LockInv'
      <3> SUFFICES ASSUME NEW q \in Reqs
                   PROVE
          /\ req'[q] = "locking" => /\ rsess'[q] \in Sessions
                                    /\ \E i \in 1..Len(send_lock'[rsess'[q]]) :
                                          send_lock'[rsess'[q]][i] = q
          /\ InFlight(q)' => /\ rsess'[q] \in Sessions
                             /\ send_lock'[rsess'[q]] # <<>> /\ Head(send_lock'[rsess'[q]]) = q
          /\ req'[q] \in {"locking", "sent"} /\ Target[q] # NoPN =>
               handler'[rsess'[q]] = "free" \/ dongle'[rsess'[q]] = Target[q]
        BY DEF LockInv
      <3>1. CASE q = r
        BY <2>2, <2>3, <3>1
      <3>2. CASE q # r
        <4>1. req'[q] = req[q] /\ rsess'[q] = rsess[q] /\ (InFlight(q)' <=> InFlight(q))
          BY <2>2, <3>2 DEF InFlight
        <4>2. ASSUME req[q] = "locking"
              PROVE  /\ rsess[q] \in Sessions
                     /\ \E i \in 1..Len(send_lock'[rsess[q]]) : send_lock'[rsess[q]][i] = q
          <5>1. rsess[q] \in Sessions
            BY <1>t, <4>2 DEF RequestSide, LockInv
          <5>2. PICK i \in 1..Len(send_lock[rsess[q]]) : send_lock[rsess[q]][i] = q
            BY <1>t, <4>2 DEF RequestSide, LockInv
          <5>3. send_lock'[rsess[q]] = send_lock[rsess[q]]
            <6>1. send_lock[rsess[q]] # <<>>
              BY <5>2
            <6>2. QED
              BY <2>3, <5>1, <6>1
          <5>4. QED
            BY <5>1, <5>2, <5>3
        <4>3. InFlight(q) => send_lock'[rsess[q]] = send_lock[rsess[q]]
          BY <1>t, <1>4, <2>3 DEF RequestSide, LockInv
        <4>4. QED
          BY <1>t, <4>1, <4>2, <4>3 DEF RequestSide, LockInv
      <3>3. QED
        BY <3>1, <3>2
    <2>7. TidInv'
      <3>1. \A q \in Reqs, x \in Sessions : Known(q, x)' => Known(q, x) \/ (q = r /\ x = s)
        BY <2>4 DEF Known
      <3>2. \A q \in Reqs, x \in Sessions : Known(q, x) => q # r /\ Started(q) /\ rtid[q] <= tid[x]
        BY <1>t, <1>5 DEF RequestSide, TidInv
      <3>3. \A q \in Reqs : rtid[q] \in Int /\ rtid'[q] \in Int
        BY <1>t DEF TypeOK, Tids
      <3>4. \A q \in Reqs : Started(q) /\ q # r => Started(q)'
        BY <2>2 DEF Started
      <3>5. Started(r)'
        BY <2>2 DEF Started
      <3>6. ASSUME NEW x \in Sessions, NEW q \in pending'[x]
            PROVE  req'[q] = "cancelled" \/ (req'[q] = "sent" /\ rsess'[q] = x)
        <4>1. q \in Reqs
          BY DEF TypeOK
        <4>2. CASE q = r
          BY <1>5, <2>2, <2>4, <4>2
        <4>3. CASE q # r
          BY <1>t, <2>2, <2>4, <3>6, <4>1, <4>3 DEF RequestSide, TidInv
        <4>4. QED
          BY <4>2, <4>3
      <3>7. ASSUME NEW x \in Sessions, NEW q \in Reqs, Known(q, x)'
            PROVE  Started(q)' /\ rtid'[q] <= tid'[x]
        <4>1. CASE q = r
          BY <1>3, <2>2, <3>1, <3>2, <3>5, <3>7, <4>1
        <4>2. CASE q # r
          <5>1. Started(q) /\ rtid[q] <= tid[x] /\ rtid'[q] = rtid[q]
            BY <2>2, <3>1, <3>2, <3>7, <4>2
          <5>2. QED
            BY <1>3, <3>3, <3>4, <4>2, <5>1
        <4>3. QED
          BY <4>1, <4>2
      <3>8. ASSUME NEW x \in Sessions, NEW q \in Reqs, q # r, Known(q, x)', Known(r, x)'
            PROVE  rtid'[q] # rtid'[r]
        <4>1. x = s
          BY <3>1, <3>2, <3>8
        <4>2. rtid[q] <= tid[s] /\ rtid'[q] = rtid[q]
          BY <2>2, <3>1, <3>2, <3>8, <4>1
        <4>3. QED
          BY <1>3, <2>2, <3>3, <4>2
      <3>9. ASSUME NEW x \in Sessions, NEW q \in Reqs, NEW u \in Reqs, Known(q, x)', Known(u, x)',
                   rtid'[q] = rtid'[u]
            PROVE  q = u
        <4>1. CASE q # r /\ u # r
          <5>1. Known(q, x) /\ Known(u, x) /\ rtid[q] = rtid[u]
            BY <2>2, <3>1, <3>9, <4>1
          <5>2. QED
            BY <1>t, <5>1 DEF RequestSide, TidInv
        <4>2. CASE q = r \/ u = r
          BY <3>8, <3>9, <4>2
        <4>3. QED
          BY <4>1, <4>2
      <3>10. ASSUME NEW x \in Sessions, NEW i \in 1..Len(inbox'[x]), inbox'[x][i].fc = "forward"
             PROVE  inbox'[x][i].tid = rtid'[inbox'[x][i].req]
        <4>1. inbox[x][i].tid = rtid[inbox[x][i].req] /\ inbox[x][i].req # r
          BY <1>t, <3>10, Unsent DEF RequestSide, TidInv
        <4>2. inbox[x][i].req \in Reqs
          <5>1. inbox[x] \in Seq(Frames)
            BY <1>t DEF TypeOK
          <5>2. inbox[x][i] \in Frames
            BY <5>1
          <5>3. QED
            BY <3>10, <5>2 DEF Frames
        <4>3. QED
          BY <2>2, <4>1, <4>2
      <3>11. QED
        BY <3>6, <3>7, <3>9, <3>10 DEF TidInv
    <2>8. InFlightIsWatched'
      <3> SUFFICES ASSUME NEW q \in Reqs, req'[q] = "sent"
                   PROVE  q \in pending'[rsess'[q]] /\ handler'[rsess'[q]] \in {"reading", "ending"}
        BY DEF InFlightIsWatched
      <3>1. CASE q = r
        BY <1>7, <2>2, <2>4, <3>1 DEF Handled
      <3>2. CASE q # r
        <4>1. req[q] = "sent" /\ rsess'[q] = rsess[q]
          BY <2>2, <3>2
        <4>2. rsess[q] \in Sessions /\ rsess[q] # s
          BY <1>t, <1>4, <4>1 DEF RequestSide, LockInv, InFlight
        <4>3. QED
          BY <1>t, <2>4, <4>1, <4>2 DEF RequestSide, InFlightIsWatched
      <3>3. QED
        BY <3>1, <3>2
    <2>9. AnswersAreGenuine'
      BY <1>t, <2>2 DEF RequestSide, AnswersAreGenuine
    <2>10. QED
      BY <2>5, <2>6, <2>7, <2>8, <2>9 DEF SessionInv, SessionSide
  <1>8. QED
    BY <1>6, <1>7

\* A request joins the line behind those that wait for the lock already.
LEMMA Queues ==
  ASSUME SessionInv, TypeOK', NEW r \in Reqs, NEW s \in Sessions,
         req[r] \in {"idle", "woken"}, send_lock[s] # <<>>,
         send_lock' = [send_lock EXCEPT ![s] = Append(@, r)],
         req' = [req EXCEPT ![r] = "locking"],
         rsess' = [rsess EXCEPT ![r] = s],
         Handled(s), Target[r] # NoPN => dongle[s] = Target[r],
         UNCHANGED <<life, draining, dongle, handler, link, pn, tid, inbox, wire, pending,
                     sessions, sessions_by_pn, ready_by_pn, any_ready, status, rtid, got>>
  PROVE  SessionInv'
  <1>t. TypeOK /\ SessionSide /\ RequestSide
    BY Halves
  <1>1. /\ req'[r] = "locking" /\ rsess'[r] = s
        /\ \A q \in Reqs : q # r => req'[q] = req[q] /\ rsess'[q] = rsess[q]
        /\ send_lock'[s] = Append(send_lock[s], r)
        /\ \A x \in Sessions : x # s => send_lock'[x] = send_lock[x]
    BY <1>t DEF TypeOK
  <1>2. /\ \A i \in 1..Len(send_lock[s]) : /\ i \in 1..Len(send_lock'[s])
                                           /\ send_lock'[s][i] = send_lock[s][i]
        /\ \E i \in 1..Len(send_lock'[s]) : send_lock'[s][i] = r
        /\ send_lock'[s] # <<>> /\ Head(send_lock'[s]) = Head(send_lock[s])
    <2> DEFINE w == send_lock[s]
    <2>1. w \in Seq(Reqs) /\ w # <<>>
      BY <1>t DEF TypeOK
    <2> HIDE DEF w
    <2>2. /\ \A i \in 1..Len(w) : i \in 1..Len(Append(w, r)) /\ Append(w, r)[i] = w[i]
          /\ Len(w) + 1 \in 1..Len(Append(w, r)) /\ Append(w, r)[Len(w) + 1] = r
          /\ Append(w, r) # <<>> /\ Head(Append(w, r)) = Head(w)
      BY <2>1
    <2>3. send_lock'[s] = Append(w, r)
      BY <1>1 DEF w
    <2>4. QED
      BY <2>2, <2>3 DEF w
  <1>3. SessionSide'
    <2>1. \A x \in Sessions : handler[x] = "accepted" => send_lock'[x] = <<>>
      BY <1>t, <1>1 DEF SessionSide, ObjectInv, Handled
    <2>2. QED
      BY <1>t, <2>1, TablesKept
  <1>4. LockInv'
    <2> SUFFICES ASSUME NEW q \in Reqs
                 PROVE
        /\ req'[q] = "locking" => /\ rsess'[q] \in Sessions
                                  /\ \E i \in 1..Len(send_lock'[rsess'[q]]) :
                                        send_lock'[rsess'[q]][i] = q
        /\ InFlight(q)' => /\ rsess'[q] \in Sessions
                           /\ send_lock'[rsess'[q]] # <<>> /\ Head(send_lock'[rsess'[q]]) = q
        /\ req'[q] \in {"locking", "sent"} /\ Target[q] # NoPN =>
             handler'[rsess'[q]] = "free" \/ dongle'[rsess'[q]] = Target[q]
      BY DEF LockInv
    <2>1. CASE q = r
      BY <1>1, <1>2, <2>1 DEF InFlight
    <2>2. CASE q # r
      <3>1. req'[q] = req[q] /\ rsess'[q] = rsess[q] /\ (InFlight(q)' <=> InFlight(q))
        BY <1>1, <2>2 DEF InFlight
      <3>2. CASE rsess[q] = s
        BY <1>t, <1>2, <3>1, <3>2 DEF RequestSide, LockInv
      <3>3. CASE rsess[q] # s
        BY <1>t, <1>1, <3>1, <3>3 DEF RequestSide, LockInv
      <3>4. QED
        BY <3>2, <3>3
    <2>3. QED
      BY <2>1, <2>2
  <1>5. TidInv'
    <2>1. \A q \in Reqs, x \in Sessions : Known(q, x)' <=> Known(q, x)
      BY DEF Known
    <2>2. ~Started(r)
      BY DEF Started
    <2>3. \A q \in Reqs : Started(q) => Started(q)'
      BY <1>1, <2>2 DEF Started
    <2>4. \A x \in Sessions : \A q \in pending'[x] : q \in Reqs /\ q # r
      BY <1>t, <2>2, Unsent DEF TypeOK
    <2>5. \A x \in Sessions : \A q \in pending'[x] :
            req'[q] = "cancelled" \/ (req'[q] = "sent" /\ rsess'[q] = x)
      BY <1>t, <1>1, <2>4 DEF RequestSide, TidInv
    <2>6. QED
      BY <1>t, <2>1, <2>3, <2>5 DEF RequestSide, TidInv
  <1>6. InFlightIsWatched' /\ AnswersAreGenuine'
    BY <1>t, <1>1 DEF RequestSide, InFlightIsWatched, AnswersAreGenuine
  <1>7. QED
    BY <1>3, <1>4, <1>5, <1>6 DEF SessionInv, SessionSide

\* A request goes on with the session it is routed to.
LEMMA InvProceeds ==
  ASSUME SessionInv, TypeOK', NEW r \in Reqs, req[r] \in {"idle", "woken"}, Proceeds(r),
         UNCHANGED <<life, draining, dongle, handler, link, pn, inbox, sessions,
                     sessions_by_pn, ready_by_pn, any_ready, status, got>>
  PROVE  SessionInv'
  <1>1. CASE Resolved(r) = NoSession
    <2>1. /\ req' = [req EXCEPT ![r] = "none"]
          /\ UNCHANGED <<tid, rsess, rtid, pending, wire, send_lock>>
      BY <1>1 DEF Proceeds, Dropped
    <2>2. req[r] \in Quiet /\ "none" \in Quiet \cup {"none", "cancelled"}
      BY DEF Quiet
    <2>3. QED
      BY <2>1, <2>2, QuietStep
  <1>2. CASE Resolved(r) # NoSession
    <2> DEFINE s == Resolved(r)
    <2>1. /\ s \in Sessions /\ Handled(s)
          /\ Target[r] # NoPN => dongle[s] = Target[r]
      BY <1>2, ResolvedFacts
    <2>2. Joins(r, s)
      BY <1>2 DEF Proceeds
    <2> HIDE DEF s
    <2>3. CASE send_lock[s] = <<>>
      <3> DEFINE line == <<r>>
      <3>1. Transmit(r, s, line)
        BY <2>2, <2>3 DEF Joins
      <3>2. line \in Seq(Reqs) /\ line # <<>> /\ Head(line) = r /\ Tail(line) = <<>>
        OBVIOUS
      <3>3. ~Started(r)
        BY DEF Started
      <3> HIDE DEF line
      <3>4. QED
        BY <2>1, <2>3, <3>1, <3>2, <3>3, Transmits
    <2>4. CASE send_lock[s] # <<>>
      <3>1. /\ send_lock' = [send_lock EXCEPT ![s] = Append(@, r)]
            /\ req' = [req EXCEPT ![r] = "locking"]
            /\ rsess' = [rsess EXCEPT ![r] = s]
            /\ UNCHANGED <<tid, rtid, pending, wire>>
        BY <2>2, <2>4 DEF Joins
      <3>2. QED
        BY <2>1, <2>4, <3>1, Queues
    <2>5. QED
      BY <2>3, <2>4
  <1>3. QED
    BY <1>1, <1>2

LEMMA InvGetsLock ==
  ASSUME SessionInv, NEW r \in Reqs, GetsLock(r)
  PROVE  SessionInv'
  <1> DEFINE s == rsess[r]
             line == send_lock[s]
  <1>t. TypeOK' /\ TypeOK /\ SessionSide /\ RequestSide
    BY TypeRequest, Halves DEF Proceed, SessionInv
  <1>1. /\ req[r] = "locking" /\ line # <<>> /\ Head(line) = r
        /\ Transmit(r, s, line)
        /\ UNCHANGED <<life, draining, dongle, handler, link, pn, inbox, sessions,
                       sessions_by_pn, ready_by_pn, any_ready, status, got>>
    BY DEF GetsLock, mgrVars, mapVars
  <1>2. s \in Sessions
    BY <1>t, <1>1 DEF RequestSide, LockInv
  <1>3. line \in Seq(Reqs)
    BY <1>t, <1>2 DEF TypeOK
  <1>4. Target[r] # NoPN => handler[s] = "free" \/ dongle[s] = Target[r]
    BY <1>t, <1>1 DEF RequestSide, LockInv
  <1>5. Writable(s) => Handled(s)
    <2>1. handler[s] \in {"free", "accepted", "reading", "ending"}
      BY <1>t, <1>2 DEF TypeOK
    <2>2. QED
      BY <1>t, <1>1, <1>2, <2>1 DEF SessionSide, ObjectInv, Writable, Handled
  <1>6. ~Started(r)
    BY <1>1 DEF Started
  <1> HIDE DEF s
  <1>7. QED
    BY <1>t, <1>1, <1>2, <1>3, <1>4, <1>5, <1>6, Transmits

LEMMA InvRequest ==
  ASSUME SessionInv, NEW r \in Reqs, Begin(r) \/ Proceed(r) \/ Expire(r) \/ Cancels(r)
  PROVE  SessionInv'
  <1>t. TypeOK'
    BY TypeRequest DEF SessionInv
  <1>1. CASE Begin(r)
    <2>1. /\ req[r] = "idle"
          /\ UNCHANGED <<life, draining, dongle, handler, link, pn, inbox, sessions,
                         sessions_by_pn, ready_by_pn, any_ready, status, got>>
      BY <1>1 DEF Begin, mgrVars, mapVars
    <2>2. CASE ~MustWait(r)
      BY <1>t, <1>1, <2>1, <2>2, InvProceeds DEF Begin
    <2>3. CASE MustWait(r)
      <3>1. /\ req' = [req EXCEPT ![r] = "waiting"]
            /\ UNCHANGED <<tid, rsess, rtid, pending, wire, send_lock>>
        BY <1>1, <2>3 DEF Begin
      <3>2. req[r] \in Quiet /\ "waiting" \in Quiet \cup {"none", "cancelled"}
        BY <2>1 DEF Quiet
      <3>3. QED
        BY <1>t, <2>1, <3>1, <3>2, QuietStep
    <2>4. QED
      BY <2>2, <2>3
  <1>2. CASE Wakes(r)
    <2>1. /\ req[r] = "woken" /\ Proceeds(r)
          /\ UNCHANGED <<life, draining, dongle, handler, link, pn, inbox, sessions,
                         sessions_by_pn, ready_by_pn, any_ready, status, got>>
      BY <1>2 DEF Wakes, mgrVars, mapVars
    <2>2. QED
      BY <1>t, <2>1, InvProceeds
  <1>3. CASE WaitTimeout(r) \/ CancelsWaiting(r)
    <2> DEFINE v == IF WaitTimeout(r) THEN "none" ELSE "cancelled"
    <2>1. /\ req[r] \in Quiet /\ v \in Quiet \cup {"none", "cancelled"}
          /\ req' = [req EXCEPT ![r] = v]
          /\ UNCHANGED <<life, draining, dongle, handler, link, pn, tid, inbox, wire, pending,
                         send_lock, sessions, sessions_by_pn, ready_by_pn, any_ready, status,
                         rsess, rtid, got>>
      BY <1>3 DEF WaitTimeout, CancelsWaiting, mgrVars, sessVars, mapVars, Quiet
    <2> HIDE DEF v
    <2>2. QED
      BY <1>t, <2>1, QuietStep
  <1>4. QED
    BY <1>1, <1>2, <1>3, InvGetsLock, InvReleases, InvCancelsLocking DEF Proceed, Expire, Cancels

-----------------------------------------------------------------------------
(* The theorems.                                                            *)

LEMMA InvStep == SessionInv /\ [Next]_vars => SessionInv'
  <1> SUFFICES ASSUME SessionInv, [Next]_vars PROVE SessionInv'
    OBVIOUS
  <1>1. CASE Next
    BY <1>1, InvAnnouncer, InvDongle, InvHandler, InvKeepalive, InvRequest, InvShutdown DEF Next
  <1>2. CASE UNCHANGED vars
    <2>1. UNCHANGED sideVars /\ UNCHANGED requestVars /\ link' = link
      BY <1>2 DEF vars, sideVars, requestVars
    <2>2. SessionSide' /\ RequestSide'
      BY <2>1, Halves, SameSessions, SameRequests
    <2>3. TypeOK'
      BY <1>2, Halves DEF TypeOK, vars
    <2>4. QED
      BY <2>2, <2>3 DEF SessionInv, SessionSide, RequestSide
  <1>3. QED
    BY <1>1, <1>2

\* The inductive invariant of the manager: session objects, the routing tables, the
\* lines for the send locks and the transaction ids agree after every step of
\* _handle_session, _heartbeat_loop, send_frame, the announcer and shutdown.
THEOREM SessionInvariant == Spec => []SessionInv
  <1>1. Init => SessionInv
    BY InvInit
  <1>2. SessionInv /\ [Next]_vars => SessionInv'
    BY InvStep
  <1>3. QED
    BY <1>1, <1>2, PTL DEF Spec

\* _sessions, _sessions_by_pn, the ready events and _any_ready agree while the
\* manager serves, after any sequence of connects, reconnects and drops.
THEOREM RoutingTablesAgree == Spec => []RoutingTables
  <1>1. SessionInv => RoutingTables
    BY DEF SessionInv
  <1>2. QED
    BY <1>1, SessionInvariant, PTL

\* _drop_session of a stale session leaves the mapping of the PN to the session
\* that took it over: an identified session stays the one requests are routed to.
THEOREM IdentifiedStaysRouted == Spec => []IdentifiedIsRouted
  <1>1. SessionInv => IdentifiedIsRouted
    BY DEF SessionInv
  <1>2. QED
    BY <1>1, SessionInvariant, PTL

\* The connection status in the registry follows the sessions, whichever session
\* of a dongle ends first.
THEOREM StatusStaysHonest == Spec => []StatusIsHonest
  <1>1. SessionInv => StatusIsHonest
    BY DEF SessionInv
  <1>2. QED
    BY <1>1, SessionInvariant, PTL

\* send_frame returns the reply to its own frame, from the dongle it was meant for.
THEOREM AnswersStayGenuine == Spec => []AnswersAreGenuine
  <1>1. SessionInv => AnswersAreGenuine
    BY DEF SessionInv
  <1>2. QED
    BY <1>1, SessionInvariant, PTL

\* A future that send_frame awaits is registered in a session whose end fails it.
THEOREM InFlightStaysWatched == Spec => []InFlightIsWatched
  <1>1. SessionInv => InFlightIsWatched
    BY DEF SessionInv
  <1>2. QED
    BY <1>1, SessionInvariant, PTL

\* send_lock excludes: two requests of one session are never in flight together.
THEOREM OneForwardAtATime == Spec => []OneForwardPerSession
  <1>1. SessionInv => OneForwardPerSession
    BY HoldsLock DEF OneForwardPerSession
  <1>2. QED
    BY <1>1, SessionInvariant, PTL

\* The request whose future _drop_session fails belongs to the session it closes.
LEMMA LostWithItsSession ==
  ASSUME SessionInv, NEW d \in Sessions, NEW r \in Reqs, r \in pending[d], req[r] = "sent",
         link' = [link EXCEPT ![d] = "closed"]
  PROVE  link'[rsess[r]] # "up"
  <1>1. rsess[r] = d
    BY DEF SessionInv, TidInv
  <1>2. link'[d] = "closed"
    BY DEF SessionInv, TypeOK
  <1>3. QED
    BY <1>1, <1>2

\* The loss of one dongle's connection, its reconnect and shutdown fail the
\* requests of that connection and no others.
THEOREM LossStaysLocal == Spec => NoCollateralLoss
  <1> DEFINE Local == \A r \in Reqs : req[r] = "sent" /\ req'[r] = "lost" =>
                        link[rsess[r]] # "up" \/ link'[rsess[r]] # "up"
  <1>1. SessionInv /\ [Next]_vars => [Local]_vars
    <2> SUFFICES ASSUME SessionInv, Next, NEW r \in Reqs, req[r] = "sent", req'[r] = "lost"
                 PROVE  link'[rsess[r]] # "up"
      OBVIOUS
    <2>t. TypeOK
      BY DEF SessionInv
    <2>1. CASE Announcer
      BY <2>1 DEF Announcer, Announce, ForcedAnnounce, Broadcast, reqVars
    <2>2. ASSUME NEW s \in Sessions, Dongle(s)
          PROVE  FALSE
      BY <2>2 DEF Dongle, Accept, DongleHeartbeat, DongleReplies, DongleVanishes, DongleCloses,
                  LinkFails, reqVars
    <2>3. ASSUME NEW s \in Sessions, Handler(s)
          PROVE  link'[rsess[r]] # "up"
      <3>1. CASE HandlerStarts(s)
        BY <3>1 DEF HandlerStarts, WakeFor
      <3>2. CASE Identifies(s)
        <4> DEFINE p == Head(inbox[s]).pn
                   old == sessions_by_pn[p]
        <4>1. old # NoSession /\ link' = [link EXCEPT ![old] = "closed"]
              /\ req'[r] = IF LostWith(old)[r] = "lost" THEN "lost" ELSE WakeFor(p)[r]
          BY <3>2 DEF Identifies, WakeFor
        <4>2. r \in pending[old]
          BY <4>1 DEF WakeFor, LostWith
        <4>3. old \in Sessions
          <5>1. inbox[s] # <<>> /\ Head(inbox[s]).fc = "heartbeat" /\ p # NoPN
            BY <3>2 DEF Identifies, Reads
          <5>2. p \in PNs
            BY <2>t, <5>1, HeadFrame DEF TypeOK
          <5>3. QED
            BY <2>t, <4>1, <5>2 DEF TypeOK
        <4> HIDE DEF old
        <4>4. QED
          BY <4>1, <4>2, <4>3, LostWithItsSession
      <3>3. CASE HeartbeatAgain(s) \/ HandlerStops(s)
        BY <3>3 DEF HeartbeatAgain, HandlerStops, reqVars
      <3>4. CASE ReadsReply(s)
        BY <3>4 DEF ReadsReply
      <3>5. CASE SessionEnds(s)
        BY <3>5, DropLoses, LostWithItsSession DEF SessionEnds
      <3>6. QED
        BY <2>3, <3>1, <3>2, <3>3, <3>4, <3>5 DEF Handler
    <2>4. ASSUME NEW s \in Sessions, Keepalive(s)
          PROVE  FALSE
      BY <2>4 DEF Keepalive, SendsHeartbeat, HeartbeatFails, reqVars
    <2>5. ASSUME NEW q \in Reqs, Begin(q) \/ Proceed(q) \/ Expire(q) \/ Cancels(q)
          PROVE  FALSE
      <3>1. req \in [Reqs -> ReqStates]
        BY <2>t DEF TypeOK
      <3>2. \E v \in ReqStates \ {"lost"} : req' = [req EXCEPT ![q] = v]
        <4>1. CASE \E line : \E s \in Sessions \cup {NoSession} : Transmit(q, s, line)
          BY <4>1 DEF Transmit, ReqStates
        <4>2. CASE Proceeds(q)
          <5>1. CASE Resolved(q) = NoSession
            BY <4>2, <5>1 DEF Proceeds, Dropped, ReqStates
          <5>2. CASE Resolved(q) # NoSession
            <6>1. Joins(q, Resolved(q)) /\ Resolved(q) \in Sessions
              BY <4>2, <5>2, ResolvedFacts DEF Proceeds
            <6>2. QED
              BY <4>1, <6>1 DEF Joins, ReqStates
          <5>3. QED
            BY <5>1, <5>2
        <4>3. CASE Begin(q)
          BY <4>2, <4>3 DEF Begin, ReqStates
        <4>4. CASE Proceed(q)
          <5>1. CASE Wakes(q)
            BY <4>2, <5>1 DEF Wakes
          <5>2. CASE GetsLock(q)
            BY <2>t, <4>1, <5>2 DEF GetsLock, TypeOK
          <5>3. CASE Finishes(q)
            BY <3>1, <5>3 DEF Finishes, ReqStates
          <5>4. QED
            BY <4>4, <5>1, <5>2, <5>3 DEF Proceed
        <4>5. CASE Expire(q) \/ Cancels(q)
          BY <4>5 DEF Expire, WaitTimeout, ReplyTimeout, Cancels, CancelsSent, CancelsLocking,
                      CancelsWaiting, ReqStates
        <4>6. QED
          BY <2>5, <4>3, <4>4, <4>5
      <3>3. QED
        BY <3>1, <3>2
    <2>6. CASE Shutdown
      <3>1. CASE ShutdownBegins \/ ShutdownEnds
        BY <3>1 DEF ShutdownBegins, ShutdownEnds, reqVars
      <3>2. CASE ShutdownIdle
        BY <3>2 DEF ShutdownIdle, ShutdownClears
      <3>3. ASSUME NEW s \in Sessions, ShutdownDrops(s) \/ ShutdownDropsLast(s)
            PROVE  link'[rsess[r]] # "up"
        <4>1. LostWith(s)[r] = "lost" /\ link' = [link EXCEPT ![s] = "closed"]
          BY <3>3 DEF ShutdownDrops, ShutdownDropsLast, ShutdownClears
        <4>2. QED
          BY <4>1, DropLoses, LostWithItsSession
      <3>4. QED
        BY <2>6, <3>1, <3>2, <3>3 DEF Shutdown
    <2>7. QED
      BY <2>1, <2>2, <2>3, <2>4, <2>5, <2>6 DEF Next
  <1>2. QED
    BY <1>1, SessionInvariant, PTL DEF Spec, NoCollateralLoss

-----------------------------------------------------------------------------
=============================================================================
