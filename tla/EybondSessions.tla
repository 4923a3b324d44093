--------------------------- MODULE EybondSessions ---------------------------
(***************************************************************************)
(* EybondManager of api/protocols/eybond_dongle.py once its listener runs:  *)
(* the sessions of the dongles that connect to it, the routing of requests  *)
(* to them (send_frame), the announcer that makes dongles connect, the      *)
(* connection status kept in EybondRegistry, and shutdown.                  *)
(*                                                                          *)
(* Everything runs on one event loop: a step is a stretch of code between   *)
(* two suspension points.  The dongles and the network are the environment: *)
(* a dongle connects when it hears an announcement, closes when it likes,   *)
(* sends heartbeats, and answers requests late, out of order or not at all. *)
(***************************************************************************)
EXTENDS Integers, Sequences, FiniteSets

CONSTANTS
  PNs,        \* dongles, by part number
  Sessions,   \* identities of _Session objects, reused once nothing refers to one
  Reqs,       \* invocations of send_frame, each made at most once
  Target,     \* Target[r]: the pn argument (NoPN: legacy request without a PN)
  Enabled,    \* registry.enabled_pns()
  Blank,      \* dongles whose heartbeats may lack the PN
  NoPN, NoSession, NoReq,
  TidSpace,        \* number of transaction ids: 2^16
  HeartbeatBound,  \* bound: keepalives sent in one session
  FrameBound,      \* bound: frames sent in one session, below the wrap of the TID
  InboxBound       \* bound: frames received and not yet read in one session

ASSUME NoneAssumption == NoPN \notin PNs /\ NoSession \notin Sessions /\ NoReq \notin Reqs
ASSUME TargetAssumption == Target \in [Reqs -> PNs \cup {NoPN}] /\ Enabled \subseteq PNs
ASSUME BoundAssumption == /\ TidSpace \in Nat \ {0}
                          /\ FrameBound \in 1..(TidSpace - 1)
                          /\ HeartbeatBound \in Nat
                          /\ InboxBound \in Nat

VARIABLES
  life,             \* the manager: serving, or a stage of shutdown
  draining,         \* sessions that shutdown's loop has not reached
  heard,            \* dongles that heard set>server and have not reacted yet
  dongle,           \* the dongle at the other end of the session
  handler,          \* where the session's _handle_session task stands
  link,             \* the session's TCP connection
  pn,               \* _Session.pn
  tid,              \* _Session._tid
  inbox,            \* frames received in the session and not read yet
  wire,             \* requests the dongle has received and not answered
  pending,          \* _Session.pending: requests whose future it holds
  send_lock,        \* the line for _Session.send_lock; the head holds it
  sessions,         \* _sessions
  sessions_by_pn,   \* _sessions_by_pn (NoSession: absent)
  ready_by_pn,      \* PNs whose _ready_by_pn event is set
  any_ready,        \* _any_ready
  status,           \* registry: connection status of a PN ("unknown": no record)
  req,              \* where the send_frame task stands
  rsess, rtid,      \* the session and the TID a request was sent with
  got               \* the payload send_frame received: which dongle answered what

mgrVars  == <<life, draining, heard>>
sessVars == <<dongle, handler, link, pn, tid, inbox, wire, pending, send_lock>>
mapVars  == <<sessions, sessions_by_pn, ready_by_pn, any_ready, status>>
reqVars  == <<req, rsess, rtid, got>>
vars == <<life, draining, heard, dongle, handler, link, pn, tid, inbox,
          wire, pending, send_lock, sessions, sessions_by_pn, ready_by_pn,
          any_ready, status, req, rsess, rtid, got>>

Tids == 0..(TidSpace - 1)
Frames == [fc : {"heartbeat"}, pn : PNs \cup {NoPN}]
            \cup [fc : {"forward"}, tid : Tids, req : Reqs]
ReqStates == {"idle", "waiting", "deaf", "woken", "locking", "sent", "replied",
              "lost", "answered", "none", "cancelled"}

TypeOK ==
  /\ life \in {"up", "draining", "closing", "down"}
  /\ draining \in SUBSET Sessions
  /\ heard \in SUBSET PNs
  /\ dongle \in [Sessions -> PNs \cup {NoPN}]
  /\ handler \in [Sessions -> {"free", "accepted", "reading", "ending"}]
  /\ link \in [Sessions -> {"up", "stale", "eof", "reset", "closed"}]
  /\ pn \in [Sessions -> PNs \cup {NoPN}]
  /\ tid \in [Sessions -> Tids]
  /\ inbox \in [Sessions -> Seq(Frames)]
  /\ wire \in [Sessions -> SUBSET Reqs]
  /\ pending \in [Sessions -> SUBSET Reqs]
  /\ send_lock \in [Sessions -> Seq(Reqs)]
  /\ sessions \in SUBSET Sessions
  /\ sessions_by_pn \in [PNs -> Sessions \cup {NoSession}]
  /\ ready_by_pn \in SUBSET PNs
  /\ any_ready \in BOOLEAN
  /\ status \in [PNs -> {"unknown", "connected", "disconnected"}]
  /\ req \in [Reqs -> ReqStates]
  /\ rsess \in [Reqs -> Sessions \cup {NoSession}]
  /\ rtid \in [Reqs -> Tids]
  /\ got \in [Reqs -> [from : PNs \cup {NoPN}, req : Reqs \cup {NoReq}]]

Init ==
  /\ life = "up" /\ draining = {} /\ heard = {}
  /\ dongle = [s \in Sessions |-> NoPN]
  /\ handler = [s \in Sessions |-> "free"]
  /\ link = [s \in Sessions |-> "closed"]
  /\ pn = [s \in Sessions |-> NoPN]
  /\ tid = [s \in Sessions |-> 0]
  /\ inbox = [s \in Sessions |-> <<>>]
  /\ wire = [s \in Sessions |-> {}]
  /\ pending = [s \in Sessions |-> {}]
  /\ send_lock = [s \in Sessions |-> <<>>]
  /\ sessions = {}
  /\ sessions_by_pn = [p \in PNs |-> NoSession]
  /\ ready_by_pn = {}
  /\ any_ready = FALSE
  /\ status = [p \in PNs |-> IF p \in Enabled THEN "disconnected" ELSE "unknown"]
  /\ req = [r \in Reqs |-> "idle"]
  /\ rsess = [r \in Reqs |-> NoSession]
  /\ rtid = [r \in Reqs |-> 0]
  /\ got = [r \in Reqs |-> [from |-> NoPN, req |-> NoReq]]

-----------------------------------------------------------------------------
(* The announcer (_announce_loop) and the dongles.                          *)

Connected == {p \in PNs : sessions_by_pn[p] # NoSession}

\* Mutant: the announcer rests as soon as any dongle is connected.
should_announce_Any == Connected = {}

\* Outside a forced-rediscovery window.
should_announce ==
  IF Enabled # {} THEN ~(Enabled \subseteq Connected) ELSE Connected = {}

\* set>server is broadcast; the dongles H receive the datagram.
Broadcast(H) ==
  /\ life = "up"
  /\ ~(H \subseteq heard)
  /\ heard' = heard \cup H
  /\ UNCHANGED <<life, draining, sessVars, mapVars, reqVars>>

Announce(H) == should_announce /\ Broadcast(H)

\* In the window after force_rediscovery, which a user opens when he likes, the
\* connection state does not matter.
ForcedAnnounce(H) == ~should_announce /\ Broadcast(H)

\* The dongle p connects: a transport and a _handle_session task come to be.  A
\* connection it had before is half-open from now on.
Accept(s, p) ==
  /\ life \in {"up", "draining"}
  /\ p \in heard
  /\ handler[s] = "free" /\ send_lock[s] = <<>> /\ s \notin draining
  /\ heard' = heard \ {p}
  /\ dongle' = [dongle EXCEPT ![s] = p]
  /\ handler' = [handler EXCEPT ![s] = "accepted"]
  /\ link' = [x \in Sessions |->
                IF x = s THEN "up"
                ELSE IF dongle[x] = p /\ link[x] = "up" THEN "stale" ELSE link[x]]
  /\ tid' = [tid EXCEPT ![s] = 0]
  /\ UNCHANGED <<life, draining, pn, inbox, wire, pending, send_lock, mapVars,
                 reqVars>>

\* The dongle's heartbeat carries its PN, or a blank from a dongle that may send one.
DongleHeartbeat(s, p) ==
  /\ handler[s] # "free" /\ link[s] = "up"
  /\ p = dongle[s] \/ (p = NoPN /\ dongle[s] \in Blank)
  /\ Len(inbox[s]) < InboxBound
  /\ inbox' = [inbox EXCEPT ![s] = Append(@, [fc |-> "heartbeat", pn |-> p])]
  /\ UNCHANGED <<mgrVars, dongle, handler, link, pn, tid, wire, pending, send_lock,
                 mapVars, reqVars>>

\* The dongle answers a request with the TID it came with.
DongleReplies(s, r) ==
  /\ handler[s] # "free" /\ link[s] = "up"
  /\ r \in wire[s]
  /\ Len(inbox[s]) < InboxBound
  /\ wire' = [wire EXCEPT ![s] = @ \ {r}]
  /\ inbox' = [inbox EXCEPT ![s] =
                 Append(@, [fc |-> "forward", tid |-> rtid[r], req |-> r])]
  /\ UNCHANGED <<mgrVars, dongle, handler, link, pn, tid, pending, send_lock,
                 mapVars, reqVars>>

\* The dongle is gone without a word: the connection is half-open.
DongleVanishes(s) ==
  /\ handler[s] # "free" /\ link[s] = "up"
  /\ link' = [link EXCEPT ![s] = "stale"]
  /\ UNCHANGED <<mgrVars, dongle, handler, pn, tid, inbox, wire, pending, send_lock,
                 mapVars, reqVars>>

\* A clean close: what is in the inbox can still be read.
DongleCloses(s) ==
  /\ handler[s] # "free" /\ link[s] = "up"
  /\ link' = [link EXCEPT ![s] = "eof"]
  /\ UNCHANGED <<mgrVars, dongle, handler, pn, tid, inbox, wire, pending, send_lock,
                 mapVars, reqVars>>

\* A transport error: the reader raises before it returns buffered data.
LinkFails(s) ==
  /\ handler[s] # "free" /\ link[s] \in {"up", "stale", "eof"}
  /\ link' = [link EXCEPT ![s] = "reset"]
  /\ UNCHANGED <<mgrVars, dongle, handler, pn, tid, inbox, wire, pending, send_lock,
                 mapVars, reqVars>>

-----------------------------------------------------------------------------
(* Effects shared by several actions.                                       *)

\* Event.set(): the tasks waiting for it will run.
WakeFor(p) ==
  [r \in Reqs |-> IF req[r] = "waiting" /\ Target[r] = p THEN "woken" ELSE req[r]]

\* Mutant: _drop_session fails the requests of every session.
LostWith_All(s) ==
  [r \in Reqs |-> IF req[r] = "sent" THEN "lost" ELSE req[r]]

\* Mutant: _drop_session forgets the futures without completing them.
LostWith_None(s) == req

\* Futures that _drop_session completes with ConnectionError.
LostWith(s) ==
  [r \in Reqs |-> IF r \in pending[s] /\ req[r] = "sent" THEN "lost" ELSE req[r]]

\* Mutant: _drop_session deletes the PN's mapping whoever holds it.
Unmapped_Unconditional(s) ==
  [p \in PNs |-> IF p = pn[s] THEN NoSession ELSE sessions_by_pn[p]]

\* sessions_by_pn without the session s.
Unmapped(s) ==
  [p \in PNs |-> IF sessions_by_pn[p] = s /\ pn[s] = p THEN NoSession
                                                        ELSE sessions_by_pn[p]]

\* Mutant: _any_ready stays set when the last session goes.
drop_session_KeepsEvent(s) ==
  /\ sessions' = sessions \ {s}
  /\ sessions_by_pn' = Unmapped(s)
  /\ ready_by_pn' = ready_by_pn \ {p \in PNs : Unmapped(s)[p] # sessions_by_pn[p]}
  /\ pending' = [pending EXCEPT ![s] = {}]
  /\ UNCHANGED any_ready

\* _drop_session: req and link are left to the caller.
drop_session(s) ==
  /\ sessions' = sessions \ {s}
  /\ sessions_by_pn' = Unmapped(s)
  /\ ready_by_pn' = ready_by_pn \ {p \in PNs : Unmapped(s)[p] # sessions_by_pn[p]}
  /\ pending' = [pending EXCEPT ![s] = {}]
  /\ any_ready' = (any_ready /\ sessions \ {s} # {})

-----------------------------------------------------------------------------
(* The session's tasks: _handle_session and _heartbeat_loop.                *)

HandlerStarts(s) ==
  /\ handler[s] = "accepted"
  /\ handler' = [handler EXCEPT ![s] = "reading"]
  /\ sessions' = sessions \cup {s}
  /\ any_ready' = TRUE
  /\ req' = WakeFor(NoPN)
  /\ UNCHANGED <<mgrVars, dongle, link, pn, tid, inbox, wire, pending, send_lock,
                 sessions_by_pn, ready_by_pn, status, rsess, rtid, got>>

\* The next frame is one of this kind, and is taken out of the inbox.
Reads(s, fc) ==
  /\ handler[s] = "reading"
  /\ link[s] # "reset"
  /\ inbox[s] # <<>>
  /\ Head(inbox[s]).fc = fc
  /\ inbox' = [inbox EXCEPT ![s] = Tail(@)]

\* The first heartbeat with a PN identifies the session.  The session that held
\* the PN is closed and dropped.
Identifies(s) ==
  LET p   == Head(inbox[s]).pn
      old == sessions_by_pn[p]
  IN  /\ Reads(s, "heartbeat")
      /\ p # NoPN /\ pn[s] = NoPN
      /\ pn' = [pn EXCEPT ![s] = p]
      /\ status' = [status EXCEPT ![p] = "connected"]
      /\ sessions_by_pn' = [sessions_by_pn EXCEPT ![p] = s]
      /\ ready_by_pn' = ready_by_pn \cup {p}
      /\ IF old = NoSession
           THEN /\ req' = WakeFor(p)
                /\ UNCHANGED <<link, sessions, any_ready, pending>>
           ELSE /\ link' = [link EXCEPT ![old] = "closed"]
                /\ sessions' = sessions \ {old}
                /\ any_ready' = (any_ready /\ sessions \ {old} # {})
                /\ pending' = [pending EXCEPT ![old] = {}]
                /\ req' = [r \in Reqs |-> IF LostWith(old)[r] = "lost" THEN "lost"
                                                                      ELSE WakeFor(p)[r]]
      /\ UNCHANGED <<mgrVars, dongle, handler, tid, wire, send_lock, rsess, rtid, got>>

\* Any other heartbeat refreshes the registry, if the session is identified.
HeartbeatAgain(s) ==
  /\ Reads(s, "heartbeat")
  /\ Head(inbox[s]).pn = NoPN \/ pn[s] # NoPN
  /\ status' = IF pn[s] = NoPN THEN status ELSE [status EXCEPT ![pn[s]] = "connected"]
  /\ UNCHANGED <<mgrVars, dongle, handler, link, pn, tid, wire, pending, send_lock,
                 sessions, sessions_by_pn, ready_by_pn, any_ready, reqVars>>

\* An FC=4 frame completes the future registered under its TID, if there is one
\* that is not done.
ReadsReply(s) ==
  LET f == Head(inbox[s])
      matched == {r \in pending[s] : rtid[r] = f.tid}
  IN  /\ Reads(s, "forward")
      /\ pending' = [pending EXCEPT ![s] = @ \ matched]
      /\ req' = [r \in Reqs |-> IF r \in matched /\ req[r] = "sent" THEN "replied"
                                                                   ELSE req[r]]
      /\ got' = [r \in Reqs |-> IF r \in matched /\ req[r] = "sent"
                                  THEN [from |-> dongle[s], req |-> f.req] ELSE got[r]]
      /\ UNCHANGED <<mgrVars, dongle, handler, link, pn, tid, wire, send_lock,
                     mapVars, rsess, rtid>>

\* The read loop ends; the finally clause cancels the heartbeat task and awaits it.
HandlerStops(s) ==
  /\ handler[s] = "reading"
  /\ link[s] = "reset" \/ (link[s] \in {"eof", "closed"} /\ inbox[s] = <<>>)
  /\ handler' = [handler EXCEPT ![s] = "ending"]
  /\ UNCHANGED <<mgrVars, dongle, link, pn, tid, inbox, wire, pending, send_lock,
                 mapVars, reqVars>>

\* Mutant: the end of a session marks its PN disconnected without a look at
\* who holds the PN by now.
Disconnected_Always(s) ==
  IF pn[s] # NoPN THEN [status EXCEPT ![pn[s]] = "disconnected"] ELSE status

\* The status after the session's end: the PN may have been claimed by a reconnect.
Disconnected(s) ==
  IF pn[s] # NoPN /\ Unmapped(s)[pn[s]] = NoSession
    THEN [status EXCEPT ![pn[s]] = "disconnected"] ELSE status

\* The rest of the finally clause.  The object is garbage once the requests that
\* still wait for its send_lock have found its connection lost.
SessionEnds(s) ==
  /\ handler[s] = "ending"
  /\ handler' = [handler EXCEPT ![s] = "free"]
  /\ link' = [link EXCEPT ![s] = "closed"]
  /\ drop_session(s)
  /\ req' = LostWith(s)
  /\ status' = Disconnected(s)
  /\ dongle' = [dongle EXCEPT ![s] = NoPN]
  /\ pn' = [pn EXCEPT ![s] = NoPN]
  /\ inbox' = [inbox EXCEPT ![s] = <<>>]
  /\ wire' = [wire EXCEPT ![s] = {}]
  /\ UNCHANGED <<mgrVars, tid, send_lock, rsess, rtid, got>>

\* Mutant: the transaction id is not advanced.
next_tid_Stuck(s) == tid[s]

next_tid(s) == IF tid[s] + 1 = TidSpace THEN 0 ELSE tid[s] + 1

\* A write succeeds: the transport has not lost its connection yet.
Writable(s) == link[s] \in {"up", "stale", "eof"}

\* One round of _heartbeat_loop.
SendsHeartbeat(s) ==
  /\ handler[s] = "reading" /\ Writable(s)
  /\ tid[s] < HeartbeatBound /\ tid[s] < FrameBound
  /\ tid' = [tid EXCEPT ![s] = next_tid(s)]
  /\ UNCHANGED <<mgrVars, dongle, handler, link, pn, inbox, wire, pending, send_lock,
                 mapVars, reqVars>>

\* The write of a keepalive fails: the writer is closed, which ends the read loop.
HeartbeatFails(s) ==
  /\ handler[s] = "reading" /\ Writable(s)
  /\ link' = [link EXCEPT ![s] = "closed"]
  /\ UNCHANGED <<mgrVars, dongle, handler, pn, tid, inbox, wire, pending, send_lock,
                 mapVars, reqVars>>

-----------------------------------------------------------------------------
(* send_frame.                                                              *)

\* The session a request is sent to (_wait_for_session, _pnless_target).
Resolved(r) ==
  IF Target[r] # NoPN THEN sessions_by_pn[Target[r]]
  ELSE IF \E s \in Sessions : sessions = {s} THEN CHOOSE s \in sessions : TRUE
  ELSE NoSession

\* The frame is written with a fresh TID.  On a lost connection drain() raises and
\* the future is withdrawn; `line` is the lock's line while r holds it.
Transmit(r, s, line) ==
  /\ tid[s] < FrameBound
  /\ tid' = [tid EXCEPT ![s] = next_tid(s)]
  /\ IF Writable(s)
       THEN /\ req' = [req EXCEPT ![r] = "sent"]
            /\ rsess' = [rsess EXCEPT ![r] = s]
            /\ rtid' = [rtid EXCEPT ![r] = next_tid(s)]
            /\ pending' = [pending EXCEPT ![s] = @ \cup {r}]
            /\ wire' = [wire EXCEPT ![s] = IF link[s] = "up" THEN @ \cup {r} ELSE @]
            /\ send_lock' = [send_lock EXCEPT ![s] = line]
       ELSE /\ req' = [req EXCEPT ![r] = "none"]
            /\ rsess' = [rsess EXCEPT ![r] = NoSession]
            /\ send_lock' = [send_lock EXCEPT ![s] = Tail(line)]
            /\ UNCHANGED <<rtid, pending, wire>>

\* Mutant: send_lock does not make a request wait.
Joins_NoLock(r, s) == Transmit(r, s, <<r>> \o send_lock[s])

\* `async with sess.send_lock`: at once if nobody holds it.
Joins(r, s) ==
  \/ send_lock[s] = <<>> /\ Transmit(r, s, <<r>>)
  \/ /\ send_lock[s] # <<>>
     /\ send_lock' = [send_lock EXCEPT ![s] = Append(@, r)]
     /\ req' = [req EXCEPT ![r] = "locking"]
     /\ rsess' = [rsess EXCEPT ![r] = s]
     /\ UNCHANGED <<tid, rtid, pending, wire>>

\* Nothing to send to: the request is dropped.
Dropped(r) ==
  /\ req' = [req EXCEPT ![r] = "none"]
  /\ UNCHANGED <<tid, rsess, rtid, pending, wire, send_lock>>

Proceeds(r) == IF Resolved(r) = NoSession THEN Dropped(r) ELSE Joins(r, Resolved(r))

\* What _wait_for_session would wait for is missing.
MustWait(r) == IF Target[r] # NoPN THEN sessions_by_pn[Target[r]] = NoSession
                                   ELSE sessions = {}

\* send_frame is called while the manager serves.
Begin(r) ==
  /\ req[r] = "idle" /\ life = "up"
  /\ \/ ~MustWait(r) /\ Proceeds(r)
     \/ /\ MustWait(r)
        /\ req' = [req EXCEPT ![r] = "waiting"]
        /\ UNCHANGED <<tid, rsess, rtid, pending, wire, send_lock>>
  /\ UNCHANGED <<mgrVars, dongle, handler, link, pn, inbox, mapVars, got>>

\* The event was set; by now the session may be gone again.
Wakes(r) ==
  /\ req[r] = "woken"
  /\ Proceeds(r)
  /\ UNCHANGED <<mgrVars, dongle, handler, link, pn, inbox, mapVars, got>>

\* No dongle within SESSION_WAIT_TIMEOUT.
WaitTimeout(r) ==
  /\ req[r] \in {"waiting", "deaf"}
  /\ req' = [req EXCEPT ![r] = "none"]
  /\ UNCHANGED <<mgrVars, sessVars, mapVars, rsess, rtid, got>>

\* The lock is handed to the next in line.
GetsLock(r) ==
  /\ req[r] = "locking"
  /\ send_lock[rsess[r]] # <<>> /\ Head(send_lock[rsess[r]]) = r
  /\ Transmit(r, rsess[r], send_lock[rsess[r]])
  /\ UNCHANGED <<mgrVars, dongle, handler, link, pn, inbox, mapVars, got>>

\* Mutant: a request that ends early leaves the lock taken.
Releases_Never(r) == /\ UNCHANGED send_lock
                     /\ rsess' = [rsess EXCEPT ![r] = NoSession]

\* The end of `async with`.
Releases(r) == /\ send_lock' = [send_lock EXCEPT ![rsess[r]] = Tail(@)]
               /\ rsess' = [rsess EXCEPT ![r] = NoSession]

\* The future was completed; the task runs and leaves the lock.
Finishes(r) ==
  /\ req[r] \in {"replied", "lost"}
  /\ req' = [req EXCEPT ![r] = IF @ = "replied" THEN "answered" ELSE "none"]
  /\ Releases(r)
  /\ UNCHANGED <<mgrVars, dongle, handler, link, pn, tid, inbox, wire, pending,
                 mapVars, rtid, got>>

\* No reply within FORWARD_RESPONSE_TIMEOUT: the future is withdrawn.
ReplyTimeout(r) ==
  /\ req[r] = "sent"
  /\ req' = [req EXCEPT ![r] = "none"]
  /\ pending' = [pending EXCEPT ![rsess[r]] = @ \ {r}]
  /\ Releases(r)
  /\ UNCHANGED <<mgrVars, dongle, handler, link, pn, tid, inbox, wire,
                 mapVars, rtid, got>>

\* A timeout of the poll cycle cancels the task.  A request that was sent leaves
\* its cancelled future in pending.
CancelsSent(r) ==
  /\ req[r] \in {"sent", "replied", "lost"}
  /\ req' = [req EXCEPT ![r] = "cancelled"]
  /\ Releases(r)
  /\ UNCHANGED <<mgrVars, dongle, handler, link, pn, tid, inbox, wire, pending,
                 mapVars, rtid, got>>

\* The line without its i-th task.
Without(line, i) == SubSeq(line, 1, i - 1) \o SubSeq(line, i + 1, Len(line))

CancelsLocking(r) ==
  /\ req[r] = "locking"
  /\ req' = [req EXCEPT ![r] = "cancelled"]
  /\ \E i \in 1..Len(send_lock[rsess[r]]) :
        /\ send_lock[rsess[r]][i] = r
        /\ send_lock' = [send_lock EXCEPT ![rsess[r]] = Without(@, i)]
  /\ rsess' = [rsess EXCEPT ![r] = NoSession]
  /\ UNCHANGED <<mgrVars, dongle, handler, link, pn, tid, inbox, wire, pending,
                 mapVars, rtid, got>>

CancelsWaiting(r) ==
  /\ req[r] \in {"waiting", "deaf", "woken"}
  /\ req' = [req EXCEPT ![r] = "cancelled"]
  /\ UNCHANGED <<mgrVars, sessVars, mapVars, rsess, rtid, got>>

-----------------------------------------------------------------------------
(* shutdown.                                                                *)

\* The announcer is cancelled; the loop goes over a snapshot of _sessions and, for
\* each, awaits the end of its heartbeat task.
ShutdownBegins ==
  /\ life = "up" /\ sessions # {}
  /\ life' = "draining"
  /\ draining' = sessions
  /\ UNCHANGED <<heard, sessVars, mapVars, reqVars>>

\* One iteration that is not the last.
ShutdownDrops(s) ==
  /\ s \in draining /\ draining # {s}
  /\ draining' = draining \ {s}
  /\ drop_session(s)
  /\ req' = LostWith(s)
  /\ link' = [link EXCEPT ![s] = "closed"]
  /\ UNCHANGED <<life, heard, dongle, handler, pn, tid, inbox, wire, send_lock,
                 status, rsess, rtid, got>>

\* The maps are cleared, whoever connected meanwhile, and the listener is closed.
\* The ready events leave the map without being set: `q` with their waiters deaf.
ShutdownClears(q) ==
  /\ life' = "closing"
  /\ draining' = {}
  /\ sessions' = {}
  /\ sessions_by_pn' = [p \in PNs |-> NoSession]
  /\ ready_by_pn' = {}
  /\ any_ready' = FALSE
  /\ req' = [r \in Reqs |-> IF q[r] = "waiting" /\ Target[r] # NoPN THEN "deaf"
                                                                   ELSE q[r]]
  /\ UNCHANGED <<heard, dongle, handler, pn, tid, inbox, wire, send_lock, status,
                 rsess, rtid, got>>

\* Nothing suspends between the last iteration and the close of the listener.
ShutdownDropsLast(s) ==
  /\ draining = {s}
  /\ link' = [link EXCEPT ![s] = "closed"]
  /\ pending' = [pending EXCEPT ![s] = {}]
  /\ ShutdownClears(LostWith(s))

ShutdownIdle ==
  /\ life = "up" /\ sessions = {}
  /\ ShutdownClears(req)
  /\ UNCHANGED <<link, pending>>

\* wait_closed returns once every accepted connection has ended.
ShutdownEnds ==
  /\ life = "closing"
  /\ \A s \in Sessions : handler[s] = "free"
  /\ life' = "down"
  /\ UNCHANGED <<draining, heard, sessVars, mapVars, reqVars>>

-----------------------------------------------------------------------------
Announcer == \E H \in SUBSET PNs : Announce(H) \/ ForcedAnnounce(H)

Dongle(s) == \/ \E p \in PNs : Accept(s, p)
             \/ \E p \in PNs \cup {NoPN} : DongleHeartbeat(s, p)
             \/ \E r \in Reqs : DongleReplies(s, r)
             \/ DongleVanishes(s) \/ DongleCloses(s) \/ LinkFails(s)

Handler(s) == \/ HandlerStarts(s) \/ Identifies(s) \/ HeartbeatAgain(s)
              \/ ReadsReply(s) \/ HandlerStops(s) \/ SessionEnds(s)

Keepalive(s) == SendsHeartbeat(s) \/ HeartbeatFails(s)

Proceed(r) == Wakes(r) \/ GetsLock(r) \/ Finishes(r)
Expire(r)  == WaitTimeout(r) \/ ReplyTimeout(r)
Cancels(r) == CancelsSent(r) \/ CancelsLocking(r) \/ CancelsWaiting(r)

Shutdown == \/ ShutdownBegins \/ ShutdownIdle \/ ShutdownEnds
            \/ \E s \in Sessions : ShutdownDrops(s) \/ ShutdownDropsLast(s)

Next == \/ Announcer
        \/ \E s \in Sessions : Dongle(s) \/ Handler(s) \/ Keepalive(s)
        \/ \E r \in Reqs : Begin(r) \/ Proceed(r) \/ Expire(r) \/ Cancels(r)
        \/ Shutdown

Spec == Init /\ [][Next]_vars

\* The event loop runs what can run and timers fire; a write to a half-open
\* connection fails in the end.
LoopFairness ==
  /\ \A s \in Sessions : /\ WF_vars(Handler(s))
                         /\ WF_vars(link[s] = "stale" /\ HeartbeatFails(s))
  /\ \A r \in Reqs : WF_vars(Proceed(r)) /\ WF_vars(Expire(r))
  /\ WF_vars(life # "up" /\ Shutdown)

Connects(p) == \E s \in Sessions : Accept(s, p)

\* Of the dongle p: it does not miss every broadcast, reacts to one by connecting,
\* sends a heartbeat while connected, and when it connects again and again it does
\* not go away every time before its first heartbeat is read.
DongleFairness(p) ==
  /\ SF_vars(\E H \in SUBSET PNs : p \in H \ heard /\ Announce(H))
  /\ SF_vars(Connects(p))
  /\ WF_vars(\E s \in Sessions : pn[s] = NoPN /\ dongle[s] = p /\ DongleHeartbeat(s, p))
  /\ []<><<Connects(p)>>_vars
       => []<><<\E s \in Sessions : dongle[s] = p /\ Identifies(s)>>_vars

FairSpec == Spec /\ LoopFairness /\ \A p \in Enabled : DongleFairness(p)

-----------------------------------------------------------------------------
(* Properties.                                                              *)

\* While the manager serves, the routing tables agree: a PN is mapped to a session
\* of its own dongle, exactly the mapped PNs have their ready event set, and
\* _any_ready is set exactly when a dongle is connected.
RoutingTables ==
  life = "up" =>
    /\ \A p \in Connected : /\ sessions_by_pn[p] \in sessions
                           /\ pn[sessions_by_pn[p]] = p
                           /\ dongle[sessions_by_pn[p]] = p
    /\ ready_by_pn = Connected
    /\ any_ready <=> sessions # {}

\* "Disconnecting one dongle must not affect the others", and the end of a stale
\* session not the reconnected one: a connected session that gave its PN is the
\* one requests for that PN are routed to.
IdentifiedIsRouted ==
  life = "up" =>
    \A s \in sessions : pn[s] # NoPN => sessions_by_pn[pn[s]] = s

\* The registry never calls a dongle disconnected that requests are routed to, and
\* calls one connected only while a session of it is being handled, in whatever
\* order the ends of stale sessions and reconnects come.
StatusIsHonest ==
  \A p \in PNs :
    /\ p \in Connected => status[p] = "connected"
    /\ status[p] = "connected" =>
         \E s \in Sessions : pn[s] = p /\ handler[s] \in {"reading", "ending"}

\* An answer is the reply to the very frame that was sent, also when replies come
\* after timeouts and cancellations, and a request with a PN is answered by the
\* dongle of that PN.
AnswersAreGenuine ==
  \A r \in Reqs :
    req[r] \in {"replied", "answered"} =>
      /\ got[r].req = r
      /\ Target[r] # NoPN => got[r].from = Target[r]

InFlight(r) == req[r] \in {"sent", "replied", "lost"}

\* send_lock: a dongle gets the next frame only after the previous request ended.
OneForwardPerSession ==
  \A r, q \in Reqs :
    InFlight(r) /\ InFlight(q) /\ rsess[r] = rsess[q] => r = q

\* A request waiting for a reply is registered in a session that is still being
\* handled: when the dongle goes, the request fails at once, not by its timeout.
InFlightIsWatched ==
  \A r \in Reqs :
    req[r] = "sent" => /\ r \in pending[rsess[r]]
                       /\ handler[rsess[r]] \in {"reading", "ending"}

\* The inductive invariant behind the properties above.
Handled(s) == handler[s] \in {"reading", "ending"}
Started(r) == req[r] \notin {"idle", "waiting", "deaf", "woken", "locking"}

\* What a session object holds at each stage of its handler; a PN is the dongle's own.
ObjectInv ==
  \A s \in Sessions :
    /\ handler[s] = "free" => /\ link[s] = "closed" /\ inbox[s] = <<>>
    /\ handler[s] \in {"free", "accepted"} =>
         pn[s] = NoPN /\ wire[s] = {} /\ pending[s] = {} /\ s \notin sessions
    /\ handler[s] = "accepted" => send_lock[s] = <<>>
    /\ pn[s] # NoPN => pn[s] = dongle[s]
    /\ \A i \in 1..Len(inbox[s]) :
         inbox[s][i].fc = "heartbeat" => inbox[s][i].pn \in {dongle[s], NoPN}

\* A mapped session is the PN's own and is being handled; while the manager serves,
\* only an identified session can have been dropped before its handler ends.
MapInv ==
  /\ \A p \in Connected : /\ pn[sessions_by_pn[p]] = p
                         /\ Handled(sessions_by_pn[p])
  /\ draining # {} => life = "draining"
  /\ life = "up" => \A s \in Sessions : Handled(s) /\ pn[s] = NoPN => s \in sessions

\* A request in the line for a session's lock, or holding it, is at its place there,
\* and the session is one of the dongle it is for.
LockInv ==
  \A r \in Reqs :
    /\ req[r] = "locking" => /\ rsess[r] \in Sessions
                             /\ \E i \in 1..Len(send_lock[rsess[r]]) :
                                   send_lock[rsess[r]][i] = r
    /\ InFlight(r) => /\ rsess[r] \in Sessions
                      /\ send_lock[rsess[r]] # <<>> /\ Head(send_lock[rsess[r]]) = r
    /\ req[r] \in {"locking", "sent"} /\ Target[r] # NoPN =>
         handler[rsess[r]] = "free" \/ dongle[rsess[r]] = Target[r]

\* The request r has a frame, a reply or a future in the session s.
Known(r, s) ==
  \/ r \in wire[s] \/ r \in pending[s]
  \/ \E i \in 1..Len(inbox[s]) : inbox[s][i].fc = "forward" /\ inbox[s][i].req = r

\* Transaction ids tell the requests of a session apart.
TidInv ==
  \A s \in Sessions :
    /\ \A r \in pending[s] : req[r] = "cancelled" \/ (req[r] = "sent" /\ rsess[r] = s)
    /\ \A r \in Reqs : Known(r, s) => Started(r) /\ rtid[r] <= tid[s]
    /\ \A r, q \in Reqs : Known(r, s) /\ Known(q, s) /\ rtid[r] = rtid[q] => r = q
    /\ \A i \in 1..Len(inbox[s]) :
         inbox[s][i].fc = "forward" => inbox[s][i].tid = rtid[inbox[s][i].req]

SessionInv == /\ TypeOK /\ ObjectInv /\ MapInv /\ RoutingTables /\ IdentifiedIsRouted
              /\ StatusIsHonest /\ LockInv /\ TidInv /\ InFlightIsWatched
              /\ AnswersAreGenuine

\* A request is failed by the loss of its own session only.
NoCollateralLoss ==
  [][\A r \in Reqs : req[r] = "sent" /\ req'[r] = "lost" =>
        link[rsess[r]] # "up" \/ link'[rsess[r]] # "up"]_vars

\* An enabled dongle is connected again and again for as long as the manager
\* serves, although each announcement also makes connected dongles reconnect.
EnabledDonglesReturn ==
  \A p \in Enabled : []<>(p \in Connected \/ life # "up")

\* A request ends: answered, dropped or cancelled.
RequestsEnd ==
  \A r \in Reqs : req[r] # "idle" ~> req[r] \in {"answered", "none", "cancelled"}

\* async_unload_entry's comment: the listener is freed so that a reload can
\* rebind the port.  The reload waits for shutdown to return.
ShutdownReturns == life \in {"draining", "closing"} ~> life = "down"
=============================================================================
