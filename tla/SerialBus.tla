----------------------------- MODULE SerialBus ------------------------------
(***************************************************************************)
(* What the command queues promise to their users: a half-duplex link per   *)
(* transport key on which commands are served one at a time and at most     *)
(* once each, user commands before polls, first come first served within a  *)
(* priority.  Stopping a transport drops whatever has not been served.      *)
(* CommandQueue implements this specification.                              *)
(***************************************************************************)
EXTENDS Integers

CONSTANTS Jobs,           \* commands
          BusOf(_),       \* the transport of a command
          IsUser(_)       \* issued by a user rather than by polling

VARIABLES status,   \* status[j]
          before    \* <<i, j>>: i was submitted before j, both waiting on one bus

busVars == <<status, before>>

Statuses == {"new", "waiting", "serving", "gone"}

BusTypeOK == /\ status \in [Jobs -> Statuses]
             /\ before \in SUBSET (Jobs \X Jobs)

BusInit == /\ status = [j \in Jobs |-> "new"]
           /\ before = {}

WaitingWith(j) == {i \in Jobs : status[i] = "waiting" /\ BusOf(i) = BusOf(j)}

\* The pairs among jobs that stay in the line.
Without(S) == {p \in before : p[1] \notin S /\ p[2] \notin S}

Submit(j) ==
  /\ status[j] = "new"
  /\ status' = [status EXCEPT ![j] = "waiting"]
  /\ before' = before \cup {<<i, j>> : i \in WaitingWith(j)}

\* The issuer gives up before its command was submitted.
Withdraw(j) ==
  /\ status[j] = "new"
  /\ status' = [status EXCEPT ![j] = "gone"]
  /\ UNCHANGED before

Serve(j) ==
  /\ status[j] = "waiting"
  /\ \A i \in Jobs : BusOf(i) = BusOf(j) => status[i] # "serving"
  /\ \A i \in WaitingWith(j) \ {j} :
        \/ IsUser(j) /\ ~IsUser(i)
        \/ (IsUser(i) <=> IsUser(j)) /\ <<i, j>> \notin before
  /\ status' = [status EXCEPT ![j] = "serving"]
  /\ before' = Without({j})

Finish(j) ==
  /\ status[j] = "serving"
  /\ status' = [status EXCEPT ![j] = "gone"]
  /\ UNCHANGED before

\* A transport is stopped: its waiting commands are never served.  The one in
\* service is unwound by a later Finish.
Drop(S) ==
  /\ S # {}
  /\ \A i \in S : status[i] = "waiting"
  /\ \A i \in S, j \in Jobs : (status[j] = "waiting" /\ BusOf(i) = BusOf(j)) => j \in S
  /\ status' = [j \in Jobs |-> IF j \in S THEN "gone" ELSE status[j]]
  /\ before' = Without(S)

BusNext == \/ \E j \in Jobs : Submit(j) \/ Withdraw(j) \/ Serve(j) \/ Finish(j)
           \/ \E S \in SUBSET Jobs : Drop(S)

BusSpec == BusInit /\ [][BusNext]_busVars
=============================================================================
