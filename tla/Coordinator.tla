----------------------------- MODULE Coordinator -----------------------------
(***************************************************************************)
(* The poll coordinator (direct_coordinator.py, failure_tracker.py), the    *)
(* Modbus snapshot cache (adapters/modbus.py) and a setting select          *)
(* (select.py) of one of its devices.                                       *)
(*                                                                          *)
(* Three activities share the coordinator's data: the poll cycle, which     *)
(* works from a snapshot and publishes at its end; forced refreshes, which  *)
(* publish one section at once; and the select, which listens to what is    *)
(* published and holds a choice until it is confirmed.  A read or a write   *)
(* is one step: the bus carries one command of a device at a time.          *)
(* A section's content is what it says about the setting; sections that do  *)
(* not contain it are Live.                                                 *)
(***************************************************************************)
EXTENDS Integers, Sequences, FiniteSets

CONSTANTS
  Devs,          \* poll targets of the entry
  Others,        \* the number of further targets, polled in parallel in each cycle
  Sel,           \* the device whose setting a select shows
  Options,       \* the setting's values
  Schedule,      \* _CMD_SCHEDULE: a sequence of [cmd, cadence]
  Setting,       \* the command whose section contains the setting (QPIRI)
  Threshold,     \* _NAK_SUPPRESS_THRESHOLD
  MaxFails,      \* _MAX_CONSECUTIVE_FAILURES
  Tries,         \* writes per choice
  Attempts,      \* _CONFIRM_ATTEMPTS
  Tasks,         \* calls of async_select_option
  CycleModulus,  \* bound: the cycle counter is kept modulo this multiple of all cadences
  FaultBound,    \* bound: failed reads, writes and cycles
  Live, Nothing, Todo, Err, Nak, Stale

ASSUME CoordinatorAssumption ==
  /\ Sel \in Devs /\ IsFiniteSet(Devs) /\ Others \in Nat
  /\ Threshold \in Nat \ {0} /\ MaxFails \in Nat \ {0}
  /\ Tries \in Nat \ {0} /\ Attempts \in Nat \ {0} /\ FaultBound \in Nat
  /\ CycleModulus \in Nat \ {0}
  /\ \A i \in DOMAIN Schedule : /\ Schedule[i].cadence \in Nat \ {0}
                                /\ CycleModulus % Schedule[i].cadence = 0

Cmds == {Schedule[i].cmd : i \in DOMAIN Schedule}

\* The setting is read by a scheduled command; a choice, a section, a place not reached
\* and the outcomes of a read are told apart.
ASSUME SettingAssumption ==
  /\ Setting \in Cmds /\ Options # {}
  /\ {Live, Nothing, Todo, Err, Nak, Stale} \cap Options = {}
  /\ Live \notin {Nothing, Todo, Err, Nak} /\ Nothing \notin {Todo, Err, Nak}
  /\ Todo \notin {Err, Nak} /\ Err \notin {Nak, Stale}

Cadence(c) == (CHOOSE e \in {Schedule[i] : i \in DOMAIN Schedule} : e.cmd = c).cadence

VARIABLES
  data,         \* coordinator.data: device, command -> section
  prev,         \* prev_data of the cycle in flight
  got,          \* sections the cycle has so far (Todo: not reached)
  attempt,      \* of a device: the attempt at its current command (0: not begun)
  stuck,        \* devices that exceeded _PER_DEVICE_POLL_TIMEOUT in this cycle
  polling,      \* a cycle is in flight
  cycle,        \* _cycle
  ok,           \* last_update_success
  fails,        \* FailureTracker._counts
  naks,         \* _nak_counts
  unsupported,  \* _unsupported
  modbus,       \* devices read through ModbusAdapter's snapshot cache (configuration)
  cache,        \* _SNAPSHOT_CACHE: Stale, or what it returns until it expires
  real,         \* the setting in the device
  commit,       \* a value the device has accepted and not yet made visible
  pending,      \* select: _pending_option
  aged,         \* select: _PENDING_TTL is over
  shown,        \* select: _attr_current_option
  task,         \* async_select_option calls
  faults,       \* faults so far
  row,          \* observation: polls without an accepted answer, in a row
  rejected      \* observation: NAKs since the last accepted answer

pollVars   == <<prev, got, attempt, stuck, polling, cycle, ok>>
countVars  == <<fails, naks, unsupported, row, rejected>>
deviceVars == <<modbus, real, commit>>
selectVars == <<pending, aged, shown>>
vars == <<data, prev, got, attempt, stuck, polling, cycle, ok, fails, naks, unsupported,
          modbus, cache, real, commit, pending, aged, shown, task, faults, row, rejected>>

Sections == Options \cup {Live, Nothing}
Idle     == [pc |-> "idle", option |-> Nothing, left |-> 0]

CoordinatorTypeOK ==
  /\ data \in [Devs -> [Cmds -> Sections]]
  /\ prev \in [Devs -> [Cmds -> Sections]]
  /\ got \in [Devs -> [Cmds -> Sections \cup {Todo}]]
  /\ attempt \in [Devs -> 0..2]
  /\ stuck \in SUBSET Devs
  /\ polling \in BOOLEAN /\ ok \in BOOLEAN /\ aged \in BOOLEAN
  /\ cycle \in 0..(CycleModulus - 1)
  /\ fails \in [Devs -> [Cmds -> 0..MaxFails]]
  /\ row \in [Devs -> [Cmds -> 0..MaxFails]]
  /\ naks \in [Devs -> [Cmds -> 0..Threshold]]
  /\ rejected \in [Devs -> [Cmds -> 0..Threshold]]
  /\ unsupported \in SUBSET (Devs \X Cmds)
  /\ modbus \in SUBSET Devs
  /\ cache \in [Devs -> Options \cup {Stale, Err}]
  /\ real \in [Devs -> Options]
  /\ commit \in Options \cup {Nothing}
  /\ pending \in Options \cup {Nothing}
  /\ shown \in Options \cup {Nothing}
  /\ task \in [Tasks -> [pc : {"idle", "write", "confirm", "done"},
                         option : Options \cup {Nothing}, left : 0..(Tries + Attempts)]]
  /\ faults \in 0..FaultBound

Each(x) == [d \in Devs |-> [c \in Cmds |-> x]]

\* What a section says when the device's setting is o.
Section(c, o) == IF c = Setting THEN o ELSE Live

\* After the first refresh of set-up, which a device may have missed.
Init ==
  /\ real = [d \in Devs |-> CHOOSE o \in Options : TRUE]
  /\ \E offline \in SUBSET Devs :
       data = [d \in Devs |-> [c \in Cmds |-> IF d \in offline THEN Nothing
                                                              ELSE Section(c, real[d])]]
  /\ prev = Each(Nothing) /\ got = Each(Nothing)
  /\ attempt = [d \in Devs |-> 0] /\ stuck = {}
  /\ polling = FALSE /\ cycle = 1 % CycleModulus /\ ok = TRUE
  /\ fails = Each(0) /\ naks = Each(0) /\ row = Each(0) /\ rejected = Each(0)
  /\ unsupported = {}
  /\ modbus \in SUBSET Devs /\ cache = [d \in Devs |-> Stale]
  /\ commit = Nothing
  /\ pending = Nothing /\ aged = FALSE /\ shown = data[Sel][Setting]
  /\ task = [t \in Tasks |-> Idle]
  /\ faults = 0

-----------------------------------------------------------------------------
(* Reads: get_direct_data and the snapshot cache.                           *)

Fault == faults < FaultBound /\ faults' = faults + 1

\* _cached_snapshot: the entry is younger than _SNAPSHOT_TTL.
Hit(d) == d \in modbus /\ cache[d] # Stale

\* _SNAPSHOT_CACHE[key] = (now, snapshot), a failed read as None.
Stores(d, x) == IF d \in modbus THEN [cache EXCEPT ![d] = x] ELSE cache

\* Reading c from d yields res: a section, Nak, or Err (no reply, an error dict, a
\* failed decode, an implausible QPIGS).  A Modbus device has no NAK.
Reads(d, c, res) ==
  \/ /\ Hit(d)
     /\ res = IF cache[d] = Err THEN Err ELSE Section(c, cache[d])
     /\ UNCHANGED <<cache, faults>>
  \/ /\ ~Hit(d)
     /\ \/ /\ res = Section(c, real[d])
           /\ cache' = Stores(d, real[d])
           /\ UNCHANGED faults
        \/ /\ res \in {Err} \cup (IF d \in modbus THEN {} ELSE {Nak})
           /\ cache' = Stores(d, Err)
           /\ Fault

CacheExpires(d) ==
  /\ Hit(d)
  /\ cache' = [cache EXCEPT ![d] = Stale]
  /\ UNCHANGED <<data, pollVars, countVars, deviceVars, selectVars, task, faults>>

-----------------------------------------------------------------------------
(* Counting: _accept_result, _note_nak, FailureTracker.                     *)

Capped(n, top) == IF n < top THEN n ELSE top

\* Mutant: an answer leaves the NAKs before it standing.
cleared_nak_streak_Keeps(d, c) == naks

\* _clear_nak_streak
cleared_nak_streak(d, c) == [naks EXCEPT ![d][c] = 0]

\* Mutant: only a poll's answer counts, and only from the second failure on.
on_success_Late(d, c) == [fails EXCEPT ![d][c] = IF @ > 1 THEN 0 ELSE @]

on_success(d, c) == [fails EXCEPT ![d][c] = 0]

\* _accept_result of a good answer.
Accepts(d, c) ==
  /\ naks' = cleared_nak_streak(d, c)
  /\ fails' = on_success(d, c)
  /\ row' = [row EXCEPT ![d][c] = 0]
  /\ rejected' = [rejected EXCEPT ![d][c] = 0]
  /\ UNCHANGED unsupported

\* _note_nak, of a command that is not unsupported yet.
Suppressed(d, c) == naks[d][c] + 1 >= Threshold

NotesNak(d, c) ==
  /\ rejected' = [rejected EXCEPT ![d][c] = Capped(@ + 1, Threshold)]
  /\ IF <<d, c>> \in unsupported
       THEN UNCHANGED <<naks, unsupported>>
       ELSE /\ naks' = [naks EXCEPT ![d][c] = @ + 1]
            /\ unsupported' = IF Suppressed(d, c) THEN unsupported \cup {<<d, c>>}
                                                  ELSE unsupported

\* Mutant: off by one.
resolve_Early(count, last_known) == IF count + 1 < MaxFails THEN last_known ELSE Nothing

\* FailureTracker.resolve: freeze on the last known section, or give it up.
resolve(count, last_known) == IF count < MaxFails THEN last_known ELSE Nothing

-----------------------------------------------------------------------------
(* The select listens to what is published.                                 *)

\* Mutants: a pending choice is not held, or held for ever.
Held_Never(current) == FALSE
Held_Forever(current) == pending # Nothing /\ current # pending

\* _handle_coordinator_update: the choice is kept on display.
Held(current) == pending # Nothing /\ current # pending /\ ~aged

Listens(new) ==
  LET current == new[Sel][Setting]
  IN  IF Held(current)
        THEN shown' = pending /\ UNCHANGED <<pending, aged>>
        ELSE shown' = current /\ pending' = Nothing /\ aged' = FALSE

PendingAges ==
  /\ pending # Nothing /\ ~aged
  /\ aged' = TRUE
  /\ UNCHANGED <<data, pollVars, countVars, cache, deviceVars, pending, shown, task, faults>>

-----------------------------------------------------------------------------
(* _async_update_data                                                       *)

Due(c) == cycle % Cadence(c) = 0

\* The snapshot is taken; sections that are not due are carried forward from it.
CycleBegins ==
  /\ ~polling
  /\ polling' = TRUE
  /\ prev' = data
  /\ got' = [d \in Devs |-> [c \in Cmds |-> IF Due(c) THEN Todo ELSE data[d][c]]]
  /\ attempt' = [d \in Devs |-> 0] /\ stuck' = {}
  /\ UNCHANGED <<data, cycle, ok, countVars, cache, deviceVars, selectVars, task, faults>>

\* c is the command d's fetch has reached.
At(d, c) ==
  /\ polling /\ got[d][c] = Todo
  /\ \E i \in DOMAIN Schedule :
       /\ Schedule[i].cmd = c
       /\ \A j \in 1..(i - 1) : got[d][Schedule[j].cmd] # Todo

Gets(d, c, section) ==
  /\ got' = [got EXCEPT ![d][c] = section]
  /\ attempt' = [attempt EXCEPT ![d] = 0]
  /\ UNCHANGED <<prev, stuck, polling, cycle, ok>>

\* A command that is suppressed costs no bus time.
PollSkipped(d, c) ==
  /\ At(d, c) /\ attempt[d] = 0 /\ <<d, c>> \in unsupported
  /\ Gets(d, c, prev[d][c])
  /\ UNCHANGED <<data, countVars, cache, deviceVars, selectVars, task, faults>>

PollBegins(d, c) ==
  /\ At(d, c) /\ attempt[d] = 0 /\ <<d, c>> \notin unsupported
  /\ attempt' = [attempt EXCEPT ![d] = 1]
  /\ UNCHANGED <<data, prev, got, stuck, polling, cycle, ok, countVars, cache, deviceVars,
                 selectVars, task, faults>>

PollAnswered(d, c) ==
  /\ At(d, c) /\ attempt[d] > 0
  /\ \E s \in Sections :
       /\ Reads(d, c, s)
       /\ Gets(d, c, s)
  /\ Accepts(d, c)
  /\ UNCHANGED <<data, deviceVars, selectVars, task>>

\* No usable answer: one fast retry, then the freeze policy.
Fails(d, c) ==
  IF attempt[d] = 1
    THEN /\ attempt' = [attempt EXCEPT ![d] = 2]
         /\ UNCHANGED <<prev, got, stuck, polling, cycle, ok, fails, row>>
    ELSE /\ fails' = [fails EXCEPT ![d][c] = Capped(@ + 1, MaxFails)]
         /\ row' = [row EXCEPT ![d][c] = Capped(@ + 1, MaxFails)]
         /\ Gets(d, c, resolve(fails[d][c] + 1, prev[d][c]))

PollFails(d, c) ==
  /\ At(d, c) /\ attempt[d] > 0
  /\ Reads(d, c, Err)
  /\ Fails(d, c)
  /\ UNCHANGED <<data, naks, rejected, unsupported, deviceVars, selectVars, task>>

\* The NAK that suppresses the command ends its poll without counting a failure.
PollNak(d, c) ==
  /\ At(d, c) /\ attempt[d] > 0
  /\ Reads(d, c, Nak)
  /\ NotesNak(d, c)
  /\ IF <<d, c>> \in unsupported \/ Suppressed(d, c)
       THEN Gets(d, c, prev[d][c]) /\ UNCHANGED <<fails, row>>
       ELSE Fails(d, c)
  /\ UNCHANGED <<data, deviceVars, selectVars, task>>

\* fetch_device_guarded: with several devices, a slow one is frozen for this cycle.
DeviceTimesOut(d) ==
  /\ Cardinality(Devs) + Others > 1
  /\ \E c \in Cmds : At(d, c)
  /\ got' = [got EXCEPT ![d] = prev[d]]
  /\ attempt' = [attempt EXCEPT ![d] = 0]
  /\ stuck' = stuck \cup {d}
  /\ Fault
  /\ UNCHANGED <<data, prev, polling, cycle, ok, countVars, cache, deviceVars, selectVars, task>>

\* The cycle is over: what it knew is forgotten.
Forgets ==
  /\ polling' = FALSE
  /\ prev' = Each(Nothing) /\ got' = Each(Nothing)
  /\ attempt' = [d \in Devs |-> 0] /\ stuck' = {}

\* The coordinator's data is replaced; listeners are told if it differs from the data
\* at the beginning of the cycle, as every device read in it makes it (timestamp).
CyclePublishes ==
  /\ polling /\ \A d \in Devs, c \in Cmds : got[d][c] # Todo
  /\ data' = got
  /\ cycle' = (cycle + 1) % CycleModulus
  /\ ok' = TRUE
  /\ LET silent == ok /\ stuck = Devs
     IN  \/ silent /\ UNCHANGED selectVars
         \/ (silent => Others > 0) /\ Listens(got)
  /\ Forgets
  /\ UNCHANGED <<countVars, cache, deviceVars, task, faults>>

\* The cycle as a whole times out: nothing is published, the schedule does not
\* advance, and listeners are told of the first failure.
CycleTimesOut ==
  /\ polling /\ \E d \in Devs, c \in Cmds : At(d, c)
  /\ ok' = FALSE
  /\ IF ok THEN Listens(data) ELSE UNCHANGED selectVars
  /\ Forgets
  /\ Fault
  /\ UNCHANGED <<data, cycle, countVars, cache, deviceVars, task>>

-----------------------------------------------------------------------------
(* A choice: _set_and_confirm.                                              *)

Choose(t, o) ==
  /\ task[t] = Idle
  /\ task' = [task EXCEPT ![t] = [pc |-> "write", option |-> o, left |-> Tries]]
  /\ pending' = o /\ aged' = FALSE /\ shown' = o
  /\ UNCHANGED <<data, pollVars, countVars, cache, deviceVars, faults>>

Goes(t, pc, left) ==
  task' = [task EXCEPT ![t] = [pc |-> pc, option |-> task[t].option, left |-> left]]

Done(t) == task' = [task EXCEPT ![t] = [pc |-> "done", option |-> Nothing, left |-> 0]]

\* The device takes the value, at once or after a while.
Takes(o) ==
  /\ \/ real' = [real EXCEPT ![Sel] = o] /\ commit' = Nothing
     \/ commit' = o /\ UNCHANGED real
  /\ UNCHANGED modbus

Commits ==
  /\ commit # Nothing
  /\ real' = [real EXCEPT ![Sel] = commit] /\ commit' = Nothing
  /\ UNCHANGED <<modbus, data, pollVars, countVars, cache, selectVars, task, faults>>

\* _is_ack: what a Modbus write returns, {"status": "OK"}, is none.
IsAck == Sel \notin modbus

NextTry(t) == IF task[t].left > 1 THEN Goes(t, "write", task[t].left - 1)
                                  ELSE Goes(t, "confirm", Attempts)

\* The device takes the value and says so.
WriteAcked(t) ==
  /\ task[t].pc = "write"
  /\ Takes(task[t].option)
  /\ IF IsAck THEN Goes(t, "confirm", Attempts) ELSE NextTry(t)
  /\ UNCHANGED <<data, pollVars, countVars, cache, selectVars, faults>>

\* NAK, error or no reply: it may have been taken all the same.
WriteUnacked(t) ==
  /\ task[t].pc = "write"
  /\ Takes(task[t].option) \/ UNCHANGED deviceVars
  /\ NextTry(t)
  /\ Fault
  /\ UNCHANGED <<data, pollVars, countVars, cache, selectVars>>

\* The transport raises: the service call ends, the choice stays pending.
WriteRaises(t) ==
  /\ task[t].pc = "write"
  /\ Done(t)
  /\ Fault
  /\ UNCHANGED <<data, pollVars, countVars, cache, deviceVars, selectVars>>

\* One confirmation is over; the loop ends when the choice is no longer pending.
Confirmed(t) ==
  IF pending' = Nothing \/ task[t].left = 1 THEN Done(t)
                                            ELSE Goes(t, "confirm", task[t].left - 1)

\* async_refresh_command: the section is published over the data of the moment.
RefreshAnswered(t) ==
  /\ task[t].pc = "confirm"
  /\ \E s \in Sections :
       /\ Reads(Sel, Setting, s)
       /\ data' = [data EXCEPT ![Sel][Setting] = s]
  /\ Accepts(Sel, Setting)
  /\ ok' = TRUE
  /\ Listens(data')
  /\ Confirmed(t)
  /\ UNCHANGED <<prev, got, attempt, stuck, polling, cycle, deviceVars>>

RefreshFails(t) ==
  /\ task[t].pc = "confirm"
  /\ \E res \in {Err, Nak} :
       /\ Reads(Sel, Setting, res)
       /\ IF res = Nak THEN NotesNak(Sel, Setting) ELSE UNCHANGED <<naks, rejected, unsupported>>
  /\ UNCHANGED <<pending, aged, shown>>
  /\ Confirmed(t)
  /\ UNCHANGED <<data, pollVars, fails, row, deviceVars>>

Next ==
  \/ CycleBegins \/ CyclePublishes \/ CycleTimesOut
  \/ \E d \in Devs, c \in Cmds :
       \/ PollSkipped(d, c) \/ PollBegins(d, c)
       \/ PollAnswered(d, c) \/ PollFails(d, c) \/ PollNak(d, c)
  \/ \E d \in Devs : DeviceTimesOut(d) \/ CacheExpires(d)
  \/ \E t \in Tasks : \/ \E o \in Options : Choose(t, o)
                      \/ WriteAcked(t) \/ WriteUnacked(t) \/ WriteRaises(t)
                      \/ RefreshAnswered(t) \/ RefreshFails(t)
  \/ Commits \/ PendingAges

Spec == Init /\ [][Next]_vars

\* The update interval comes round, the bus answers or fails, time passes.
Fairness ==
  /\ WF_vars(CycleBegins) /\ WF_vars(CyclePublishes)
  /\ \A d \in Devs, c \in Cmds :
       WF_vars(\/ PollSkipped(d, c) \/ PollBegins(d, c)
               \/ PollAnswered(d, c) \/ PollFails(d, c) \/ PollNak(d, c))
  /\ \A d \in Devs : WF_vars(CacheExpires(d))
  /\ WF_vars(Commits) /\ WF_vars(PendingAges)

FairSpec == Spec /\ Fairness

-----------------------------------------------------------------------------
\* The failure counter is the number of polls in a row without an accepted answer,
\* whoever got the last one; a command that is still polled has fewer NAKs than suppress
\* it, and has had them all since the last accepted answer.
CountsAgree ==
  /\ fails = row
  /\ \A d \in Devs, c \in Cmds :
       <<d, c>> \notin unsupported => naks[d][c] < Threshold /\ naks[d][c] <= rejected[d][c]

\* A cycle has carried forward what was not due and frozen what was stuck; nothing is
\* left to reach when no cycle is in flight.
CycleCarries ==
  \A d \in Devs, c \in Cmds :
    /\ got[d][c] = Todo => polling
    /\ polling /\ (~Due(c) \/ d \in stuck) => got[d][c] = prev[d][c]

\* The section that contains the setting always says what it is, if anything.
SettingIsSaid ==
  \A d \in Devs : Live \notin {data[d][Setting], prev[d][Setting], got[d][Setting]}

\* A held choice is on display; only a held choice ages.
ChoiceIsShown == (pending # Nothing => shown = pending) /\ (aged => pending # Nothing)

\* A call that is under way has a value to write and an attempt left.
CallsHaveWork ==
  \A t \in Tasks : task[t].pc \in {"write", "confirm"} => /\ task[t].option \in Options
                                                        /\ task[t].left > 0

\* The state between the steps of _async_update_data, async_refresh_command,
\* _handle_coordinator_update and _set_and_confirm, in any order.
CoordinatorInv ==
  /\ CoordinatorTypeOK
  /\ CountsAgree
  /\ CycleCarries
  /\ SettingIsSaid
  /\ ChoiceIsShown
  /\ CallsHaveWork

\* _note_nak, _clear_nak_streak: a command is given up for the session only after
\* Threshold NAKs between which no read of it, poll or refresh, was accepted.
SuppressedOnlyByNaks ==
  [][\A d \in Devs, c \in Cmds :
       <<d, c>> \in unsupported' \ unsupported => rejected'[d][c] >= Threshold]_vars

\* FailureTracker: the verdict of a poll on a section with known data is to drop it
\* only if this was the MaxFails-th poll in a row without an accepted answer.
KnownDataIsFrozen ==
  [][\A d \in Devs, c \in Cmds :
       got[d][c] = Todo /\ got'[d][c] = Nothing /\ polling'
         => prev[d][c] = Nothing \/ row'[d][c] >= MaxFails]_vars

\* _handle_coordinator_update: what cycles and other refreshes publish does not take a
\* choice off the display before a read has shown it or _PENDING_TTL is over.
HeldUntilConfirmed ==
  [][pending # Nothing /\ ~aged /\ shown' # shown
       => \E t \in Tasks : task[t] = Idle /\ task'[t] # Idle]_vars

\* When choices and faults are over, the select comes to show what the device has,
\* whatever cache, cycle or pending choice was in between, unless the command that
\* reads it was given up.
Settles == <>[](shown = real[Sel] \/ <<Sel, Setting>> \in unsupported)

\* _set_and_confirm, async_refresh_command: a value that was confirmed does not revert
\* on the next scheduled poll.
ConfirmedStays ==
  [][pending = Nothing /\ shown = real[Sel] /\ real' = real /\ pending' = Nothing
       => shown' \in {shown, Nothing}]_vars
=============================================================================
