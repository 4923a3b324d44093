-------------------------- MODULE CoordinatorProofs --------------------------
(***************************************************************************)
(* Proofs about Coordinator for any sets of devices, options and calls,     *)
(* any schedule and any thresholds.                                         *)
(***************************************************************************)
EXTENDS Coordinator, TLAPS

-----------------------------------------------------------------------------
(* Facts about reads and counters.                                          *)

\* What a section says of a setting is known, and is an option in the setting's own.
LEMMA SectionSays ==
  ASSUME NEW c \in Cmds, NEW o \in Options
  PROVE  /\ Section(c, o) \in Sections
         /\ Section(c, o) \notin {Nothing, Todo, Err, Nak}
         /\ c = Setting => Section(c, o) \in Options
  BY SettingAssumption DEF Section, Sections

\* Reading leaves the cache and the fault count in their ranges, and an answer is
\* what the device or the cache says.
LEMMA ReadsAnswer ==
  ASSUME CoordinatorTypeOK, NEW d \in Devs, NEW c \in Cmds, NEW res, Reads(d, c, res)
  PROVE  /\ cache' \in [Devs -> Options \cup {Stale, Err}]
         /\ faults' \in 0..FaultBound
         /\ res \in Sections => \E o \in Options : res = Section(c, o)
  <1>1. cache \in [Devs -> Options \cup {Stale, Err}] /\ real[d] \in Options
        /\ faults \in 0..FaultBound /\ FaultBound \in Nat
    BY CoordinatorAssumption DEF CoordinatorTypeOK
  <1>2. \A x \in Options \cup {Err} : Stores(d, x) \in [Devs -> Options \cup {Stale, Err}]
    BY <1>1 DEF Stores
  <1>3. CASE Hit(d) /\ res = (IF cache[d] = Err THEN Err ELSE Section(c, cache[d]))
             /\ UNCHANGED <<cache, faults>>
    <2>1. cache[d] \in Options \cup {Err}
      BY <1>1, <1>3 DEF Hit
    <2>2. Err \notin Sections
      BY SettingAssumption DEF Sections
    <2>3. QED
      BY <1>1, <1>3, <2>1, <2>2
  <1>4. CASE res = Section(c, real[d]) /\ cache' = Stores(d, real[d]) /\ UNCHANGED faults
    BY <1>1, <1>2, <1>4
  <1>5. CASE res \in {Err} \cup (IF d \in modbus THEN {} ELSE {Nak})
             /\ cache' = Stores(d, Err) /\ Fault
    <2>1. res \notin Sections
      BY <1>5, SettingAssumption DEF Sections
    <2>2. faults' \in 0..FaultBound
      BY <1>1, <1>5 DEF Fault
    <2>3. QED
      BY <1>2, <1>5, <2>1, <2>2
  <1>6. QED
    BY <1>3, <1>4, <1>5 DEF Reads

-----------------------------------------------------------------------------
(* The counters.                                                            *)

\* The types of the counters.
CountsTypeOK ==
  /\ fails \in [Devs -> [Cmds -> 0..MaxFails]]
  /\ row \in [Devs -> [Cmds -> 0..MaxFails]]
  /\ naks \in [Devs -> [Cmds -> 0..Threshold]]
  /\ rejected \in [Devs -> [Cmds -> 0..Threshold]]
  /\ unsupported \in SUBSET (Devs \X Cmds)

\* An accepted answer ends every streak of the command.
LEMMA AcceptsCounts ==
  ASSUME CountsTypeOK, CountsAgree, NEW d \in Devs, NEW c \in Cmds, Accepts(d, c)
  PROVE  CountsTypeOK' /\ CountsAgree'
  <1>1. Threshold \in Nat \ {0} /\ MaxFails \in Nat \ {0}
    BY CoordinatorAssumption
  <1>2. CountsTypeOK'
    BY <1>1 DEF CountsTypeOK, Accepts, cleared_nak_streak, on_success
  <1>3. fails' = row'
    BY <1>1 DEF CountsTypeOK, CountsAgree, Accepts, on_success
  <1>4. ASSUME NEW e \in Devs, NEW k \in Cmds, <<e, k>> \notin unsupported'
        PROVE  naks'[e][k] < Threshold /\ naks'[e][k] <= rejected'[e][k]
    BY <1>1, <1>4 DEF CountsTypeOK, CountsAgree, Accepts, cleared_nak_streak
  <1>5. QED
    BY <1>2, <1>3, <1>4 DEF CountsAgree

\* A NAK keeps the count below the threshold or gives the command up.
LEMMA NotesNakCounts ==
  ASSUME CountsTypeOK, CountsAgree, NEW d \in Devs, NEW c \in Cmds, NotesNak(d, c)
  PROVE  /\ naks' \in [Devs -> [Cmds -> 0..Threshold]]
         /\ rejected' \in [Devs -> [Cmds -> 0..Threshold]]
         /\ unsupported' \in SUBSET (Devs \X Cmds)
         /\ \A e \in Devs, k \in Cmds :
              <<e, k>> \notin unsupported' => /\ naks'[e][k] < Threshold
                                              /\ naks'[e][k] <= rejected'[e][k]
         /\ \A e \in Devs, k \in Cmds :
              <<e, k>> \in unsupported' \ unsupported => rejected'[e][k] >= Threshold
  <1>1. Threshold \in Nat \ {0} /\ naks[d][c] \in 0..Threshold /\ rejected[d][c] \in 0..Threshold
    BY CoordinatorAssumption DEF CountsTypeOK
  <1>2. Capped(rejected[d][c] + 1, Threshold) \in 0..Threshold
        /\ rejected[d][c] <= Capped(rejected[d][c] + 1, Threshold)
        /\ \A n \in 0..Threshold : n <= rejected[d][c] + 1 => n <= Capped(rejected[d][c] + 1, Threshold)
    BY <1>1 DEF Capped
  <1>3. rejected' = [rejected EXCEPT ![d][c] = Capped(rejected[d][c] + 1, Threshold)]
    BY DEF NotesNak
  <1>4. rejected' \in [Devs -> [Cmds -> 0..Threshold]]
    BY <1>2, <1>3 DEF CountsTypeOK
  <1>5. \A e \in Devs, k \in Cmds : rejected'[e][k] = IF e = d /\ k = c
                                      THEN Capped(rejected[d][c] + 1, Threshold) ELSE rejected[e][k]
    BY <1>3 DEF CountsTypeOK
  <1>6. CASE <<d, c>> \in unsupported
    BY <1>1, <1>2, <1>4, <1>5, <1>6 DEF NotesNak, CountsTypeOK, CountsAgree
  <1>7. CASE <<d, c>> \notin unsupported
    <2>1. naks[d][c] < Threshold /\ naks[d][c] <= rejected[d][c]
      BY <1>7 DEF CountsAgree
    <2>2. naks' = [naks EXCEPT ![d][c] = naks[d][c] + 1] /\ naks[d][c] + 1 \in 0..Threshold
      BY <1>1, <1>7, <2>1 DEF NotesNak
    <2>3. naks' \in [Devs -> [Cmds -> 0..Threshold]]
      BY <2>2 DEF CountsTypeOK
    <2>4. \A e \in Devs, k \in Cmds : naks'[e][k] = IF e = d /\ k = c
                                        THEN naks[d][c] + 1 ELSE naks[e][k]
      BY <2>2 DEF CountsTypeOK
    <2>5. unsupported' = IF naks[d][c] + 1 >= Threshold THEN unsupported \cup {<<d, c>>}
                                                         ELSE unsupported
      BY <1>7 DEF NotesNak, Suppressed
    <2>6. unsupported' \in SUBSET (Devs \X Cmds)
      BY <2>5 DEF CountsTypeOK
    <2>7. ASSUME NEW e \in Devs, NEW k \in Cmds, <<e, k>> \notin unsupported'
          PROVE  naks'[e][k] < Threshold /\ naks'[e][k] <= rejected'[e][k]
      <3>1. CASE e = d /\ k = c
        BY <1>1, <1>2, <1>5, <2>1, <2>2, <2>4, <2>5, <2>7, <3>1
      <3>2. CASE ~(e = d /\ k = c)
        BY <1>5, <2>4, <2>5, <2>7, <3>2 DEF CountsAgree
      <3>3. QED
        BY <3>1, <3>2
    <2>8. ASSUME NEW e \in Devs, NEW k \in Cmds, <<e, k>> \in unsupported' \ unsupported
          PROVE  rejected'[e][k] >= Threshold
      <3>1. e = d /\ k = c /\ naks[d][c] + 1 >= Threshold
        BY <2>5, <2>8
      <3>2. QED
        BY <1>1, <1>2, <1>5, <2>1, <2>2, <3>1
    <2>9. QED
      BY <1>4, <2>3, <2>6, <2>7, <2>8
  <1>8. QED
    BY <1>6, <1>7

\* A failed attempt counts the same on both sides, and its verdict is the frozen
\* section or, at the limit only, none.
LEMMA FailsCounts ==
  ASSUME CountsTypeOK, CountsAgree, NEW d \in Devs, NEW c \in Cmds, Fails(d, c)
  PROVE  /\ fails' \in [Devs -> [Cmds -> 0..MaxFails]]
         /\ fails' = row'
         /\ \/ UNCHANGED <<got, prev, stuck, polling, cycle, ok>>
               /\ attempt' = [attempt EXCEPT ![d] = 2]
            \/ \E s \in {prev[d][c], Nothing} :
                 /\ Gets(d, c, s)
                 /\ s = prev[d][c] \/ row'[d][c] >= MaxFails
  <1>1. MaxFails \in Nat \ {0} /\ fails[d][c] \in 0..MaxFails
    BY CoordinatorAssumption DEF CountsTypeOK
  <1>2. Capped(fails[d][c] + 1, MaxFails) \in 0..MaxFails
    BY <1>1 DEF Capped
  <1>3. CASE attempt[d] = 1
    BY <1>3 DEF Fails, CountsTypeOK, CountsAgree
  <1>4. CASE attempt[d] # 1
    <2>1. fails' = [fails EXCEPT ![d][c] = Capped(fails[d][c] + 1, MaxFails)] /\ fails' = row'
      BY <1>4 DEF Fails, CountsAgree
    <2>2. fails' \in [Devs -> [Cmds -> 0..MaxFails]] /\ row'[d][c] = Capped(fails[d][c] + 1, MaxFails)
      BY <1>2, <2>1 DEF CountsTypeOK
    <2>3. Gets(d, c, resolve(fails[d][c] + 1, prev[d][c]))
      BY <1>4 DEF Fails
    <2>4. CASE fails[d][c] + 1 < MaxFails
      BY <2>1, <2>2, <2>3, <2>4 DEF resolve
    <2>5. CASE ~(fails[d][c] + 1 < MaxFails)
      BY <1>1, <2>1, <2>2, <2>3, <2>5 DEF resolve, Capped
    <2>6. QED
      BY <2>4, <2>5
  <1>5. QED
    BY <1>3, <1>4

-----------------------------------------------------------------------------
(* The other parts of the state.                                            *)

\* The types of what the coordinator, the devices, the select and the calls keep.
PollTypeOK ==
  /\ data \in [Devs -> [Cmds -> Sections]]
  /\ prev \in [Devs -> [Cmds -> Sections]]
  /\ got \in [Devs -> [Cmds -> Sections \cup {Todo}]]
  /\ attempt \in [Devs -> 0..2]
  /\ stuck \in SUBSET Devs
  /\ polling \in BOOLEAN /\ ok \in BOOLEAN
  /\ cycle \in 0..(CycleModulus - 1)

DeviceTypeOK ==
  /\ modbus \in SUBSET Devs
  /\ real \in [Devs -> Options]
  /\ commit \in Options \cup {Nothing}

ReadTypeOK ==
  /\ cache \in [Devs -> Options \cup {Stale, Err}]
  /\ faults \in 0..FaultBound

SelectTypeOK ==
  /\ pending \in Options \cup {Nothing}
  /\ shown \in Options \cup {Nothing}
  /\ aged \in BOOLEAN

TaskTypeOK ==
  task \in [Tasks -> [pc : {"idle", "write", "confirm", "done"},
                      option : Options \cup {Nothing}, left : 0..(Tries + Attempts)]]

\* CoordinatorInv, by who changes what.
PollInv   == PollTypeOK /\ CycleCarries /\ SettingIsSaid
CountsInv == CountsTypeOK /\ CountsAgree
SelectInv == SelectTypeOK /\ ChoiceIsShown
TaskInv   == TaskTypeOK /\ CallsHaveWork

\* The invariant is its parts.
LEMMA InvParts ==
  CoordinatorInv <=> /\ PollInv /\ CountsInv /\ SelectInv /\ TaskInv
                     /\ DeviceTypeOK /\ ReadTypeOK
  BY DEF CoordinatorInv, CoordinatorTypeOK, PollInv, CountsInv, SelectInv, TaskInv,
         PollTypeOK, CountsTypeOK, SelectTypeOK, TaskTypeOK, DeviceTypeOK, ReadTypeOK

\* The same of the next state.
LEMMA InvPartsNext ==
  ASSUME PollInv', CountsInv', SelectInv', TaskInv', DeviceTypeOK', ReadTypeOK'
  PROVE  CoordinatorInv'
  BY DEF CoordinatorInv, CoordinatorTypeOK, PollInv, CountsInv, SelectInv, TaskInv,
         PollTypeOK, CountsTypeOK, SelectTypeOK, TaskTypeOK, DeviceTypeOK, ReadTypeOK

\* A step that leaves the cycle alone.
LEMMA PollFrame ==
  ASSUME PollInv, UNCHANGED <<data, pollVars>>
  PROVE  PollInv'
  BY DEF PollInv, PollTypeOK, CycleCarries, SettingIsSaid, Due, pollVars

\* A step that leaves the counters alone.
LEMMA CountsFrame ==
  ASSUME CountsInv, UNCHANGED countVars
  PROVE  CountsInv'
  BY DEF CountsInv, CountsTypeOK, CountsAgree, countVars

\* A step that leaves the select alone.
LEMMA SelectFrame ==
  ASSUME SelectInv, UNCHANGED selectVars
  PROVE  SelectInv'
  BY DEF SelectInv, SelectTypeOK, ChoiceIsShown, selectVars

\* A step that leaves the calls alone.
LEMMA TaskFrame ==
  ASSUME TaskInv, UNCHANGED task
  PROVE  TaskInv'
  BY DEF TaskInv, TaskTypeOK, CallsHaveWork

\* A step that leaves the devices alone.
LEMMA DeviceFrame ==
  ASSUME DeviceTypeOK, UNCHANGED deviceVars
  PROVE  DeviceTypeOK'
  BY DEF DeviceTypeOK, deviceVars

\* A fault counts at most to its bound.
LEMMA FaultCounted ==
  ASSUME ReadTypeOK, UNCHANGED cache, Fault \/ UNCHANGED faults
  PROVE  ReadTypeOK'
  BY CoordinatorAssumption DEF ReadTypeOK, Fault

\* Publishing shows the new value or holds the choice.
LEMMA ListensShows ==
  ASSUME SelectInv, NEW new, new[Sel][Setting] \in Options \cup {Nothing}, Listens(new)
  PROVE  /\ SelectInv'
         /\ pending # Nothing /\ ~aged => shown' = shown
  <1>1. CASE Held(new[Sel][Setting])
    BY <1>1 DEF Listens, SelectInv, SelectTypeOK, ChoiceIsShown, Held
  <1>2. CASE ~Held(new[Sel][Setting])
    BY <1>2 DEF Listens, SelectInv, SelectTypeOK, ChoiceIsShown, Held
  <1>3. QED
    BY <1>1, <1>2

\* A command that the cycle has reached is due, on a device that is not stuck; what
\* it gets is all that changes.
LEMMA GetsCarries ==
  ASSUME PollInv, NEW d \in Devs, NEW c \in Cmds, NEW s \in Sections, At(d, c),
         Gets(d, c, s), UNCHANGED data, c = Setting => s # Live
  PROVE  PollInv'
  <1>1. PollTypeOK'
    BY DEF PollInv, PollTypeOK, Gets
  <1>2. \A e \in Devs, k \in Cmds : got'[e][k] = IF e = d /\ k = c THEN s ELSE got[e][k]
    BY DEF PollInv, PollTypeOK, Gets
  <1>3. Due(c) /\ d \notin stuck /\ polling
    <2>1. prev[d][c] # Todo
      BY SettingAssumption DEF PollInv, PollTypeOK, Sections
    <2>2. QED
      BY <2>1 DEF PollInv, CycleCarries, At
  <1>4. CycleCarries'
    BY <1>2, <1>3 DEF PollInv, CycleCarries, Gets, Due
  <1>5. SettingIsSaid'
    BY <1>2, SettingAssumption DEF PollInv, SettingIsSaid, Gets
  <1>6. QED
    BY <1>1, <1>4, <1>5 DEF PollInv

\* What the snapshot or nothing says is a section.
LEMMA FrozenSection ==
  ASSUME PollInv, NEW d \in Devs, NEW c \in Cmds, NEW s \in {prev[d][c], Nothing}
  PROVE  s \in Sections /\ (c = Setting => s # Live)
  BY SettingAssumption DEF PollInv, PollTypeOK, SettingIsSaid, Sections

\* A failed attempt leaves the cycle consistent.
LEMMA FailsCarries ==
  ASSUME PollInv, CountsInv, NEW d \in Devs, NEW c \in Cmds, At(d, c), Fails(d, c),
         UNCHANGED data
  PROVE  PollInv'
  <1>1. CASE /\ UNCHANGED <<got, prev, stuck, polling, cycle, ok>>
             /\ attempt' = [attempt EXCEPT ![d] = 2]
    BY <1>1 DEF PollInv, PollTypeOK, CycleCarries, SettingIsSaid, Due
  <1>2. ASSUME NEW s \in {prev[d][c], Nothing}, Gets(d, c, s)
        PROVE  PollInv'
    BY <1>2, FrozenSection, GetsCarries
  <1>3. QED
    BY <1>1, <1>2, FailsCounts DEF CountsInv

-----------------------------------------------------------------------------
(* The steps of the cycle.                                                  *)

\* CycleBegins keeps the invariant.
LEMMA CycleBeginsInv ==
  ASSUME CoordinatorInv, CycleBegins
  PROVE  CoordinatorInv'
  <1>0. /\ PollInv /\ CountsInv /\ SelectInv /\ TaskInv /\ DeviceTypeOK /\ ReadTypeOK
    BY InvParts
  <1>1. \A e \in Devs, k \in Cmds : /\ got'[e][k] = IF Due(k) THEN Todo ELSE data[e][k]
                                    /\ prev'[e][k] = data[e][k]
    BY DEF CycleBegins
  <1>2. PollTypeOK'
    BY <1>0 DEF PollInv, PollTypeOK, CycleBegins
  <1>3. CycleCarries'
    BY <1>1 DEF CycleCarries, CycleBegins, Due
  <1>4. SettingIsSaid'
    BY <1>0, <1>1, SettingAssumption DEF PollInv, SettingIsSaid, CycleBegins
  <1>5. PollInv'
    BY <1>2, <1>3, <1>4 DEF PollInv
  <1>6. CountsInv' /\ SelectInv' /\ TaskInv' /\ DeviceTypeOK' /\ ReadTypeOK'
    BY <1>0, CountsFrame, SelectFrame, TaskFrame, DeviceFrame, FaultCounted DEF CycleBegins
  <1>7. QED
    BY <1>5, <1>6, InvPartsNext

\* PollSkipped keeps the invariant.
LEMMA PollSkippedInv ==
  ASSUME CoordinatorInv, NEW d \in Devs, NEW c \in Cmds, PollSkipped(d, c)
  PROVE  CoordinatorInv'
  <1>0. /\ PollInv /\ CountsInv /\ SelectInv /\ TaskInv /\ DeviceTypeOK /\ ReadTypeOK
    BY InvParts
  <1>1. PollInv'
    BY <1>0, FrozenSection, GetsCarries DEF PollSkipped
  <1>2. CountsInv' /\ SelectInv' /\ TaskInv' /\ DeviceTypeOK' /\ ReadTypeOK'
    BY <1>0, CountsFrame, SelectFrame, TaskFrame, DeviceFrame, FaultCounted DEF PollSkipped
  <1>3. QED
    BY <1>1, <1>2, InvPartsNext

\* PollBegins keeps the invariant.
LEMMA PollBeginsInv ==
  ASSUME CoordinatorInv, NEW d \in Devs, NEW c \in Cmds, PollBegins(d, c)
  PROVE  CoordinatorInv'
  <1>0. /\ PollInv /\ CountsInv /\ SelectInv /\ TaskInv /\ DeviceTypeOK /\ ReadTypeOK
    BY InvParts
  <1>1. PollInv'
    BY <1>0 DEF PollInv, PollTypeOK, CycleCarries, SettingIsSaid, Due, PollBegins
  <1>2. CountsInv' /\ SelectInv' /\ TaskInv' /\ DeviceTypeOK' /\ ReadTypeOK'
    BY <1>0, CountsFrame, SelectFrame, TaskFrame, DeviceFrame, FaultCounted DEF PollBegins
  <1>3. QED
    BY <1>1, <1>2, InvPartsNext

\* PollAnswered keeps the invariant.
LEMMA PollAnsweredInv ==
  ASSUME CoordinatorInv, NEW d \in Devs, NEW c \in Cmds, PollAnswered(d, c)
  PROVE  CoordinatorInv'
  <1>0. /\ PollInv /\ CountsInv /\ SelectInv /\ TaskInv /\ DeviceTypeOK /\ ReadTypeOK
        /\ CoordinatorTypeOK
    BY InvParts DEF CoordinatorInv
  <1>1. PICK s \in Sections : Reads(d, c, s) /\ Gets(d, c, s)
    BY DEF PollAnswered
  <1>2. ReadTypeOK' /\ \E o \in Options : s = Section(c, o)
    BY <1>0, <1>1, ReadsAnswer DEF ReadTypeOK
  <1>3. c = Setting => s # Live
    BY <1>2, SectionSays, SettingAssumption
  <1>4. PollInv'
    BY <1>0, <1>1, <1>3, GetsCarries DEF PollAnswered
  <1>5. CountsInv'
    BY <1>0, AcceptsCounts DEF PollAnswered, CountsInv
  <1>6. SelectInv' /\ TaskInv' /\ DeviceTypeOK'
    BY <1>0, SelectFrame, TaskFrame, DeviceFrame DEF PollAnswered
  <1>7. QED
    BY <1>2, <1>4, <1>5, <1>6, InvPartsNext

\* PollFails keeps the invariant.
LEMMA PollFailsInv ==
  ASSUME CoordinatorInv, NEW d \in Devs, NEW c \in Cmds, PollFails(d, c)
  PROVE  CoordinatorInv'
  <1>0. /\ PollInv /\ CountsInv /\ SelectInv /\ TaskInv /\ DeviceTypeOK /\ ReadTypeOK
        /\ CoordinatorTypeOK
    BY InvParts DEF CoordinatorInv
  <1>1. ReadTypeOK'
    BY <1>0, ReadsAnswer DEF PollFails, ReadTypeOK
  <1>2. PollInv'
    BY <1>0, FailsCarries DEF PollFails
  <1>3. fails' \in [Devs -> [Cmds -> 0..MaxFails]] /\ fails' = row'
    BY <1>0, FailsCounts DEF PollFails, CountsInv
  <1>4. CountsInv'
    BY <1>0, <1>3 DEF PollFails, CountsInv, CountsTypeOK, CountsAgree
  <1>5. SelectInv' /\ TaskInv' /\ DeviceTypeOK'
    BY <1>0, SelectFrame, TaskFrame, DeviceFrame DEF PollFails
  <1>6. QED
    BY <1>1, <1>2, <1>4, <1>5, InvPartsNext

\* PollNak keeps the invariant.
LEMMA PollNakInv ==
  ASSUME CoordinatorInv, NEW d \in Devs, NEW c \in Cmds, PollNak(d, c)
  PROVE  CoordinatorInv'
  <1>0. /\ PollInv /\ CountsInv /\ SelectInv /\ TaskInv /\ DeviceTypeOK /\ ReadTypeOK
        /\ CoordinatorTypeOK
    BY InvParts DEF CoordinatorInv
  <1>1. ReadTypeOK'
    BY <1>0, ReadsAnswer DEF PollNak, ReadTypeOK
  <1>2. ASSUME Gets(d, c, prev[d][c]), UNCHANGED <<fails, row>>
        PROVE  PollInv' /\ fails' \in [Devs -> [Cmds -> 0..MaxFails]] /\ fails' = row'
    <2>1. PollInv'
      BY <1>0, <1>2, FrozenSection, GetsCarries DEF PollNak
    <2>2. QED
      BY <1>0, <1>2, <2>1 DEF CountsInv, CountsTypeOK, CountsAgree
  <1>3. ASSUME Fails(d, c)
        PROVE  PollInv' /\ fails' \in [Devs -> [Cmds -> 0..MaxFails]] /\ fails' = row'
    <2>1. PollInv'
      BY <1>0, <1>3, FailsCarries DEF PollNak
    <2>2. fails' \in [Devs -> [Cmds -> 0..MaxFails]] /\ fails' = row'
      BY <1>0, <1>3, FailsCounts DEF CountsInv
    <2>3. QED
      BY <2>1, <2>2
  <1>4. PollInv' /\ fails' \in [Devs -> [Cmds -> 0..MaxFails]] /\ fails' = row'
    BY <1>2, <1>3 DEF PollNak
  <1>5. CountsInv'
    BY <1>0, <1>4, NotesNakCounts DEF PollNak, CountsInv, CountsTypeOK, CountsAgree
  <1>6. SelectInv' /\ TaskInv' /\ DeviceTypeOK'
    BY <1>0, SelectFrame, TaskFrame, DeviceFrame DEF PollNak
  <1>7. QED
    BY <1>1, <1>4, <1>5, <1>6, InvPartsNext

\* DeviceTimesOut keeps the invariant: the device is frozen on the snapshot.
LEMMA DeviceTimesOutInv ==
  ASSUME CoordinatorInv, NEW d \in Devs, DeviceTimesOut(d)
  PROVE  CoordinatorInv'
  <1>0. /\ PollInv /\ CountsInv /\ SelectInv /\ TaskInv /\ DeviceTypeOK /\ ReadTypeOK
    BY InvParts
  <1>1. \A e \in Devs, k \in Cmds : got'[e][k] = IF e = d THEN prev[d][k] ELSE got[e][k]
    BY <1>0 DEF DeviceTimesOut, PollInv, PollTypeOK
  <1>2. PollTypeOK'
    BY <1>0 DEF PollInv, PollTypeOK, DeviceTimesOut
  <1>3. polling /\ \A k \in Cmds : prev[d][k] # Todo
    BY <1>0, SettingAssumption DEF DeviceTimesOut, At, PollInv, PollTypeOK, Sections
  <1>4. CycleCarries'
    BY <1>0, <1>1, <1>3 DEF PollInv, CycleCarries, DeviceTimesOut, Due
  <1>5. SettingIsSaid'
    BY <1>0, <1>1, SettingAssumption DEF PollInv, SettingIsSaid, DeviceTimesOut
  <1>6. PollInv'
    BY <1>2, <1>4, <1>5 DEF PollInv
  <1>7. CountsInv' /\ SelectInv' /\ TaskInv' /\ DeviceTypeOK' /\ ReadTypeOK'
    BY <1>0, CountsFrame, SelectFrame, TaskFrame, DeviceFrame, FaultCounted DEF DeviceTimesOut
  <1>8. QED
    BY <1>6, <1>7, InvPartsNext

\* A cycle that is over leaves nothing behind but the data it has published.
LEMMA ForgetsCarries ==
  ASSUME PollInv, Forgets, data' \in [Devs -> [Cmds -> Sections]],
         \A e \in Devs : data'[e][Setting] # Live, ok' \in BOOLEAN,
         cycle' \in 0..(CycleModulus - 1)
  PROVE  PollInv'
  <1>1. \A e \in Devs, k \in Cmds : got'[e][k] = Nothing /\ prev'[e][k] = Nothing
    BY DEF Forgets, Each
  <1>2. PollTypeOK'
    <2>1. Each(Nothing) \in [Devs -> [Cmds -> Sections]]
      BY DEF Each, Sections
    <2>2. prev' \in [Devs -> [Cmds -> Sections]] /\ got' \in [Devs -> [Cmds -> Sections \cup {Todo}]]
      BY <2>1 DEF Forgets
    <2>3. attempt' \in [Devs -> 0..2]
      BY DEF Forgets
    <2>4. stuck' \in SUBSET Devs /\ polling' \in BOOLEAN
      BY DEF Forgets
    <2>5. QED
      BY <2>2, <2>3, <2>4 DEF PollTypeOK
  <1>3. CycleCarries'
    BY <1>1, SettingAssumption DEF CycleCarries, Forgets
  <1>4. SettingIsSaid'
    BY <1>1, SettingAssumption DEF SettingIsSaid
  <1>5. QED
    BY <1>2, <1>3, <1>4 DEF PollInv

\* CyclePublishes keeps the invariant.
LEMMA CyclePublishesInv ==
  ASSUME CoordinatorInv, CyclePublishes
  PROVE  CoordinatorInv'
  <1>0. /\ PollInv /\ CountsInv /\ SelectInv /\ TaskInv /\ DeviceTypeOK /\ ReadTypeOK
    BY InvParts
  <1>1. got \in [Devs -> [Cmds -> Sections]]
    BY <1>0 DEF CyclePublishes, PollInv, PollTypeOK
  <1>2. \A e \in Devs : got[e][Setting] # Live
    BY <1>0 DEF PollInv, SettingIsSaid
  <1>3. cycle' \in 0..(CycleModulus - 1)
    BY <1>0, CoordinatorAssumption DEF CyclePublishes, PollInv, PollTypeOK
  <1>4. PollInv'
    BY <1>0, <1>1, <1>2, <1>3, ForgetsCarries DEF CyclePublishes
  <1>5. got[Sel][Setting] \in Options \cup {Nothing}
    BY <1>1, <1>2, CoordinatorAssumption, SettingAssumption DEF Sections
  <1>6. SelectInv'
    BY <1>0, <1>5, SelectFrame, ListensShows DEF CyclePublishes
  <1>7. CountsInv' /\ TaskInv' /\ DeviceTypeOK' /\ ReadTypeOK'
    BY <1>0, CountsFrame, TaskFrame, DeviceFrame, FaultCounted DEF CyclePublishes
  <1>8. QED
    BY <1>4, <1>6, <1>7, InvPartsNext

\* CycleTimesOut keeps the invariant.
LEMMA CycleTimesOutInv ==
  ASSUME CoordinatorInv, CycleTimesOut
  PROVE  CoordinatorInv'
  <1>0. /\ PollInv /\ CountsInv /\ SelectInv /\ TaskInv /\ DeviceTypeOK /\ ReadTypeOK
    BY InvParts
  <1>1. PollInv'
    BY <1>0, ForgetsCarries DEF CycleTimesOut, PollInv, PollTypeOK, SettingIsSaid
  <1>2. data[Sel][Setting] \in Options \cup {Nothing}
    BY <1>0, CoordinatorAssumption, SettingAssumption
       DEF Sections, PollInv, PollTypeOK, SettingIsSaid
  <1>3. SelectInv'
    BY <1>0, <1>2, SelectFrame, ListensShows DEF CycleTimesOut
  <1>4. CountsInv' /\ TaskInv' /\ DeviceTypeOK' /\ ReadTypeOK'
    BY <1>0, CountsFrame, TaskFrame, DeviceFrame, FaultCounted DEF CycleTimesOut
  <1>5. QED
    BY <1>1, <1>3, <1>4, InvPartsNext

-----------------------------------------------------------------------------
(* The steps of the devices, the select and its calls.                      *)

\* A call that goes on keeps its value and has attempts left.
LEMMA GoesWorks ==
  ASSUME TaskInv, NEW t \in Tasks, task[t].pc \in {"write", "confirm"},
         NEW pc \in {"write", "confirm"}, NEW left \in 1..(Tries + Attempts),
         Goes(t, pc, left)
  PROVE  TaskInv'
  <1> DEFINE next == [pc |-> pc, option |-> task[t].option, left |-> left]
  <1>1. task' = [task EXCEPT ![t] = next]
    BY DEF Goes
  <1>2. /\ next \in [pc : {"idle", "write", "confirm", "done"},
                    option : Options \cup {Nothing}, left : 0..(Tries + Attempts)]
        /\ next.pc = pc /\ next.option = task[t].option /\ next.left = left
    BY CoordinatorAssumption DEF TaskInv, TaskTypeOK
  <1>3. task[t].option \in Options
    BY DEF TaskInv, CallsHaveWork
  <1> HIDE DEF next
  <1>4. TaskTypeOK'
    BY <1>1, <1>2 DEF TaskInv, TaskTypeOK
  <1>5. CallsHaveWork'
    BY <1>1, <1>2, <1>3 DEF TaskInv, TaskTypeOK, CallsHaveWork
  <1>6. QED
    BY <1>4, <1>5 DEF TaskInv

\* A call that has ended has no work.
LEMMA DoneWorks ==
  ASSUME TaskInv, NEW t \in Tasks, Done(t)
  PROVE  TaskInv'
  <1>1. TaskTypeOK'
    BY CoordinatorAssumption DEF TaskInv, TaskTypeOK, Done
  <1>2. CallsHaveWork'
    BY DEF TaskInv, TaskTypeOK, CallsHaveWork, Done
  <1>3. QED
    BY <1>1, <1>2 DEF TaskInv

\* The attempts that a call has left are in their range.
LEMMA LeftRange ==
  ASSUME TaskInv, NEW t \in Tasks, task[t].pc \in {"write", "confirm"}
  PROVE  /\ task[t].left \in 1..(Tries + Attempts)
         /\ task[t].left # 1 => task[t].left - 1 \in 1..(Tries + Attempts)
         /\ Attempts \in 1..(Tries + Attempts) /\ Tries \in 1..(Tries + Attempts)
  <1>1. task[t].left \in 0..(Tries + Attempts) /\ task[t].left > 0
    BY DEF TaskInv, TaskTypeOK, CallsHaveWork
  <1>2. QED
    BY <1>1, CoordinatorAssumption

\* Writing again, or going on to the confirmation.
LEMMA NextTryWorks ==
  ASSUME TaskInv, NEW t \in Tasks, task[t].pc = "write",
         NextTry(t) \/ Goes(t, "confirm", Attempts)
  PROVE  TaskInv'
  BY LeftRange, GoesWorks DEF NextTry

\* One more confirmation, or the end.
LEMMA ConfirmedWorks ==
  ASSUME TaskInv, NEW t \in Tasks, task[t].pc = "confirm", Confirmed(t)
  PROVE  TaskInv'
  BY LeftRange, GoesWorks, DoneWorks DEF Confirmed

\* A value that is taken is an option.
LEMMA TakesOption ==
  ASSUME DeviceTypeOK, NEW o \in Options, Takes(o) \/ UNCHANGED deviceVars
  PROVE  DeviceTypeOK'
  BY CoordinatorAssumption DEF DeviceTypeOK, Takes, deviceVars

\* CacheExpires keeps the invariant.
LEMMA CacheExpiresInv ==
  ASSUME CoordinatorInv, NEW d \in Devs, CacheExpires(d)
  PROVE  CoordinatorInv'
  <1>0. /\ PollInv /\ CountsInv /\ SelectInv /\ TaskInv /\ DeviceTypeOK /\ ReadTypeOK
    BY InvParts
  <1>1. ReadTypeOK'
    BY <1>0 DEF ReadTypeOK, CacheExpires
  <1>2. PollInv' /\ CountsInv' /\ SelectInv' /\ TaskInv' /\ DeviceTypeOK'
    BY <1>0, PollFrame, CountsFrame, SelectFrame, TaskFrame, DeviceFrame DEF CacheExpires
  <1>3. QED
    BY <1>1, <1>2, InvPartsNext

\* Commits keeps the invariant.
LEMMA CommitsInv ==
  ASSUME CoordinatorInv, Commits
  PROVE  CoordinatorInv'
  <1>0. /\ PollInv /\ CountsInv /\ SelectInv /\ TaskInv /\ DeviceTypeOK /\ ReadTypeOK
    BY InvParts
  <1>1. DeviceTypeOK'
    BY <1>0 DEF DeviceTypeOK, Commits
  <1>2. PollInv' /\ CountsInv' /\ SelectInv' /\ TaskInv' /\ ReadTypeOK'
    BY <1>0, PollFrame, CountsFrame, SelectFrame, TaskFrame, FaultCounted DEF Commits
  <1>3. QED
    BY <1>1, <1>2, InvPartsNext

\* PendingAges keeps the invariant.
LEMMA PendingAgesInv ==
  ASSUME CoordinatorInv, PendingAges
  PROVE  CoordinatorInv'
  <1>0. /\ PollInv /\ CountsInv /\ SelectInv /\ TaskInv /\ DeviceTypeOK /\ ReadTypeOK
    BY InvParts
  <1>1. SelectInv'
    BY <1>0 DEF SelectInv, SelectTypeOK, ChoiceIsShown, PendingAges
  <1>2. PollInv' /\ CountsInv' /\ TaskInv' /\ DeviceTypeOK' /\ ReadTypeOK'
    BY <1>0, PollFrame, CountsFrame, TaskFrame, DeviceFrame, FaultCounted DEF PendingAges
  <1>3. QED
    BY <1>1, <1>2, InvPartsNext

\* Choose keeps the invariant.
LEMMA ChooseInv ==
  ASSUME CoordinatorInv, NEW t \in Tasks, NEW o \in Options, Choose(t, o)
  PROVE  CoordinatorInv'
  <1>0. /\ PollInv /\ CountsInv /\ SelectInv /\ TaskInv /\ DeviceTypeOK /\ ReadTypeOK
    BY InvParts
  <1>1. SelectInv'
    BY SettingAssumption DEF SelectInv, SelectTypeOK, ChoiceIsShown, Choose
  <1>2. TaskTypeOK'
    BY <1>0, CoordinatorAssumption DEF TaskInv, TaskTypeOK, Choose
  <1>3. CallsHaveWork'
    BY <1>0, CoordinatorAssumption DEF TaskInv, TaskTypeOK, CallsHaveWork, Choose
  <1>4. PollInv' /\ CountsInv' /\ DeviceTypeOK' /\ ReadTypeOK'
    BY <1>0, PollFrame, CountsFrame, DeviceFrame, FaultCounted DEF Choose
  <1>5. QED
    BY <1>1, <1>2, <1>3, <1>4, InvPartsNext DEF TaskInv

\* The writes keep the invariant, whatever their outcome.
LEMMA WriteInv ==
  ASSUME CoordinatorInv, NEW t \in Tasks,
         WriteAcked(t) \/ WriteUnacked(t) \/ WriteRaises(t)
  PROVE  CoordinatorInv'
  <1>0. /\ PollInv /\ CountsInv /\ SelectInv /\ TaskInv /\ DeviceTypeOK /\ ReadTypeOK
    BY InvParts
  <1>1. task[t].option \in Options
    BY <1>0 DEF TaskInv, CallsHaveWork, WriteAcked, WriteUnacked, WriteRaises
  <1>2. DeviceTypeOK'
    BY <1>0, <1>1, TakesOption DEF WriteAcked, WriteUnacked, WriteRaises
  <1>3. TaskInv'
    BY <1>0, NextTryWorks, DoneWorks DEF WriteAcked, WriteUnacked, WriteRaises
  <1>4. PollInv' /\ CountsInv' /\ SelectInv' /\ ReadTypeOK'
    BY <1>0, PollFrame, CountsFrame, SelectFrame, FaultCounted
       DEF WriteAcked, WriteUnacked, WriteRaises
  <1>5. QED
    BY <1>2, <1>3, <1>4, InvPartsNext

\* RefreshAnswered keeps the invariant, in the middle of a cycle too.
LEMMA RefreshAnsweredInv ==
  ASSUME CoordinatorInv, NEW t \in Tasks, RefreshAnswered(t)
  PROVE  CoordinatorInv'
  <1>0. /\ PollInv /\ CountsInv /\ SelectInv /\ TaskInv /\ DeviceTypeOK /\ ReadTypeOK
        /\ CoordinatorTypeOK
    BY InvParts DEF CoordinatorInv
  <1>1. PICK s \in Sections : /\ Reads(Sel, Setting, s)
                              /\ data' = [data EXCEPT ![Sel][Setting] = s]
    BY DEF RefreshAnswered
  <1>2. Sel \in Devs /\ Setting \in Cmds
    BY CoordinatorAssumption, SettingAssumption
  <1>3. ReadTypeOK' /\ \E o \in Options : s = Section(Setting, o)
    BY <1>0, <1>1, <1>2, ReadsAnswer DEF ReadTypeOK
  <1>4. s \in Options /\ s # Live
    BY <1>2, <1>3, SectionSays, SettingAssumption
  <1>5. data' \in [Devs -> [Cmds -> Sections]]
    BY <1>0, <1>1 DEF PollInv, PollTypeOK
  <1>6. \A e \in Devs : data'[e][Setting] = IF e = Sel THEN s ELSE data[e][Setting]
    BY <1>0, <1>1, <1>2 DEF PollInv, PollTypeOK
  <1>7. PollInv'
    <2>1. PollTypeOK'
      BY <1>0, <1>5 DEF PollInv, PollTypeOK, RefreshAnswered
    <2>2. CycleCarries'
      BY <1>0 DEF PollInv, CycleCarries, RefreshAnswered, Due
    <2>3. SettingIsSaid'
      BY <1>0, <1>4, <1>6 DEF PollInv, SettingIsSaid, RefreshAnswered
    <2>4. QED
      BY <2>1, <2>2, <2>3 DEF PollInv
  <1>8. CountsInv'
    BY <1>0, <1>2, AcceptsCounts DEF RefreshAnswered, CountsInv
  <1>9. data'[Sel][Setting] \in Options \cup {Nothing}
    BY <1>2, <1>4, <1>6
  <1>10. SelectInv'
    BY <1>0, <1>9, ListensShows DEF RefreshAnswered
  <1>11. TaskInv' /\ DeviceTypeOK'
    BY <1>0, ConfirmedWorks, DeviceFrame DEF RefreshAnswered
  <1>12. QED
    BY <1>3, <1>7, <1>8, <1>10, <1>11, InvPartsNext

\* RefreshFails keeps the invariant.
LEMMA RefreshFailsInv ==
  ASSUME CoordinatorInv, NEW t \in Tasks, RefreshFails(t)
  PROVE  CoordinatorInv'
  <1>0. /\ PollInv /\ CountsInv /\ SelectInv /\ TaskInv /\ DeviceTypeOK /\ ReadTypeOK
        /\ CoordinatorTypeOK
    BY InvParts DEF CoordinatorInv
  <1>1. PICK res \in {Err, Nak} :
          /\ Reads(Sel, Setting, res)
          /\ IF res = Nak THEN NotesNak(Sel, Setting) ELSE UNCHANGED <<naks, rejected, unsupported>>
    BY DEF RefreshFails
  <1>2. Sel \in Devs /\ Setting \in Cmds
    BY CoordinatorAssumption, SettingAssumption
  <1>3. ReadTypeOK'
    BY <1>0, <1>1, <1>2, ReadsAnswer DEF ReadTypeOK
  <1>4. CountsInv'
    <2>1. CASE NotesNak(Sel, Setting)
      BY <1>0, <1>2, <2>1, NotesNakCounts DEF RefreshFails, CountsInv, CountsTypeOK, CountsAgree
    <2>2. CASE UNCHANGED <<naks, rejected, unsupported>>
      BY <1>0, <2>2, CountsFrame DEF RefreshFails, countVars
    <2>3. QED
      BY <1>1, <2>1, <2>2
  <1>5. PollInv' /\ SelectInv' /\ DeviceTypeOK'
    BY <1>0, PollFrame, SelectFrame, DeviceFrame DEF RefreshFails, selectVars
  <1>6. TaskInv'
    BY <1>0, ConfirmedWorks DEF RefreshFails
  <1>7. QED
    BY <1>3, <1>4, <1>5, <1>6, InvPartsNext

-----------------------------------------------------------------------------
(* The invariant and the action properties.                                 *)

\* The first refresh establishes the invariant.
LEMMA InitInv == Init => CoordinatorInv
  <1> SUFFICES ASSUME Init PROVE CoordinatorInv
    OBVIOUS
  <1>1. real \in [Devs -> Options]
    BY SettingAssumption DEF Init
  <1>2. PICK offline \in SUBSET Devs :
          data = [d \in Devs |-> [c \in Cmds |-> IF d \in offline THEN Nothing
                                                                 ELSE Section(c, real[d])]]
    BY DEF Init
  <1>3. \A d \in Devs, c \in Cmds :
          /\ data[d][c] \in Sections
          /\ c = Setting => data[d][c] \in Options \cup {Nothing}
    BY <1>1, <1>2, SectionSays DEF Sections
  <1>4. data \in [Devs -> [Cmds -> Sections]]
    BY <1>2, <1>3
  <1>5. PollInv
    <2>1. \A d \in Devs, c \in Cmds : got[d][c] = Nothing /\ prev[d][c] = Nothing
      BY DEF Init, Each
    <2>2. prev \in [Devs -> [Cmds -> Sections]] /\ got \in [Devs -> [Cmds -> Sections \cup {Todo}]]
      BY DEF Init, Each, Sections
    <2>3. cycle \in 0..(CycleModulus - 1)
      BY CoordinatorAssumption DEF Init
    <2>4. attempt \in [Devs -> 0..2] /\ stuck \in SUBSET Devs /\ polling = FALSE /\ ok = TRUE
      BY DEF Init
    <2>5. PollTypeOK
      BY <1>4, <2>2, <2>3, <2>4 DEF PollTypeOK
    <2>6. CycleCarries
      BY <2>1, <2>4, SettingAssumption DEF CycleCarries
    <2>7. SettingIsSaid
      BY <1>3, <2>1, SettingAssumption DEF SettingIsSaid
    <2>8. QED
      BY <2>5, <2>6, <2>7 DEF PollInv
  <1>6. CountsInv
    BY CoordinatorAssumption DEF Init, Each, CountsInv, CountsTypeOK, CountsAgree
  <1>7. SelectInv
    BY <1>3, CoordinatorAssumption, SettingAssumption
       DEF Init, SelectInv, SelectTypeOK, ChoiceIsShown
  <1>8. TaskInv
    BY CoordinatorAssumption DEF Init, Idle, TaskInv, TaskTypeOK, CallsHaveWork
  <1>9. DeviceTypeOK /\ ReadTypeOK
    BY <1>1, CoordinatorAssumption DEF Init, DeviceTypeOK, ReadTypeOK
  <1>10. QED
    BY <1>5, <1>6, <1>7, <1>8, <1>9, InvParts

\* Every step keeps the invariant.
LEMMA NextInv == CoordinatorInv /\ [Next]_vars => CoordinatorInv'
  <1> SUFFICES ASSUME CoordinatorInv, [Next]_vars PROVE CoordinatorInv'
    OBVIOUS
  <1>1. ASSUME NEW d \in Devs, NEW c \in Cmds,
               \/ PollSkipped(d, c) \/ PollBegins(d, c)
               \/ PollAnswered(d, c) \/ PollFails(d, c) \/ PollNak(d, c)
        PROVE  CoordinatorInv'
    BY <1>1, PollSkippedInv, PollBeginsInv, PollAnsweredInv, PollFailsInv, PollNakInv
  <1>2. ASSUME NEW d \in Devs, DeviceTimesOut(d) \/ CacheExpires(d)
        PROVE  CoordinatorInv'
    BY <1>2, DeviceTimesOutInv, CacheExpiresInv
  <1>3. ASSUME NEW t \in Tasks,
               \/ \E o \in Options : Choose(t, o)
               \/ WriteAcked(t) \/ WriteUnacked(t) \/ WriteRaises(t)
               \/ RefreshAnswered(t) \/ RefreshFails(t)
        PROVE  CoordinatorInv'
    BY <1>3, ChooseInv, WriteInv, RefreshAnsweredInv, RefreshFailsInv
  <1>4. CASE UNCHANGED vars
    <2>1. /\ PollInv /\ CountsInv /\ SelectInv /\ TaskInv /\ DeviceTypeOK /\ ReadTypeOK
      BY InvParts
    <2>2. QED
      BY <1>4, <2>1, PollFrame, CountsFrame, SelectFrame, TaskFrame, DeviceFrame, FaultCounted,
         InvPartsNext DEF vars, pollVars, countVars, selectVars, deviceVars
  <1>5. QED
    BY <1>1, <1>2, <1>3, <1>4, CycleBeginsInv, CyclePublishesInv, CycleTimesOutInv,
       CommitsInv, PendingAgesInv DEF Next

\* _async_update_data, async_refresh_command and the select keep each other's state
\* consistent in every interleaving, for any devices, schedule and thresholds.
THEOREM CoordinatorSafety == Spec => []CoordinatorInv
  BY InitInv, NextInv, PTL DEF Spec

\* _note_nak: a step gives a command up only after Threshold NAKs between which no read
\* of it was accepted, because the NAKs that count never outnumber those.
THEOREM SuppressedOnlyByNaksHolds == Spec => SuppressedOnlyByNaks
  <1> DEFINE Step == \A d \in Devs, c \in Cmds :
                       <<d, c>> \in unsupported' \ unsupported => rejected'[d][c] >= Threshold
  <1>1. ASSUME CoordinatorInv, [Next]_vars PROVE [Step]_vars
    <2>1. CountsTypeOK /\ CountsAgree
      BY <1>1, InvParts DEF CountsInv
    <2>2. ASSUME UNCHANGED unsupported PROVE Step
      BY <2>2
    <2>3. ASSUME NEW d \in Devs, NEW c \in Cmds, NotesNak(d, c) PROVE Step
      BY <2>1, <2>3, NotesNakCounts
    <2>4. ASSUME NEW d \in Devs, NEW c \in Cmds,
                 \/ PollSkipped(d, c) \/ PollBegins(d, c)
                 \/ PollAnswered(d, c) \/ PollFails(d, c) \/ PollNak(d, c)
          PROVE  Step
      BY <2>2, <2>3, <2>4
         DEF PollSkipped, PollBegins, PollAnswered, PollFails, PollNak, Accepts, countVars
    <2>5. ASSUME NEW d \in Devs, DeviceTimesOut(d) \/ CacheExpires(d)
          PROVE  Step
      BY <2>2, <2>5 DEF DeviceTimesOut, CacheExpires, countVars
    <2>6. ASSUME NEW t \in Tasks,
                 \/ \E o \in Options : Choose(t, o)
                 \/ WriteAcked(t) \/ WriteUnacked(t) \/ WriteRaises(t)
                 \/ RefreshAnswered(t)
          PROVE  Step
      BY <2>2, <2>6 DEF Choose, WriteAcked, WriteUnacked, WriteRaises, RefreshAnswered,
                        Accepts, countVars
    <2>7. ASSUME NEW t \in Tasks, RefreshFails(t)
          PROVE  Step
      <3>1. Sel \in Devs /\ Setting \in Cmds
        BY CoordinatorAssumption, SettingAssumption
      <3>2. NotesNak(Sel, Setting) \/ UNCHANGED unsupported
        BY <2>7 DEF RefreshFails
      <3>3. QED
        BY <2>2, <2>3, <3>1, <3>2
    <2>8. CASE CycleBegins \/ CyclePublishes \/ CycleTimesOut \/ Commits \/ PendingAges
      BY <2>2, <2>8 DEF CycleBegins, CyclePublishes, CycleTimesOut, Commits, PendingAges, countVars
    <2>9. QED
      BY <1>1, <2>4, <2>5, <2>6, <2>7, <2>8 DEF Next
  <1>2. QED
    BY <1>1, CoordinatorSafety, PTL DEF Spec, SuppressedOnlyByNaks

\* FailureTracker.resolve: a poll drops a section that is known only at the MaxFails-th
\* poll in a row without an accepted answer; no other step of a cycle drops one.
THEOREM KnownDataIsFrozenHolds == Spec => KnownDataIsFrozen
  <1> DEFINE Step == \A d \in Devs, c \in Cmds :
                       got[d][c] = Todo /\ got'[d][c] = Nothing /\ polling'
                         => prev[d][c] = Nothing \/ row'[d][c] >= MaxFails
  <1>1. ASSUME CoordinatorInv, [Next]_vars PROVE [Step]_vars
    <2>1. /\ PollInv /\ CountsTypeOK /\ CountsAgree /\ CoordinatorTypeOK
          /\ got \in [Devs -> [Cmds -> Sections \cup {Todo}]]
      BY <1>1, InvParts DEF CountsInv, CoordinatorInv, PollInv, PollTypeOK
    <2>2. ASSUME UNCHANGED got PROVE Step
      BY <2>2, SettingAssumption
    <2>3. ASSUME NEW d \in Devs, NEW c \in Cmds, NEW s, Gets(d, c, s),
                 s = prev[d][c] \/ s # Nothing \/ row'[d][c] >= MaxFails
          PROVE  Step
      <3>1. \A e \in Devs, k \in Cmds : got'[e][k] = IF e = d /\ k = c THEN s ELSE got[e][k]
        BY <2>1, <2>3 DEF Gets
      <3>2. QED
        BY <2>3, <3>1, SettingAssumption
    <2>4. ASSUME NEW d \in Devs, NEW c \in Cmds, Fails(d, c) PROVE Step
      <3>1. CASE UNCHANGED got
        BY <2>2, <3>1
      <3>2. ASSUME NEW s \in {prev[d][c], Nothing}, Gets(d, c, s),
                   s = prev[d][c] \/ row'[d][c] >= MaxFails
            PROVE  Step
        BY <2>3, <3>2
      <3>3. QED
        BY <2>1, <2>4, <3>1, <3>2, FailsCounts
    <2>5. ASSUME NEW d \in Devs, NEW c \in Cmds, PollAnswered(d, c) PROVE Step
      <3>1. PICK s \in Sections : Reads(d, c, s) /\ Gets(d, c, s)
        BY <2>5 DEF PollAnswered
      <3>2. s # Nothing
        BY <2>1, <3>1, ReadsAnswer, SectionSays
      <3>3. QED
        BY <2>3, <3>1, <3>2
    <2>6. ASSUME NEW d \in Devs, NEW c \in Cmds,
                 PollSkipped(d, c) \/ PollBegins(d, c) \/ PollFails(d, c) \/ PollNak(d, c)
          PROVE  Step
      BY <2>2, <2>3, <2>4, <2>6 DEF PollSkipped, PollBegins, PollFails, PollNak
    <2>7. ASSUME NEW d \in Devs, DeviceTimesOut(d) \/ CacheExpires(d)
          PROVE  Step
      <3>1. CASE CacheExpires(d)
        BY <2>2, <3>1 DEF CacheExpires, pollVars
      <3>2. CASE DeviceTimesOut(d)
        <4>1. \A e \in Devs, k \in Cmds : got'[e][k] = IF e = d THEN prev[d][k] ELSE got[e][k]
          BY <2>1, <3>2 DEF DeviceTimesOut
        <4>2. QED
          BY <4>1, SettingAssumption
      <3>3. QED
        BY <2>7, <3>1, <3>2
    <2>8. ASSUME NEW t \in Tasks,
                 \/ \E o \in Options : Choose(t, o)
                 \/ WriteAcked(t) \/ WriteUnacked(t) \/ WriteRaises(t)
                 \/ RefreshAnswered(t) \/ RefreshFails(t)
          PROVE  Step
      BY <2>2, <2>8 DEF Choose, WriteAcked, WriteUnacked, WriteRaises, RefreshAnswered,
                        RefreshFails, pollVars
    <2>9. CASE Commits \/ PendingAges
      BY <2>2, <2>9 DEF Commits, PendingAges, pollVars
    <2>10. CASE CycleBegins
      BY <2>1, <2>10 DEF CycleBegins, PollInv, CycleCarries
    <2>11. CASE CyclePublishes \/ CycleTimesOut
      BY <2>11 DEF CyclePublishes, CycleTimesOut, Forgets
    <2>12. QED
      BY <1>1, <2>5, <2>6, <2>7, <2>8, <2>9, <2>10, <2>11 DEF Next
  <1>2. QED
    BY <1>1, CoordinatorSafety, PTL DEF Spec, KnownDataIsFrozen

\* _handle_coordinator_update: a choice that has not aged stays on display until a read
\* shows it; only another choice replaces it.
THEOREM HeldUntilConfirmedHolds == Spec => HeldUntilConfirmed
  <1> DEFINE Step == pending # Nothing /\ ~aged /\ shown' # shown
                       => \E t \in Tasks : task[t] = Idle /\ task'[t] # Idle
  <1>1. ASSUME CoordinatorInv, [Next]_vars PROVE [Step]_vars
    <2>1. PollInv /\ SelectInv /\ TaskInv /\ CoordinatorTypeOK
      BY <1>1, InvParts DEF CoordinatorInv
    <2>2. ASSUME UNCHANGED selectVars PROVE Step
      BY <2>2 DEF selectVars
    <2>3. ASSUME NEW new, new[Sel][Setting] \in Options \cup {Nothing}, Listens(new)
          PROVE  Step
      BY <2>1, <2>3, ListensShows
    <2>4. ASSUME NEW d \in Devs, NEW c \in Cmds,
                 \/ PollSkipped(d, c) \/ PollBegins(d, c)
                 \/ PollAnswered(d, c) \/ PollFails(d, c) \/ PollNak(d, c)
          PROVE  Step
      BY <2>2, <2>4 DEF PollSkipped, PollBegins, PollAnswered, PollFails, PollNak
    <2>5. ASSUME NEW d \in Devs, DeviceTimesOut(d) \/ CacheExpires(d)
          PROVE  Step
      BY <2>2, <2>5 DEF DeviceTimesOut, CacheExpires
    <2>6. ASSUME NEW t \in Tasks, WriteAcked(t) \/ WriteUnacked(t) \/ WriteRaises(t)
                                  \/ RefreshFails(t)
          PROVE  Step
      BY <2>2, <2>6 DEF WriteAcked, WriteUnacked, WriteRaises, RefreshFails, selectVars
    <2>7. ASSUME NEW t \in Tasks, NEW o \in Options, Choose(t, o)
          PROVE  Step
      <3>1. task[t] = Idle /\ task'[t].pc = "write"
        BY <2>1, <2>7 DEF Choose, TaskInv, TaskTypeOK
      <3>2. QED
        BY <3>1 DEF Idle
    <2>8. ASSUME NEW t \in Tasks, RefreshAnswered(t)
          PROVE  Step
      <3>1. PICK s \in Sections : /\ Reads(Sel, Setting, s)
                                  /\ data' = [data EXCEPT ![Sel][Setting] = s]
        BY <2>8 DEF RefreshAnswered
      <3>2. s \in Options /\ Sel \in Devs /\ Setting \in Cmds
        BY <2>1, <3>1, ReadsAnswer, SectionSays, CoordinatorAssumption, SettingAssumption
      <3>3. data'[Sel][Setting] = s
        BY <2>1, <3>1, <3>2 DEF PollInv, PollTypeOK
      <3>4. QED
        BY <2>3, <2>8, <3>2, <3>3 DEF RefreshAnswered
    <2>9. CASE CycleBegins \/ Commits \/ PendingAges
      BY <2>9 DEF CycleBegins, Commits, PendingAges, selectVars
    <2>10. CASE CyclePublishes
      <3>1. got[Sel][Setting] \in Options \cup {Nothing}
        BY <2>1, <2>10, CoordinatorAssumption, SettingAssumption
           DEF CyclePublishes, PollInv, PollTypeOK, SettingIsSaid, Sections
      <3>2. QED
        BY <2>2, <2>3, <2>10, <3>1 DEF CyclePublishes
    <2>11. CASE CycleTimesOut
      <3>1. data[Sel][Setting] \in Options \cup {Nothing}
        BY <2>1, CoordinatorAssumption, SettingAssumption
           DEF PollInv, PollTypeOK, SettingIsSaid, Sections
      <3>2. QED
        BY <2>2, <2>3, <2>11, <3>1 DEF CycleTimesOut
    <2>12. QED
      BY <1>1, <2>4, <2>5, <2>6, <2>7, <2>8, <2>9, <2>10, <2>11 DEF Next
  <1>2. QED
    BY <1>1, CoordinatorSafety, PTL DEF Spec, HeldUntilConfirmed
=============================================================================
