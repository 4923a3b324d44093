--------------------------- MODULE EybondHubProofs ---------------------------
(***************************************************************************)
(* Proofs about EybondHub for any sets of dongles, managers and registries. *)
(***************************************************************************)
EXTENDS EybondHub, TLAPS

-----------------------------------------------------------------------------
(* Facts about records and registries.                                      *)

\* A record is not NoRec and has its two fields.
LEMMA RecordFields ==
  ASSUME NEW rec \in Records
  PROVE  /\ rec # NoRec
         /\ rec = [polled |-> rec.polled, up |-> rec.up]
         /\ rec.polled \in BOOLEAN /\ rec.up \in BOOLEAN
  BY NoneAssumption DEF Records

\* What making a record of two Booleans gives.
LEMMA MakeRecord ==
  ASSUME NEW polled \in BOOLEAN, NEW up \in BOOLEAN
  PROVE  /\ [polled |-> polled, up |-> up] \in Records
         /\ [polled |-> polled, up |-> up] # NoRec
  BY NoneAssumption DEF Records

\* An empty registry is a registry, without configuration and without connections.
LEMMA EmptyRegistry ==
  /\ Empty \in Registries
  /\ Configuration(Empty) = {}
  /\ \A p \in PNs : ~Up(Empty, p)
  BY DEF Empty, Registries, Configuration, Up

\* record_seen adds or refreshes one record: the dongle is connected, and what the
\* user configured stays.
LEMMA RecordSeen ==
  ASSUME NEW rs \in Registries, NEW p \in PNs
  PROVE  /\ record_seen(rs, p) \in Registries
         /\ Configuration(record_seen(rs, p)) = Configuration(rs)
         /\ \A q \in PNs : Up(record_seen(rs, p), q) => q = p \/ Up(rs, q)
  <1> DEFINE polled == rs[p] # NoRec /\ rs[p].polled
             rec == [polled |-> polled, up |-> TRUE]
  <1>1. rs[p] \in Records \cup {NoRec}
    BY DEF Registries
  <1>2. polled \in BOOLEAN
    BY <1>1, RecordFields
  <1>3. rec \in Records /\ rec # NoRec
    BY <1>2, MakeRecord
  <1>4. rec.polled = polled
    OBVIOUS
  <1>5. record_seen(rs, p) = [rs EXCEPT ![p] = rec]
    BY DEF record_seen
  <1>6. p \in Configuration(rs) <=> polled
    BY DEF Configuration
  <1> HIDE DEF rec, polled
  <1>7. record_seen(rs, p) \in Registries
    BY <1>3, <1>5 DEF Registries
  <1>8. \A q \in PNs : record_seen(rs, p)[q] = IF q = p THEN rec ELSE rs[q]
    BY <1>5 DEF Registries
  <1>9. ASSUME NEW q \in PNs
        PROVE  q \in Configuration(record_seen(rs, p)) <=> q \in Configuration(rs)
    <2>1. CASE q # p
      BY <1>8, <2>1 DEF Configuration
    <2>2. CASE q = p
      <3>1. record_seen(rs, p)[p] = rec
        BY <1>8
      <3>2. p \in Configuration(record_seen(rs, p)) <=> rec # NoRec /\ rec.polled
        BY <3>1 DEF Configuration
      <3>3. rec.polled <=> polled
        BY <1>4
      <3>4. QED
        BY <1>3, <1>6, <2>2, <3>2, <3>3
    <2>3. QED
      BY <2>1, <2>2
  <1>10. Configuration(record_seen(rs, p)) = Configuration(rs)
    BY <1>9 DEF Configuration
  <1>11. QED
    BY <1>7, <1>8, <1>10 DEF Up

\* A record that is marked as disconnected keeps its configuration.
LEMMA Disconnected ==
  ASSUME NEW rec \in Records, NEW r, r = [rec EXCEPT !.up = FALSE]
  PROVE  r \in Records /\ r # NoRec /\ r.polled = rec.polled /\ ~r.up
  BY NoneAssumption DEF Records

\* A record that is configured again keeps its status.
LEMMA Configured ==
  ASSUME NEW rec \in Records, NEW b \in BOOLEAN, NEW r, r = [rec EXCEPT !.polled = b]
  PROVE  r \in Records /\ r # NoRec /\ r.up = rec.up
  BY NoneAssumption DEF Records

\* mark_disconnected takes the connections of a set of dongles away and nothing else.
LEMMA MarkDisconnected ==
  ASSUME NEW rs \in Registries, NEW P
  PROVE  /\ mark_disconnected(rs, P) \in Registries
         /\ Configuration(mark_disconnected(rs, P)) = Configuration(rs)
         /\ \A q \in PNs : Up(mark_disconnected(rs, P), q) => Up(rs, q) /\ q \notin P
  <1> DEFINE md == mark_disconnected(rs, P)
  <1>1. ASSUME NEW q \in PNs
        PROVE  /\ md[q] \in Records \cup {NoRec}
               /\ md[q] # NoRec <=> rs[q] # NoRec
               /\ rs[q] # NoRec => md[q].polled = rs[q].polled
               /\ Up(md, q) => Up(rs, q) /\ q \notin P
    <2>1. rs[q] \in Records \cup {NoRec}
      BY DEF Registries
    <2>2. md[q] = IF q \in P /\ rs[q] # NoRec THEN [rs[q] EXCEPT !.up = FALSE] ELSE rs[q]
      BY DEF mark_disconnected
    <2>3. CASE q \in P /\ rs[q] # NoRec
      <3>1. rs[q] \in Records /\ md[q] = [rs[q] EXCEPT !.up = FALSE]
        BY <2>1, <2>2, <2>3
      <3>2. md[q] \in Records /\ md[q] # NoRec /\ md[q].polled = rs[q].polled /\ ~md[q].up
        BY <3>1, Disconnected
      <3>3. QED
        BY <2>3, <3>2 DEF Up
    <2>4. CASE ~(q \in P /\ rs[q] # NoRec)
      BY <2>1, <2>2, <2>4 DEF Up
    <2>5. QED
      BY <2>3, <2>4
  <1>2. md \in Registries
    <2>1. md = [q \in PNs |-> md[q]]
      BY DEF mark_disconnected
    <2> HIDE DEF md
    <2>2. QED
      BY <1>1, <2>1 DEF Registries
  <1> HIDE DEF md
  <1>3. Configuration(md) = Configuration(rs)
    BY <1>1 DEF Configuration
  <1>4. QED
    BY <1>1, <1>2, <1>3 DEF md

\* A registry from the Store shows no dongle as connected.
LEMMA ResetConnections ==
  ASSUME NEW rs \in Registries
  PROVE  /\ reset_connection_state(rs) \in Registries
         /\ Configuration(reset_connection_state(rs)) = Configuration(rs)
         /\ \A q \in PNs : ~Up(reset_connection_state(rs), q)
  BY MarkDisconnected DEF reset_connection_state

\* The devices form configures and removes records; it connects none.
LEMMA ApplyBulk ==
  ASSUME NEW rs \in Registries, NEW form \in [PNs -> FormRows]
  PROVE  /\ apply_device_bulk(rs, form) \in Registries
         /\ \A q \in PNs : Up(apply_device_bulk(rs, form), q) => Up(rs, q)
  <1> DEFINE ab == apply_device_bulk(rs, form)
  <1>1. ASSUME NEW q \in PNs
        PROVE  /\ ab[q] \in Records \cup {NoRec}
               /\ Up(ab, q) => Up(rs, q)
    <2>1. rs[q] \in Records \cup {NoRec}
      BY DEF Registries
    <2>2. ab[q] = IF rs[q] = NoRec \/ form[q] = "remove" THEN NoRec
                  ELSE [rs[q] EXCEPT !.polled = (form[q] = "enable")]
      BY DEF apply_device_bulk
    <2>3. CASE rs[q] = NoRec \/ form[q] = "remove"
      BY <2>2, <2>3 DEF Up
    <2>4. CASE ~(rs[q] = NoRec \/ form[q] = "remove")
      <3>1. rs[q] \in Records
        BY <2>1, <2>4
      <3>2. (form[q] = "enable") \in BOOLEAN
        OBVIOUS
      <3>3. ab[q] = [rs[q] EXCEPT !.polled = (form[q] = "enable")]
        BY <2>2, <2>4
      <3>4. ab[q] \in Records /\ ab[q].up = rs[q].up
        BY <3>1, <3>2, <3>3, Configured
      <3>5. QED
        BY <2>4, <3>4 DEF Up
    <2>5. QED
      BY <2>3, <2>4
  <1>2. ab = [q \in PNs |-> ab[q]]
    BY DEF apply_device_bulk
  <1> HIDE DEF ab
  <1>3. ab \in Registries
    BY <1>1, <1>2 DEF Registries
  <1>4. QED
    BY <1>1, <1>3 DEF ab

\* A configuration is a set of dongles.
LEMMA ConfigurationSet ==
  ASSUME NEW rs
  PROVE  Configuration(rs) \in SUBSET PNs /\ Configuration(rs) # NoData
  BY NoneAssumption DEF Configuration

\* Without a task under way, every task's targets are NoData.
LEMMA NoTaskType ==
  /\ NoTask \in [Tasks -> (SUBSET PNs) \cup {NoData}]
  /\ \A t \in Tasks : NoTask[t] = NoData
  /\ \A f \in [Tasks -> (SUBSET PNs) \cup {NoData}] :
       (\A t \in Tasks : f[t] = NoData) => f = NoTask
  BY DEF NoTask

-----------------------------------------------------------------------------
(* The managers: who is free, who holds which registry, who has a session.  *)

\* The types of the entry, its children, its Store, the managers and the observations.
EntryTypeOK ==
  /\ kind \in {"device", "hub"}
  /\ phase \in {"unloaded", "loading", "refreshing", "loaded", "migrating",
                "saving", "closing"}
  /\ late \in BOOLEAN
  /\ runtime \in Rids \cup {NoReg}
  /\ local \in Registries \cup {NoData}
  /\ want \in Mids \cup {NoMgr}

ChildTypeOK ==
  /\ targets \in SUBSET PNs
  /\ submitted \in BOOLEAN
  /\ recon \in [Tasks -> (SUBSET PNs) \cup {NoData}]

StoreTypeOK ==
  /\ disk \in Registries
  /\ writing \in Registries \cup {NoData}
  /\ unsaved \in BOOLEAN

MgrTypeOK ==
  /\ mgr \in Mids \cup {NoMgr}
  /\ server \in [Mids -> {"none", "starting", "bound", "backoff"}]
  /\ closing \in SUBSET Mids
  /\ mreg \in [Mids -> Rids \cup {NoReg}]
  /\ sess \in [Mids -> SUBSET PNs]
  /\ budget \in [drains : Nat, tasks : Nat]
  /\ reg \in [Rids -> Registries]

ObsTypeOK ==
  /\ edited \in SUBSET PNs
  /\ foreign \in BOOLEAN
  /\ raced \in BOOLEAN

\* What the managers' side of a step keeps.
Owner == MgrTypeOK /\ ManagersApart /\ StatusIsTrue /\ NoPhantomConnections

\* A manager in use has a registry.
LEMMA InUse ==
  ASSUME MgrTypeOK, ManagersApart, NEW m \in Mids, ~FreeMgr(m)
  PROVE  mreg[m] \in Rids /\ mreg[m] # NoReg /\ reg[mreg[m]] \in Registries
  BY HubAssumption DEF MgrTypeOK, ManagersApart

\* A manager with a session, or with a listener, is in use.
LEMMA Serving ==
  ASSUME MgrTypeOK, ManagersApart, NEW m \in Mids, sess[m] # {} \/ server[m] \in {"bound", "starting"}
  PROVE  ~FreeMgr(m)
  BY DEF MgrTypeOK, ManagersApart, FreeMgr

\* A step that puts no manager into use, and connects none, keeps the managers apart.
LEMMA OwnerKeeps ==
  ASSUME Owner, EntryTypeOK, UNCHANGED <<server, mreg, sess>>,
         mgr' \in Mids \cup {NoMgr}, closing' \in SUBSET Mids, budget' \in [drains : Nat, tasks : Nat],
         reg' \in [Rids -> Registries], mgr' # NoMgr => mgr' \notin closing',
         \A m \in Mids : FreeMgr(m) => FreeMgr(m)',
         local' \in {local, NoData} \/ \A p \in PNs : ~Up(local', p),
         \A m \in Mids, p \in PNs : ~FreeMgr(m) /\ Up(reg'[mreg[m]], p) => Up(reg[mreg[m]], p),
         runtime' # NoReg => /\ runtime' = runtime
                             /\ \A p \in PNs : Up(reg'[runtime], p) => Up(reg[runtime], p)
  PROVE  Owner'
  <1>1. MgrTypeOK'
    BY DEF Owner, MgrTypeOK
  <1>2. ManagersApart'
    BY DEF Owner, ManagersApart
  <1>3. StatusIsTrue'
    <2>1. local' # NoData => \A p \in PNs : ~Up(local', p)
      BY DEF Owner, StatusIsTrue
    <2>2. ASSUME NEW m \in Mids, ~FreeMgr(m)', NEW p \in PNs, Up(reg'[mreg'[m]], p)
          PROVE  p \in sess'[m]
      <3>1. ~FreeMgr(m) /\ Up(reg[mreg[m]], p)
        BY <2>2
      <3>2. QED
        BY <3>1 DEF Owner, StatusIsTrue
    <2>3. QED
      BY <2>1, <2>2 DEF StatusIsTrue, Up
  <1>4. NoPhantomConnections'
    <2>1. ASSUME runtime' # NoReg, NEW p \in PNs, Up(reg'[runtime'], p)
          PROVE  \E m \in Mids : mreg'[m] = runtime' /\ p \in sess'[m]
      <3>1. runtime' = runtime /\ runtime # NoReg /\ Up(reg[runtime], p)
        BY <2>1
      <3>2. QED
        BY <3>1 DEF Owner, NoPhantomConnections
    <2>2. QED
      BY <2>1 DEF NoPhantomConnections, Up
  <1>5. QED
    BY <1>1, <1>2, <1>3, <1>4 DEF Owner

\* A listener starts, binds, fails or is forgiven.
LEMMA ServerSteps ==
  ASSUME Owner, EntryTypeOK, NEW m \in Mids, NEW v \in {"none", "starting", "bound", "backoff"},
         UNCHANGED <<mgr, closing, mreg, sess, budget, reg, want, local, runtime>>,
         server' = [server EXCEPT ![m] = v], server[m] # "bound",
         v = "bound" => ~PortTaken,
         FreeMgr(m) => v \in {"none", "backoff"}
  PROVE  Owner'
  <1>1. \A n \in Mids : server'[n] = IF n = m THEN v ELSE server[n]
    BY DEF Owner, MgrTypeOK
  <1>2. \A n \in Mids : FreeMgr(n) => FreeMgr(n)'
    BY <1>1 DEF FreeMgr
  <1>3. MgrTypeOK'
    BY DEF Owner, MgrTypeOK
  <1>4. ManagersApart'
    <2>1. \A n, q \in Mids : server'[n] = "bound" /\ server'[q] = "bound" => n = q
      BY <1>1 DEF Owner, ManagersApart, PortTaken
    <2>2. \A n \in Mids : sess'[n] # {} => server'[n] = "bound"
      BY <1>1 DEF Owner, ManagersApart
    <2>3. QED
      BY <1>2, <2>1, <2>2 DEF Owner, ManagersApart
  <1>5. StatusIsTrue'
    BY <1>2 DEF Owner, StatusIsTrue, Up
  <1>6. NoPhantomConnections'
    BY DEF Owner, NoPhantomConnections, Up
  <1>7. QED
    BY <1>3, <1>4, <1>5, <1>6 DEF Owner

\* get_manager: a new manager comes with a registry of its own, which nobody holds.
LEMMA GetManager ==
  ASSUME Owner, EntryTypeOK, NEW m \in Mids, get_manager(m), UNCHANGED runtime,
         want' = want \/ (want = NoMgr /\ want' = m),
         local' = local \/ \A p \in PNs : ~Up(local', p)
  PROVE  /\ Owner'
         /\ runtime # NoReg => reg'[runtime] = reg[runtime]
  <1>1. CASE mgr # NoMgr
    <2>1. /\ m = mgr /\ mgr' = m
          /\ server' = [server EXCEPT ![m] = IF server[m] = "none" THEN "starting" ELSE server[m]]
          /\ UNCHANGED <<mreg, reg, closing, sess, budget>>
      BY <1>1 DEF get_manager
    <2>2. \A n \in Mids : server'[n] = IF n = m /\ server[n] = "none" THEN "starting" ELSE server[n]
      BY <2>1 DEF Owner, MgrTypeOK
    <2>3. \A n \in Mids : FreeMgr(n) => FreeMgr(n)'
      BY <2>1, <2>2 DEF FreeMgr
    <2>4. MgrTypeOK'
      BY <2>1 DEF Owner, MgrTypeOK
    <2>5. ManagersApart'
      <3>1. \A n \in Mids : server'[n] = "bound" <=> server[n] = "bound"
        BY <2>2
      <3>2. QED
        BY <2>1, <2>3, <3>1 DEF Owner, ManagersApart
    <2>6. StatusIsTrue'
      BY <2>1, <2>3 DEF Owner, StatusIsTrue, Up
    <2>7. NoPhantomConnections'
      BY <2>1 DEF Owner, NoPhantomConnections, Up
    <2>8. QED
      BY <2>1, <2>4, <2>5, <2>6, <2>7 DEF Owner
  <1>2. CASE mgr = NoMgr
    <2>1. PICK r \in Rids : /\ FreeReg(r)
                            /\ mreg' = [mreg EXCEPT ![m] = r]
                            /\ reg' = [reg EXCEPT ![r] = Empty]
      BY <1>2 DEF get_manager
    <2>2. /\ FreeMgr(m) /\ mgr' = m /\ server' = [server EXCEPT ![m] = "starting"]
          /\ UNCHANGED <<closing, sess, budget>>
      BY <1>2 DEF get_manager
    <2>3. MgrTypeOK'
      BY <2>1, <2>2, EmptyRegistry DEF Owner, MgrTypeOK
    <2>4. \A n \in Mids : /\ server'[n] = IF n = m THEN "starting" ELSE server[n]
                          /\ mreg'[n] = IF n = m THEN r ELSE mreg[n]
      BY <2>1, <2>2 DEF Owner, MgrTypeOK
    <2>5. \A q \in Rids : reg'[q] = IF q = r THEN Empty ELSE reg[q]
      BY <2>1 DEF Owner, MgrTypeOK
    <2>6. m \notin closing /\ server[m] # "bound" /\ sess[m] = {}
      BY <2>2 DEF FreeMgr, Owner, ManagersApart
    <2>7. \A n \in Mids \ {m} : FreeMgr(n) => FreeMgr(n)'
      BY <2>2, <2>4 DEF FreeMgr
    <2>8. r # NoReg /\ r # runtime /\ \A n \in Mids : mreg[n] = r => FreeMgr(n)
      BY <2>1, HubAssumption DEF FreeReg
    <2>9. ManagersApart'
      <3>1. mgr' # NoMgr => mgr' \notin closing'
        BY <2>2, <2>6
      <3>2. \A n, q \in Mids : server'[n] = "bound" /\ server'[q] = "bound" => n = q
        BY <2>4 DEF Owner, ManagersApart
      <3>3. \A n \in Mids : ~FreeMgr(n)' => mreg'[n] # NoReg
        BY <2>4, <2>7, <2>8 DEF Owner, ManagersApart
      <3>4. \A n \in Mids : sess'[n] # {} => server'[n] = "bound"
        BY <2>2, <2>4, <2>6 DEF Owner, ManagersApart
      <3>5. ASSUME NEW n \in Mids, NEW q \in Mids \ {n}, mreg'[n] = mreg'[q]
            PROVE  mreg'[n] = NoReg \/ FreeMgr(n)' \/ FreeMgr(q)'
        <4>1. CASE n = m
          BY <2>4, <2>7, <2>8, <3>5, <4>1
        <4>2. CASE q = m
          BY <2>4, <2>7, <2>8, <3>5, <4>2
        <4>3. CASE n # m /\ q # m
          BY <2>4, <2>7, <3>5, <4>3 DEF Owner, ManagersApart
        <4>4. QED
          BY <4>1, <4>2, <4>3
      <3>6. QED
        BY <3>1, <3>2, <3>3, <3>4, <3>5 DEF ManagersApart
    <2>10. StatusIsTrue'
      <3>1. local' # NoData => \A p \in PNs : ~Up(local', p)
        BY DEF Owner, StatusIsTrue
      <3>2. ASSUME NEW n \in Mids, ~FreeMgr(n)', NEW p \in PNs, Up(reg'[mreg'[n]], p)
            PROVE  p \in sess'[n]
        <4>1. CASE n = m
          BY <2>4, <2>5, <3>2, <4>1, EmptyRegistry
        <4>2. CASE n # m
          <5>1. ~FreeMgr(n) /\ mreg'[n] = mreg[n] /\ mreg[n] # r
            BY <2>4, <2>7, <2>8, <3>2, <4>2
          <5>2. reg'[mreg[n]] = reg[mreg[n]]
            BY <2>5, <5>1, InUse DEF Owner
          <5>3. QED
            BY <2>2, <3>2, <5>1, <5>2 DEF Owner, StatusIsTrue
        <4>3. QED
          BY <4>1, <4>2
      <3>3. QED
        BY <3>1, <3>2 DEF StatusIsTrue, Up
    <2>11. runtime # NoReg => reg'[runtime] = reg[runtime]
      BY <2>5, <2>8 DEF EntryTypeOK
    <2>12. NoPhantomConnections'
      <3>1. ASSUME runtime' # NoReg, NEW p \in PNs, Up(reg'[runtime'], p)
            PROVE  \E n \in Mids : mreg'[n] = runtime' /\ p \in sess'[n]
        <4>1. PICK n \in Mids : mreg[n] = runtime /\ p \in sess[n]
          BY <2>11, <3>1 DEF Owner, NoPhantomConnections
        <4>2. n # m
          BY <2>6, <4>1
        <4>3. QED
          BY <2>2, <2>4, <4>1, <4>2
      <3>2. QED
        BY <3>1 DEF NoPhantomConnections, Up
    <2>13. QED
      BY <2>3, <2>9, <2>10, <2>11, <2>12 DEF Owner
  <1>3. QED
    BY <1>1, <1>2

\* A dongle comes to or leaves a manager in use: the registry the manager holds is the
\* only one that changes, and shows the dongle as connected only while it is there.
LEMMA SessionSteps ==
  ASSUME Owner, EntryTypeOK, NEW m \in Mids, ~FreeMgr(m), NEW P \in SUBSET PNs,
         NEW rs \in Registries,
         UNCHANGED <<mgr, server, closing, mreg, budget, want, local, runtime>>,
         sess' = [sess EXCEPT ![m] = P], reg' = [reg EXCEPT ![mreg[m]] = rs],
         P # {} => server[m] = "bound",
         \A p \in PNs : Up(rs, p) => p \in P
  PROVE  Owner'
  <1>1. mreg[m] \in Rids /\ mreg[m] # NoReg
    BY InUse DEF Owner
  <1>2. MgrTypeOK'
    BY <1>1 DEF Owner, MgrTypeOK
  <1>3. /\ \A n \in Mids : sess'[n] = IF n = m THEN P ELSE sess[n]
        /\ \A q \in Rids : reg'[q] = IF q = mreg[m] THEN rs ELSE reg[q]
    BY DEF Owner, MgrTypeOK
  <1>4. \A n \in Mids : FreeMgr(n)' <=> FreeMgr(n)
    BY DEF FreeMgr
  <1>5. ManagersApart'
    BY <1>3, <1>4 DEF Owner, ManagersApart
  <1>6. StatusIsTrue'
    <2>1. ASSUME NEW n \in Mids, ~FreeMgr(n)', NEW p \in PNs, Up(reg'[mreg'[n]], p)
          PROVE  p \in sess'[n]
      <3>1. CASE n = m
        BY <1>1, <1>3, <2>1, <3>1
      <3>2. CASE n # m
        <4>1. ~FreeMgr(n)
          BY <1>4, <2>1
        <4>2. mreg[n] \in Rids /\ mreg[n] # mreg[m]
          BY <1>1, <3>2, <4>1, InUse DEF Owner, ManagersApart
        <4>3. Up(reg[mreg[n]], p)
          BY <1>3, <2>1, <4>2
        <4>4. QED
          BY <1>3, <3>2, <4>1, <4>3 DEF Owner, StatusIsTrue
      <3>3. QED
        BY <3>1, <3>2
    <2>2. QED
      BY <2>1 DEF Owner, StatusIsTrue, Up
  <1>7. NoPhantomConnections'
    <2>1. ASSUME runtime' # NoReg, NEW p \in PNs, Up(reg'[runtime'], p)
          PROVE  \E n \in Mids : mreg'[n] = runtime' /\ p \in sess'[n]
      <3>1. CASE mreg[m] = runtime
        BY <1>1, <1>3, <2>1, <3>1
      <3>2. CASE mreg[m] # runtime
        <4>1. runtime \in Rids
          BY <2>1 DEF EntryTypeOK
        <4>2. Up(reg[runtime], p)
          BY <1>3, <2>1, <3>2, <4>1
        <4>3. PICK n \in Mids : mreg[n] = runtime /\ p \in sess[n]
          BY <2>1, <4>2 DEF Owner, NoPhantomConnections
        <4>4. n # m
          BY <3>2, <4>3
        <4>5. QED
          BY <1>3, <4>3, <4>4
      <3>3. QED
        BY <3>1, <3>2
    <2>2. QED
      BY <2>1 DEF NoPhantomConnections, Up
  <1>8. QED
    BY <1>2, <1>5, <1>6, <1>7 DEF Owner

\* The configuration that a hub holds, through a step that changes one registry.
LEMMA ConfigurationKeeps ==
  ASSUME Owner, EntryTypeOK, NEW m \in Mids, mreg[m] \in Rids, NEW rs \in Registries,
         Configuration(rs) = Configuration(reg[mreg[m]]),
         reg' = [reg EXCEPT ![mreg[m]] = rs]
  PROVE  runtime # NoReg => Configuration(reg'[runtime]) = Configuration(reg[runtime])
  BY DEF Owner, MgrTypeOK, EntryTypeOK

\* A heartbeat.
LEMMA HeartbeatOwner ==
  ASSUME Owner, EntryTypeOK, NEW p \in PNs, Heartbeat(p)
  PROVE  /\ Owner'
         /\ runtime # NoReg => Configuration(reg'[runtime]) = Configuration(reg[runtime])
  <1>1. PICK m \in Mids : /\ server[m] = "bound"
                          /\ sess' = [sess EXCEPT ![m] = sess[m] \cup {p}]
                          /\ reg' = [reg EXCEPT ![mreg[m]] = record_seen(reg[mreg[m]], p)]
    BY DEF Heartbeat
  <1>2. UNCHANGED <<mgr, server, closing, mreg, budget, want, local, runtime>>
    BY DEF Heartbeat, entryVars
  <1>3. ~FreeMgr(m)
    BY <1>1, Serving DEF Owner
  <1>4. mreg[m] \in Rids /\ reg[mreg[m]] \in Registries
    BY <1>3, InUse DEF Owner
  <1> DEFINE rs == record_seen(reg[mreg[m]], p)
             P == sess[m] \cup {p}
  <1>5. /\ rs \in Registries /\ Configuration(rs) = Configuration(reg[mreg[m]])
        /\ \A q \in PNs : Up(rs, q) => q = p \/ Up(reg[mreg[m]], q)
    BY <1>4, RecordSeen
  <1>6. P \in SUBSET PNs
    BY DEF Owner, MgrTypeOK
  <1> HIDE DEF rs
  <1>7. \A q \in PNs : Up(rs, q) => q \in P
    BY <1>3, <1>5 DEF Owner, StatusIsTrue
  <1>8. reg' = [reg EXCEPT ![mreg[m]] = rs] /\ sess' = [sess EXCEPT ![m] = P]
    BY <1>1 DEF rs
  <1> HIDE DEF P
  <1>9. Owner'
    BY <1>1, <1>2, <1>3, <1>5, <1>6, <1>7, <1>8, SessionSteps
  <1>10. QED
    BY <1>4, <1>5, <1>8, <1>9, ConfigurationKeeps

\* A dongle drops.
LEMMA DongleDropsOwner ==
  ASSUME Owner, EntryTypeOK, NEW p \in PNs, DongleDrops(p)
  PROVE  /\ Owner'
         /\ runtime # NoReg => Configuration(reg'[runtime]) = Configuration(reg[runtime])
  <1>1. PICK m \in Mids : /\ p \in sess[m]
                          /\ sess' = [sess EXCEPT ![m] = sess[m] \ {p}]
                          /\ reg' = [reg EXCEPT ![mreg[m]] = mark_disconnected(reg[mreg[m]], {p})]
    BY DEF DongleDrops
  <1>2. UNCHANGED <<mgr, server, closing, mreg, budget, want, local, runtime>>
    BY DEF DongleDrops, entryVars
  <1>3. ~FreeMgr(m) /\ server[m] = "bound"
    BY <1>1, Serving DEF Owner, ManagersApart
  <1>4. mreg[m] \in Rids /\ reg[mreg[m]] \in Registries
    BY <1>3, InUse DEF Owner
  <1> DEFINE rs == mark_disconnected(reg[mreg[m]], {p})
             P == sess[m] \ {p}
  <1>5. /\ rs \in Registries /\ Configuration(rs) = Configuration(reg[mreg[m]])
        /\ \A q \in PNs : Up(rs, q) => Up(reg[mreg[m]], q) /\ q \notin {p}
    BY <1>4, MarkDisconnected
  <1>6. P \in SUBSET PNs
    BY DEF Owner, MgrTypeOK
  <1> HIDE DEF rs
  <1>7. \A q \in PNs : Up(rs, q) => q \in P
    BY <1>3, <1>5 DEF Owner, StatusIsTrue
  <1>8. reg' = [reg EXCEPT ![mreg[m]] = rs] /\ sess' = [sess EXCEPT ![m] = P]
    BY <1>1 DEF rs
  <1> HIDE DEF P
  <1>9. Owner'
    BY <1>2, <1>3, <1>5, <1>6, <1>7, <1>8, SessionSteps
  <1>10. QED
    BY <1>4, <1>5, <1>8, <1>9, ConfigurationKeeps

\* The end of shutdown(): the manager is free afterwards, or keeps its registry.
LEMMA ShutdownOwner ==
  ASSUME Owner, EntryTypeOK, PhaseHolds, NEW m \in Mids, ShutdownEnds(m)
  PROVE  /\ Owner'
         /\ runtime # NoReg => Configuration(reg'[runtime]) = Configuration(reg[runtime])
  <1> DEFINE kept == server[m] = "starting" \/ (phase = "loading" /\ want = m)
             rs   == IF kept \/ runtime = mreg[m] THEN mark_disconnected(reg[mreg[m]], sess[m])
                                                  ELSE Empty
  <1>1. /\ m \in closing /\ closing' = closing \ {m}
        /\ reg' = [reg EXCEPT ![mreg[m]] = rs]
        /\ mreg' = [mreg EXCEPT ![m] = IF kept THEN mreg[m] ELSE NoReg]
        /\ sess' = [sess EXCEPT ![m] = {}]
        /\ server' = [server EXCEPT ![m] = IF server[m] = "bound" THEN "none" ELSE server[m]]
        /\ UNCHANGED <<mgr, budget, runtime, local>>
    BY DEF ShutdownEnds
  <1>2. want' = want \/ (want = m /\ want' = NoMgr)
    BY DEF ShutdownEnds
  <1>3. ~FreeMgr(m) /\ m # mgr
    BY <1>1, HubAssumption DEF FreeMgr, Owner, ManagersApart
  <1>4. mreg[m] \in Rids /\ mreg[m] # NoReg /\ reg[mreg[m]] \in Registries
    BY <1>3, InUse DEF Owner
  <1>5. kept \/ want' # m
    <2>1. CASE phase = "closing" /\ want = m
      BY <2>1, HubAssumption DEF ShutdownEnds
    <2>2. CASE ~(phase = "closing" /\ want = m)
      BY <2>2, HubAssumption DEF ShutdownEnds, PhaseHolds
    <2>3. QED
      BY <2>1, <2>2
  <1>6. /\ rs \in Registries
        /\ \A q \in PNs : Up(rs, q) => Up(reg[mreg[m]], q) /\ q \notin sess[m]
        /\ runtime = mreg[m] => Configuration(rs) = Configuration(reg[mreg[m]])
    <2>1. CASE kept \/ runtime = mreg[m]
      <3>1. rs = mark_disconnected(reg[mreg[m]], sess[m])
        BY <2>1
      <3> HIDE DEF rs
      <3>2. QED
        BY <1>4, <3>1, MarkDisconnected
    <2>2. CASE ~(kept \/ runtime = mreg[m])
      <3>1. rs = Empty
        BY <2>2
      <3> HIDE DEF rs
      <3>2. QED
        BY <2>2, <3>1, EmptyRegistry
    <2>3. QED
      BY <2>1, <2>2
  <1> HIDE DEF rs
  <1>7. \A q \in PNs : ~Up(rs, q)
    BY <1>3, <1>6 DEF Owner, StatusIsTrue
  <1>8. MgrTypeOK'
    BY <1>1, <1>4, <1>6 DEF Owner, MgrTypeOK
  <1>9. /\ \A n \in Mids : sess'[n] = IF n = m THEN {} ELSE sess[n]
        /\ \A n \in Mids : n # m => mreg'[n] = mreg[n]
        /\ \A n \in Mids : server'[n] = IF n = m /\ server[n] = "bound" THEN "none" ELSE server[n]
        /\ \A q \in Rids : reg'[q] = IF q = mreg[m] THEN rs ELSE reg[q]
    BY <1>1, <1>4 DEF Owner, MgrTypeOK
  <1>10. mreg'[m] = mreg[m] \/ (mreg'[m] = NoReg /\ FreeMgr(m)')
    <2>1. CASE kept
      BY <1>1, <2>1 DEF Owner, MgrTypeOK
    <2>2. CASE ~kept
      <3>1. mreg'[m] = NoReg
        BY <1>1, <2>2 DEF Owner, MgrTypeOK
      <3>2. server'[m] \in {"none", "backoff"}
        BY <1>9, <2>2 DEF Owner, MgrTypeOK
      <3>3. QED
        BY <1>1, <1>3, <1>5, <2>2, <3>1, <3>2 DEF FreeMgr
    <2>3. QED
      BY <2>1, <2>2
  <1> HIDE DEF kept
  <1>11. \A n \in Mids \ {m} : FreeMgr(n) => FreeMgr(n)'
    BY <1>1, <1>2, <1>9, HubAssumption DEF FreeMgr
  <1>12. ManagersApart'
    <2>1. mgr' # NoMgr => mgr' \notin closing'
      BY <1>1 DEF Owner, ManagersApart
    <2>2. \A n, q \in Mids : server'[n] = "bound" /\ server'[q] = "bound" => n = q
      BY <1>9 DEF Owner, ManagersApart
    <2>3. \A n \in Mids : ~FreeMgr(n)' => mreg'[n] # NoReg
      BY <1>4, <1>9, <1>10, <1>11 DEF Owner, ManagersApart
    <2>4. \A n \in Mids : sess'[n] # {} => server'[n] = "bound"
      BY <1>9 DEF Owner, ManagersApart
    <2>5. ASSUME NEW n \in Mids, NEW q \in Mids \ {n}, mreg'[n] = mreg'[q]
          PROVE  mreg'[n] = NoReg \/ FreeMgr(n)' \/ FreeMgr(q)'
      <3>1. CASE n = m
        BY <1>3, <1>9, <1>10, <1>11, <2>5, <3>1 DEF Owner, ManagersApart
      <3>2. CASE q = m
        BY <1>3, <1>9, <1>10, <1>11, <2>5, <3>2 DEF Owner, ManagersApart
      <3>3. CASE n # m /\ q # m
        BY <1>9, <1>11, <2>5, <3>3 DEF Owner, ManagersApart
      <3>4. QED
        BY <3>1, <3>2, <3>3
    <2>6. QED
      BY <2>1, <2>2, <2>3, <2>4, <2>5 DEF ManagersApart
  <1>13. StatusIsTrue'
    <2>1. ASSUME NEW n \in Mids, ~FreeMgr(n)', NEW p \in PNs, Up(reg'[mreg'[n]], p)
          PROVE  p \in sess'[n]
      <3>1. CASE n = m
        <4>1. mreg'[m] = mreg[m]
          BY <1>10, <2>1, <3>1
        <4>2. QED
          BY <1>4, <1>7, <1>9, <2>1, <3>1, <4>1
      <3>2. CASE n # m
        <4>1. ~FreeMgr(n)
          BY <1>11, <2>1, <3>2
        <4>2. mreg[n] \in Rids /\ mreg[n] # mreg[m]
          BY <1>3, <1>4, <3>2, <4>1, InUse DEF Owner, ManagersApart
        <4>3. Up(reg[mreg[n]], p)
          BY <1>9, <2>1, <3>2, <4>2
        <4>4. QED
          BY <1>9, <3>2, <4>1, <4>3 DEF Owner, StatusIsTrue
      <3>3. QED
        BY <3>1, <3>2
    <2>2. QED
      BY <1>1, <2>1 DEF Owner, StatusIsTrue, Up
  <1>14. NoPhantomConnections'
    <2>1. ASSUME runtime' # NoReg, NEW p \in PNs, Up(reg'[runtime'], p)
          PROVE  \E n \in Mids : mreg'[n] = runtime' /\ p \in sess'[n]
      <3>1. runtime' = runtime /\ runtime \in Rids
        BY <1>1, <2>1 DEF EntryTypeOK
      <3>2. runtime # mreg[m]
        BY <1>7, <1>9, <2>1, <3>1
      <3>3. Up(reg[runtime], p)
        BY <1>9, <2>1, <3>1, <3>2
      <3>4. PICK n \in Mids : mreg[n] = runtime /\ p \in sess[n]
        BY <2>1, <3>1, <3>3 DEF Owner, NoPhantomConnections
      <3>5. n # m
        BY <3>2, <3>4
      <3>6. QED
        BY <1>9, <3>1, <3>4, <3>5
    <2>2. QED
      BY <2>1 DEF NoPhantomConnections, Up
  <1>15. runtime # NoReg => Configuration(reg'[runtime]) = Configuration(reg[runtime])
    BY <1>6, <1>9 DEF EntryTypeOK
  <1>16. QED
    BY <1>8, <1>12, <1>13, <1>14, <1>15 DEF Owner

\* HubAdopts: the hub and the manager it awaited share one registry, which nobody else
\* in use has; it is the manager's own, or what set-up had loaded.
LEMMA HubAdoptsOwner ==
  ASSUME Owner, EntryTypeOK, PhaseHolds, HubAdopts
  PROVE  /\ Owner'
         /\ runtime' \in Rids
         /\ \E rs \in Registries :
              /\ reg'[runtime'] = rs
              /\ targets' = Configuration(rs)
              /\ foreign' = (foreign \/ Configuration(rs) # Configuration(local))
  <1> DEFINE own == reg[mreg[want]]
             rs  == IF own = Empty THEN local ELSE own
  <1>1. phase = "loading" /\ server[want] = "bound" /\ want' = NoMgr /\ local' = NoData
        /\ UNCHANGED <<mgr, server, closing, sess, budget>>
    BY DEF HubAdopts
  <1>2. want \in Mids /\ want # NoMgr
    BY <1>1 DEF PhaseHolds, EntryTypeOK
  <1>3. local \in Registries /\ \A p \in PNs : ~Up(local, p)
    BY <1>1 DEF PhaseHolds, EntryTypeOK, Owner, StatusIsTrue
  <1>4. ~FreeMgr(want)
    BY <1>1, <1>2, Serving DEF Owner
  <1>5. mreg[want] \in Rids /\ mreg[want] # NoReg /\ own \in Registries
    BY <1>2, <1>4, InUse DEF Owner
  <1>6. rs \in Registries
    BY <1>3, <1>5
  <1>7. \A p \in PNs : Up(rs, p) => p \in sess[want]
    <2>1. \A p \in PNs : Up(own, p) => p \in sess[want]
      BY <1>2, <1>4 DEF Owner, StatusIsTrue
    <2>2. CASE own = Empty
      BY <1>3, <2>2
    <2>3. CASE own # Empty
      BY <2>1, <2>3
    <2>4. QED
      BY <2>2, <2>3
  <1>8. PICK r \in Rids :
          /\ FreeReg(r) \/ r = mreg[want]
          /\ mreg' = [mreg EXCEPT ![want] = r]
          /\ reg' = [reg EXCEPT ![r] = rs]
          /\ runtime' = r
    BY DEF HubAdopts
  <1>9. /\ targets' = Configuration(rs)
        /\ foreign' = (foreign \/ Configuration(rs) # Configuration(local))
    BY DEF HubAdopts, build_child_targets
  <1> HIDE DEF rs
  <1>10. MgrTypeOK'
    BY <1>1, <1>2, <1>6, <1>8 DEF Owner, MgrTypeOK
  <1>11. /\ \A n \in Mids : mreg'[n] = IF n = want THEN r ELSE mreg[n]
         /\ \A q \in Rids : reg'[q] = IF q = r THEN rs ELSE reg[q]
    BY <1>2, <1>8 DEF Owner, MgrTypeOK
  <1>12. r # NoReg /\ \A n \in Mids \ {want} : mreg[n] = r => FreeMgr(n)
    BY <1>2, <1>4, <1>5, <1>8, HubAssumption DEF FreeReg, Owner, ManagersApart
  <1>13. \A n \in Mids : FreeMgr(n) => FreeMgr(n)'
    BY <1>1, HubAssumption DEF FreeMgr
  <1>14. ManagersApart'
    <2>1. \A n \in Mids : ~FreeMgr(n)' => mreg'[n] # NoReg
      BY <1>11, <1>12, <1>13 DEF Owner, ManagersApart
    <2>2. ASSUME NEW n \in Mids, NEW q \in Mids \ {n}, mreg'[n] = mreg'[q]
          PROVE  mreg'[n] = NoReg \/ FreeMgr(n)' \/ FreeMgr(q)'
      <3>1. CASE n = want
        BY <1>11, <1>12, <1>13, <2>2, <3>1
      <3>2. CASE q = want
        BY <1>11, <1>12, <1>13, <2>2, <3>2
      <3>3. CASE n # want /\ q # want
        BY <1>11, <1>13, <2>2, <3>3 DEF Owner, ManagersApart
      <3>4. QED
        BY <3>1, <3>2, <3>3
    <2>3. QED
      BY <1>1, <2>1, <2>2 DEF Owner, ManagersApart
  <1>15. StatusIsTrue'
    <2>1. ASSUME NEW n \in Mids, ~FreeMgr(n)', NEW p \in PNs, Up(reg'[mreg'[n]], p)
          PROVE  p \in sess'[n]
      <3>1. CASE n = want
        BY <1>1, <1>7, <1>11, <2>1, <3>1
      <3>2. CASE n # want
        <4>1. ~FreeMgr(n) /\ mreg'[n] = mreg[n] /\ mreg[n] # r
          BY <1>11, <1>12, <1>13, <2>1, <3>2
        <4>2. Up(reg[mreg[n]], p)
          BY <1>11, <2>1, <4>1, InUse DEF Owner
        <4>3. QED
          BY <1>1, <4>1, <4>2 DEF Owner, StatusIsTrue
      <3>3. QED
        BY <3>1, <3>2
    <2>2. QED
      BY <1>1, <2>1 DEF StatusIsTrue, Up
  <1>16. NoPhantomConnections'
    <2>1. ASSUME NEW p \in PNs, Up(reg'[runtime'], p)
          PROVE  \E n \in Mids : mreg'[n] = runtime' /\ p \in sess'[n]
      BY <1>1, <1>2, <1>7, <1>8, <1>11, <2>1
    <2>2. QED
      BY <2>1 DEF NoPhantomConnections, Up
  <1>17. Owner'
    BY <1>10, <1>14, <1>15, <1>16 DEF Owner
  <1>18. QED
    BY <1>6, <1>8, <1>9, <1>11, <1>17

\* Home Assistant starts again with nothing but its files.
LEMMA CrashOwner ==
  ASSUME Owner, Crash
  PROVE  Owner'
  <1>1. MgrTypeOK'
    BY EmptyRegistry DEF Owner, MgrTypeOK, Crash
  <1>2. \A m \in Mids : FreeMgr(m)' /\ sess'[m] = {} /\ server'[m] = "none" /\ mreg'[m] = NoReg
    BY HubAssumption DEF Crash, FreeMgr
  <1>3. ManagersApart'
    BY <1>2 DEF ManagersApart, Crash
  <1>4. StatusIsTrue'
    BY <1>2 DEF StatusIsTrue, Crash
  <1>5. NoPhantomConnections'
    BY DEF NoPhantomConnections, Crash
  <1>6. QED
    BY <1>1, <1>3, <1>4, <1>5 DEF Owner

-----------------------------------------------------------------------------
(* The inductive invariant.                                                 *)

\* What the entry, its children and its Store keep.
Entry == /\ EntryTypeOK /\ ChildTypeOK /\ StoreTypeOK /\ ObsTypeOK
         /\ PhaseHolds /\ ChildrenMatch /\ EditsSurvive

HubAll == HubInv /\ ChildrenMatch /\ EditsSurvive /\ NoPhantomConnections

\* The invariant is its two sides.
LEMMA TwoSides == HubAll <=> Owner /\ Entry
  BY DEF HubAll, HubInv, HubTypeOK, Owner, Entry, EntryTypeOK, ChildTypeOK, StoreTypeOK,
         ObsTypeOK, MgrTypeOK

\* The same of the next state.
LEMMA TwoSidesNext ==
  ASSUME Owner', Entry'
  PROVE  HubAll'
  BY DEF HubAll, HubInv, HubTypeOK, Owner, Entry, EntryTypeOK, ChildTypeOK, StoreTypeOK,
         ObsTypeOK, MgrTypeOK

\* A step of the managers, which leaves the configuration the hub holds as it was.
LEMMA EntryFrame ==
  ASSUME Entry, UNCHANGED <<entryVars, childVars, disk, writing, obsVars>>, unsaved' \in BOOLEAN,
         runtime # NoReg => Configuration(reg'[runtime]) = Configuration(reg[runtime])
  PROVE  Entry'
  <1>1. /\ UNCHANGED <<kind, phase, late, runtime, local, want, targets, submitted, recon>>
        /\ UNCHANGED <<disk, writing, edited, foreign, raced>>
    BY DEF entryVars, childVars, obsVars
  <1>2. EntryTypeOK' /\ ChildTypeOK' /\ StoreTypeOK' /\ ObsTypeOK'
    BY <1>1 DEF Entry, EntryTypeOK, ChildTypeOK, StoreTypeOK, ObsTypeOK
  <1>3. PhaseHolds'
    BY <1>1 DEF Entry, PhaseHolds, HubRuns
  <1>4. phase = "refreshing" \/ HubRuns => runtime # NoReg
    BY DEF Entry, PhaseHolds
  <1>5. ChildrenMatch'
    BY <1>1, <1>4 DEF Entry, ChildrenMatch, HubRuns, Asked, build_child_targets
  <1>6. EditsSurvive'
    <2>1. Configuration(IF writing' = NoData THEN disk' ELSE writing')
            = Configuration(IF writing = NoData THEN disk ELSE writing)
      BY <1>1
    <2>2. Configuration(local') = Configuration(local)
      BY <1>1
    <2>3. QED
      BY <1>1, <2>1, <2>2 DEF Entry, EditsSurvive, Configuration
  <1>7. QED
    BY <1>2, <1>3, <1>5, <1>6 DEF Entry

\* A step that leaves the managers, the registries and who is in use alone.
LEMMA OwnerFrame ==
  ASSUME Owner, EntryTypeOK, UNCHANGED <<mgrVars, reg>>, local' \in {local, NoData},
         want' \in {want, NoMgr}, runtime' \in {runtime, NoReg}
  PROVE  Owner'
  <1>1. UNCHANGED <<mgr, server, closing, mreg, sess, budget>>
    BY DEF mgrVars
  <1>2. \A m \in Mids : FreeMgr(m) => FreeMgr(m)'
    BY <1>1, HubAssumption DEF FreeMgr
  <1>3. MgrTypeOK /\ (mgr # NoMgr => mgr \notin closing)
    BY DEF Owner, ManagersApart
  <1>4. QED
    BY <1>1, <1>2, <1>3, OwnerKeeps DEF MgrTypeOK

\* The types and the phases of an entry's step, and what it must say of its children
\* and of the configuration.
LEMMA EntryParts ==
  ASSUME EntryTypeOK', ChildTypeOK', StoreTypeOK', ObsTypeOK', PhaseHolds', ChildrenMatch',
         EditsSurvive'
  PROVE  Entry'
  BY DEF Entry

-----------------------------------------------------------------------------
(* The steps of the managers.                                               *)

\* Bound, BindFails, BackoffEnds and HubStartsAgain.
LEMMA ListenerInv ==
  ASSUME HubAll, \/ \E m \in Mids : Bound(m) \/ BindFails(m) \/ BackoffEnds(m)
                 \/ HubStartsAgain
  PROVE  HubAll'
  <1>1. Owner /\ Entry /\ EntryTypeOK
    BY TwoSides DEF Entry
  <1>2. UNCHANGED <<entryVars, childVars, disk, writing, obsVars, reg, mgr, closing, mreg, sess, budget>>
        /\ unsaved' \in BOOLEAN
    BY <1>1 DEF Bound, BindFails, BackoffEnds, HubStartsAgain, storeVars, Entry, StoreTypeOK
  <1>3. UNCHANGED <<want, local, runtime>>
    BY <1>2 DEF entryVars
  <1>4. ASSUME NEW m \in Mids, Bound(m) \/ BindFails(m) \/ BackoffEnds(m)
        PROVE  Owner'
    BY <1>1, <1>2, <1>3, <1>4, ServerSteps DEF Bound, BindFails, BackoffEnds, FreeMgr
  <1>5. CASE HubStartsAgain
    <2>1. want \in Mids
      BY <1>1, <1>5 DEF HubStartsAgain, Entry, PhaseHolds, EntryTypeOK
    <2>2. QED
      BY <1>1, <1>2, <1>3, <1>5, <2>1, ServerSteps, EntryFrame, TwoSidesNext
         DEF HubStartsAgain, FreeMgr
  <1>6. Entry'
    BY <1>1, <1>2, EntryFrame
  <1>7. QED
    BY <1>4, <1>5, <1>6, TwoSidesNext

\* Heartbeat and DongleDrops.
LEMMA DongleInv ==
  ASSUME HubAll, NEW p \in PNs, Heartbeat(p) \/ DongleDrops(p)
  PROVE  HubAll'
  <1>1. Owner /\ Entry /\ EntryTypeOK
    BY TwoSides DEF Entry
  <1>2. UNCHANGED <<entryVars, childVars, disk, writing, obsVars>> /\ unsaved' \in BOOLEAN
    BY <1>1 DEF Heartbeat, DongleDrops, Touches, Entry, StoreTypeOK
  <1>3. /\ Owner'
        /\ runtime # NoReg => Configuration(reg'[runtime]) = Configuration(reg[runtime])
    BY <1>1, HeartbeatOwner, DongleDropsOwner
  <1>4. QED
    BY <1>1, <1>2, <1>3, EntryFrame, TwoSidesNext

\* PollSends and Rescan.
LEMMA SendInv ==
  ASSUME HubAll, PollSends \/ Rescan
  PROVE  HubAll'
  <1>1. Owner /\ Entry /\ EntryTypeOK
    BY TwoSides DEF Entry
  <1>2. PICK m \in Mids : get_manager(m)
    BY DEF PollSends, Rescan
  <1>3. UNCHANGED <<entryVars, childVars, disk, writing, obsVars>> /\ unsaved' \in BOOLEAN
    BY <1>1 DEF PollSends, Rescan, storeVars, Entry, StoreTypeOK
  <1>4. Owner' /\ (runtime # NoReg => reg'[runtime] = reg[runtime])
    BY <1>1, <1>2, <1>3, GetManager DEF entryVars
  <1>5. QED
    BY <1>1, <1>3, <1>4, EntryFrame, TwoSidesNext

\* ShutdownEnds, which may end an unload.
LEMMA ShutdownInv ==
  ASSUME HubAll, NEW m \in Mids, ShutdownEnds(m)
  PROVE  HubAll'
  <1>1. Owner /\ Entry /\ EntryTypeOK /\ PhaseHolds
    BY TwoSides DEF Entry
  <1>2. /\ Owner'
        /\ runtime # NoReg => Configuration(reg'[runtime]) = Configuration(reg[runtime])
    BY <1>1, ShutdownOwner
  <1>3. UNCHANGED <<kind, late, runtime, local, targets, submitted, recon, disk, writing,
                    edited, foreign, raced>> /\ unsaved' \in BOOLEAN
    BY <1>1 DEF ShutdownEnds, childVars, obsVars, Touches, Entry, StoreTypeOK
  <1>4. CASE phase = "closing" /\ want = m
    <2>1. phase' = "unloaded" /\ want' = NoMgr
      BY <1>4 DEF ShutdownEnds
    <2>2. EntryTypeOK' /\ ChildTypeOK' /\ StoreTypeOK' /\ ObsTypeOK'
      BY <1>1, <1>3, <2>1 DEF Entry, EntryTypeOK, ChildTypeOK, StoreTypeOK, ObsTypeOK
    <2>3. PhaseHolds'
      BY <1>1, <1>3, <1>4, <2>1 DEF PhaseHolds, HubRuns
    <2>4. ChildrenMatch'
      BY <1>1, <1>3, <1>4, <2>1 DEF Entry, ChildrenMatch, HubRuns
    <2>5. runtime' = NoReg
      BY <2>1, <2>3 DEF PhaseHolds, HubRuns
    <2>6. EditsSurvive'
      BY <1>1, <1>3, <2>5 DEF Entry, EditsSurvive, Configuration
    <2>7. QED
      BY <1>2, <2>2, <2>3, <2>4, <2>6, EntryParts, TwoSidesNext
  <1>5. CASE ~(phase = "closing" /\ want = m)
    <2>1. UNCHANGED <<phase, want>>
      BY <1>5 DEF ShutdownEnds
    <2>2. UNCHANGED <<entryVars, childVars, disk, writing, obsVars>>
      BY <1>3, <2>1 DEF entryVars, childVars, obsVars
    <2>3. QED
      BY <1>1, <1>2, <1>3, <2>2, EntryFrame, TwoSidesNext
  <1>6. QED
    BY <1>4, <1>5

\* OtherUnload: the manager is shut down behind the hub's back.
LEMMA OtherUnloadInv ==
  ASSUME HubAll, OtherUnload
  PROVE  HubAll'
  <1>1. Owner /\ Entry /\ EntryTypeOK /\ MgrTypeOK
    BY TwoSides DEF Entry, Owner
  <1>2. /\ UNCHANGED <<entryVars, childVars, disk, writing, server, mreg, sess, reg, obsVars>>
        /\ mgr # NoMgr /\ mgr' = NoMgr /\ closing' = closing \cup {mgr} /\ unsaved' \in BOOLEAN
        /\ budget' \in [drains : Nat, tasks : Nat]
    BY <1>1 DEF OtherUnload, MgrTypeOK, storeVars, Entry, StoreTypeOK
  <1>3. UNCHANGED <<want, local, runtime>>
    BY <1>2 DEF entryVars
  <1>4. closing' \in SUBSET Mids
    BY <1>1, <1>2 DEF MgrTypeOK
  <1>5. \A m \in Mids : FreeMgr(m) => FreeMgr(m)'
    BY <1>2, <1>3, HubAssumption DEF FreeMgr
  <1>6. reg' \in [Rids -> Registries]
    BY <1>1, <1>2 DEF MgrTypeOK
  <1>7. Owner'
    BY <1>1, <1>2, <1>3, <1>4, <1>5, <1>6, OwnerKeeps
  <1>8. QED
    BY <1>1, <1>2, <1>7, EntryFrame, TwoSidesNext

-----------------------------------------------------------------------------
(* The steps of the entry.                                                  *)

\* LateCycleEnds, HubReady, LegacySetup and MigrationReloads: a phase goes over into
\* the next one and nothing else happens.
LEMMA PhaseInv ==
  ASSUME HubAll, LateCycleEnds \/ HubReady \/ LegacySetup \/ MigrationReloads
  PROVE  HubAll'
  <1>1. Owner /\ Entry /\ EntryTypeOK /\ PhaseHolds
    BY TwoSides DEF Entry
  <1>2. UNCHANGED <<runtime, local, want, targets, submitted, recon, disk, writing, unsaved, mgrVars, reg,
                    edited, foreign, raced>>
    BY DEF LateCycleEnds, HubReady, LegacySetup, MigrationReloads, childVars, storeVars, obsVars
  <1>3. Owner'
    BY <1>1, <1>2, OwnerFrame
  <1>4. EntryTypeOK' /\ ChildTypeOK' /\ StoreTypeOK' /\ ObsTypeOK'
    <2>1. late' \in BOOLEAN
      BY <1>1 DEF EntryTypeOK, LateCycleEnds, HubReady, LegacySetup, MigrationReloads
    <2>2. kind' \in {"device", "hub"}
          /\ phase' \in {"unloaded", "loading", "refreshing", "loaded", "migrating", "saving", "closing"}
      BY <1>1 DEF EntryTypeOK, LateCycleEnds, HubReady, LegacySetup, MigrationReloads
    <2>3. QED
      BY <1>1, <1>2, <2>1, <2>2 DEF Entry, EntryTypeOK, ChildTypeOK, StoreTypeOK, ObsTypeOK
  <1>5. PhaseHolds'
    BY <1>1, <1>2 DEF PhaseHolds, HubRuns, EntryTypeOK,
                      LateCycleEnds, HubReady, LegacySetup, MigrationReloads
  <1>6. ChildrenMatch'
    <2>1. ChildrenMatch /\ Asked' = Asked
      BY <1>1, <1>2 DEF Entry, Asked, build_child_targets, Configuration
    <2>2. CASE HubReady
      <3>1. phase = "refreshing" /\ phase' = "loaded"
        BY <2>2 DEF HubReady
      <3>2. recon = NoTask /\ targets = Asked
        BY <2>1, <3>1 DEF ChildrenMatch, HubRuns
      <3>3. QED
        BY <1>2, <2>1, <3>1, <3>2, NoTaskType DEF ChildrenMatch
    <2>3. CASE LateCycleEnds
      BY <1>2, <2>1, <2>3 DEF LateCycleEnds, ChildrenMatch, HubRuns
    <2>4. CASE LegacySetup \/ MigrationReloads
      <3>1. ~HubRuns /\ ~HubRuns' /\ phase' # "refreshing"
        BY <2>4 DEF LegacySetup, MigrationReloads, HubRuns
      <3>2. QED
        BY <1>2, <2>1, <3>1 DEF ChildrenMatch
    <2>5. QED
      BY <2>2, <2>3, <2>4
  <1>7. EditsSurvive'
    BY <1>1, <1>2 DEF Entry, EditsSurvive, Configuration
  <1>8. QED
    BY <1>3, <1>4, <1>5, <1>6, <1>7, EntryParts, TwoSidesNext

\* HubSetup: the Store's records, without the connections of the last run.
LEMMA HubSetupInv ==
  ASSUME HubAll, HubSetup
  PROVE  HubAll'
  <1>1. Owner /\ Entry /\ EntryTypeOK /\ PhaseHolds /\ StoreTypeOK
    BY TwoSides DEF Entry
  <1>2. PICK m \in Mids : get_manager(m) /\ want' = m
    BY DEF HubSetup
  <1>3. /\ kind = "hub" /\ phase = "unloaded" /\ phase' = "loading"
        /\ local' = reset_connection_state(disk)
        /\ UNCHANGED <<kind, late, runtime, targets, submitted, recon, disk, writing, unsaved,
                       edited, foreign, raced>>
    BY DEF HubSetup, childVars, storeVars, obsVars
  <1>4. want = NoMgr /\ runtime = NoReg /\ writing = NoData /\ m # NoMgr
    BY <1>1, <1>3, HubAssumption DEF PhaseHolds, HubRuns
  <1>5. /\ local' \in Registries /\ local' # NoData
        /\ Configuration(local') = Configuration(disk)
        /\ \A p \in PNs : ~Up(local', p)
    BY <1>1, <1>3, ResetConnections, NoneAssumption DEF StoreTypeOK
  <1>6. Owner'
    BY <1>1, <1>2, <1>3, <1>4, <1>5, GetManager
  <1>7. EntryTypeOK' /\ ChildTypeOK' /\ StoreTypeOK' /\ ObsTypeOK'
    BY <1>1, <1>2, <1>3, <1>5 DEF Entry, EntryTypeOK, ChildTypeOK, StoreTypeOK, ObsTypeOK
  <1>8. PhaseHolds'
    BY <1>2, <1>3, <1>4, <1>5 DEF PhaseHolds, HubRuns
  <1>9. ChildrenMatch'
    BY <1>1, <1>3 DEF Entry, ChildrenMatch, HubRuns
  <1>10. EditsSurvive'
    <2>1. foreign \/ Configuration(disk) = edited
      BY <1>1, <1>4 DEF Entry, EditsSurvive
    <2>2. foreign' \/ Configuration(local') = edited'
      BY <1>3, <1>5, <2>1
    <2>3. foreign' \/ Configuration(disk') = edited'
      BY <1>3, <2>1
    <2>4. writing' = NoData /\ runtime' = NoReg
      BY <1>3, <1>4
    <2>5. QED
      BY <2>2, <2>3, <2>4 DEF EditsSurvive, Configuration
  <1>11. QED
    BY <1>6, <1>7, <1>8, <1>9, <1>10, EntryParts, TwoSidesNext

\* HubStartFails: set-up is given up.
LEMMA HubStartFailsInv ==
  ASSUME HubAll, HubStartFails
  PROVE  HubAll'
  <1>1. Owner /\ Entry /\ EntryTypeOK /\ PhaseHolds
    BY TwoSides DEF Entry
  <1>2. /\ phase = "loading" /\ phase' = "unloaded" /\ local' = NoData /\ want' = NoMgr
        /\ UNCHANGED <<kind, late, runtime, targets, submitted, recon, disk, writing, unsaved, mgrVars, reg,
                       edited, foreign, raced>>
    BY DEF HubStartFails, childVars, storeVars, obsVars
  <1>3. Owner'
    BY <1>1, <1>2, OwnerFrame
  <1>4. EntryTypeOK' /\ ChildTypeOK' /\ StoreTypeOK' /\ ObsTypeOK'
    BY <1>1, <1>2 DEF Entry, EntryTypeOK, ChildTypeOK, StoreTypeOK, ObsTypeOK
  <1>5. PhaseHolds' /\ ChildrenMatch'
    BY <1>1, <1>2 DEF Entry, PhaseHolds, ChildrenMatch, HubRuns
  <1>6. EditsSurvive'
    BY <1>1, <1>2 DEF Entry, EditsSurvive, Configuration
  <1>7. QED
    BY <1>3, <1>4, <1>5, <1>6, EntryParts, TwoSidesNext

\* HubAdopts: what set-up found either agrees with the Store or is recorded as foreign.
LEMMA HubAdoptsInv ==
  ASSUME HubAll, HubAdopts
  PROVE  HubAll'
  <1>1. Owner /\ Entry /\ EntryTypeOK /\ PhaseHolds
    BY TwoSides DEF Entry
  <1>2. PICK rs \in Registries :
          /\ reg'[runtime'] = rs
          /\ targets' = Configuration(rs)
          /\ foreign' = (foreign \/ Configuration(rs) # Configuration(local))
    BY <1>1, HubAdoptsOwner
  <1>3. Owner' /\ runtime' \in Rids
    BY <1>1, HubAdoptsOwner
  <1>4. /\ phase = "loading" /\ phase' = "refreshing" /\ local' = NoData /\ want' = NoMgr
        /\ UNCHANGED <<kind, late, submitted, recon, disk, writing, unsaved, edited, raced>>
    BY DEF HubAdopts, storeVars
  <1>5. writing = NoData /\ recon = NoTask /\ local # NoData /\ kind = "hub" /\ runtime' # NoReg
    BY <1>1, <1>3, <1>4, HubAssumption DEF Entry, PhaseHolds, HubRuns, ChildrenMatch
  <1>6. EntryTypeOK' /\ ChildTypeOK' /\ StoreTypeOK'
    BY <1>1, <1>2, <1>3, <1>4, ConfigurationSet DEF Entry, EntryTypeOK, ChildTypeOK, StoreTypeOK
  <1>7. ObsTypeOK'
    BY <1>1, <1>2, <1>4 DEF Entry, ObsTypeOK
  <1>8. PhaseHolds'
    BY <1>4, <1>5 DEF PhaseHolds, HubRuns
  <1>9. ChildrenMatch'
    BY <1>2, <1>4, <1>5 DEF ChildrenMatch, HubRuns, Asked, build_child_targets
  <1>10. EditsSurvive'
    <2>1. SUFFICES ASSUME ~foreign'
                   PROVE  /\ Configuration(disk') = edited'
                          /\ Configuration(reg'[runtime']) = edited'
      BY <1>4, <1>5 DEF EditsSurvive, Configuration
    <2>2. ~foreign /\ Configuration(rs) = Configuration(local)
      BY <1>2, <2>1
    <2>3. Configuration(disk) = edited /\ Configuration(local) = edited
      BY <1>1, <1>5, <2>2 DEF Entry, EditsSurvive
    <2>4. QED
      BY <1>2, <1>4, <2>2, <2>3
  <1>11. QED
    BY <1>3, <1>6, <1>7, <1>8, <1>9, <1>10, EntryParts, TwoSidesNext

\* What a hub that ends leaves of its registry: nothing, or what a manager has.
LEMMA ForgottenOwner ==
  ASSUME MgrTypeOK, EntryTypeOK, runtime \in Rids
  PROVE  /\ Forgotten \in [Rids -> Registries]
         /\ \A m \in Mids : mreg[m] \in Rids => Forgotten[mreg[m]] = reg[mreg[m]]
  BY EmptyRegistry DEF Forgotten, MgrTypeOK

\* HubNotReady: the hub ends before it has begun.
LEMMA HubNotReadyInv ==
  ASSUME HubAll, HubNotReady
  PROVE  HubAll'
  <1>1. Owner /\ Entry /\ EntryTypeOK /\ PhaseHolds /\ MgrTypeOK
    BY TwoSides DEF Entry, Owner
  <1>2. /\ phase = "refreshing" /\ phase' = "unloaded" /\ runtime' = NoReg /\ targets' = {}
        /\ reg' = Forgotten
        /\ UNCHANGED <<kind, late, local, want, submitted, recon, disk, writing, unsaved,
                       mgr, server, closing, mreg, sess, budget, edited, foreign, raced>>
    BY DEF HubNotReady, storeVars, mgrVars, obsVars
  <1>3. runtime \in Rids
    BY <1>1, <1>2 DEF PhaseHolds, EntryTypeOK
  <1>4. \A m \in Mids : FreeMgr(m) => FreeMgr(m)'
    BY <1>2 DEF FreeMgr
  <1>5. \A m \in Mids : ~FreeMgr(m) => reg'[mreg[m]] = reg[mreg[m]]
    BY <1>1, <1>2, <1>3, ForgottenOwner, InUse DEF Owner
  <1>6. /\ reg' \in [Rids -> Registries] /\ mgr' \in Mids \cup {NoMgr} /\ closing' \in SUBSET Mids
        /\ budget' \in [drains : Nat, tasks : Nat] /\ (mgr' # NoMgr => mgr' \notin closing')
    BY <1>1, <1>2, <1>3, ForgottenOwner DEF MgrTypeOK, Owner, ManagersApart
  <1>7. Owner'
    BY <1>1, <1>2, <1>4, <1>5, <1>6, OwnerKeeps
  <1>8. EntryTypeOK' /\ ChildTypeOK' /\ StoreTypeOK' /\ ObsTypeOK'
    BY <1>1, <1>2 DEF Entry, EntryTypeOK, ChildTypeOK, StoreTypeOK, ObsTypeOK
  <1>9. PhaseHolds' /\ ChildrenMatch'
    BY <1>1, <1>2 DEF Entry, PhaseHolds, ChildrenMatch, HubRuns
  <1>10. EditsSurvive'
    BY <1>1, <1>2 DEF Entry, EditsSurvive, Configuration
  <1>11. QED
    BY <1>7, <1>8, <1>9, <1>10, EntryParts, TwoSidesNext

\* Persist and HubUnload: a snapshot of the hub's registry goes to the Store.
LEMMA SaveInv ==
  ASSUME HubAll, Persist \/ HubUnload
  PROVE  HubAll'
  <1>1. Owner /\ Entry /\ EntryTypeOK /\ PhaseHolds /\ MgrTypeOK
    BY TwoSides DEF Entry, Owner
  <1>2. /\ HubRuns /\ writing' = reg[runtime]
        /\ UNCHANGED <<kind, late, runtime, local, want, targets, submitted, disk, mgrVars, reg,
                       edited, foreign>>
        /\ \/ phase' = phase /\ recon' = recon /\ raced' = raced
           \/ phase' = "saving" /\ recon' = NoTask /\ raced' = FALSE
        /\ unsaved' = FALSE
    BY DEF Persist, HubUnload, HubRuns, Queued, entryVars, childVars, obsVars
  <1>3. runtime # NoReg /\ runtime \in Rids /\ reg[runtime] \in Registries /\ reg[runtime] # NoData
    BY <1>1, <1>2, NoneAssumption DEF PhaseHolds, EntryTypeOK, MgrTypeOK
  <1>4. Owner'
    BY <1>1, <1>2, OwnerFrame
  <1>5. EntryTypeOK' /\ ChildTypeOK' /\ StoreTypeOK' /\ ObsTypeOK'
    BY <1>1, <1>2, <1>3, NoTaskType
       DEF Entry, EntryTypeOK, ChildTypeOK, StoreTypeOK, ObsTypeOK
  <1>6. PhaseHolds'
    BY <1>1, <1>2, <1>3 DEF PhaseHolds, HubRuns
  <1>7. ChildrenMatch'
    BY <1>1, <1>2 DEF Entry, ChildrenMatch, HubRuns, Asked, build_child_targets
  <1>8. EditsSurvive'
    <2>1. foreign \/ (Configuration(reg[runtime]) = edited /\ local = NoData)
      BY <1>1, <1>2, <1>3 DEF Entry, EditsSurvive, PhaseHolds, HubRuns
    <2>2. QED
      BY <1>2, <1>3, <2>1 DEF EditsSurvive, Configuration
  <1>9. QED
    BY <1>4, <1>5, <1>6, <1>7, <1>8, EntryParts, TwoSidesNext

\* Written: what was handed to the Store is on disk.
LEMMA WrittenInv ==
  ASSUME HubAll, Written
  PROVE  HubAll'
  <1>1. Owner /\ Entry /\ EntryTypeOK /\ PhaseHolds
    BY TwoSides DEF Entry
  <1>2. /\ writing # NoData /\ disk' = writing /\ writing' = NoData
        /\ UNCHANGED <<kind, phase, late, runtime, local, want, targets, submitted, recon, mgrVars,
                       reg, edited, foreign, raced, unsaved>>
    BY DEF Written, entryVars, childVars, obsVars
  <1>3. Owner'
    BY <1>1, <1>2, OwnerFrame
  <1>4. EntryTypeOK' /\ ChildTypeOK' /\ StoreTypeOK' /\ ObsTypeOK'
    BY <1>1, <1>2 DEF Entry, EntryTypeOK, ChildTypeOK, StoreTypeOK, ObsTypeOK
  <1>5. PhaseHolds'
    BY <1>1, <1>2 DEF PhaseHolds, HubRuns
  <1>6. ChildrenMatch'
    BY <1>1, <1>2 DEF Entry, ChildrenMatch, HubRuns, Asked, build_child_targets
  <1>7. EditsSurvive'
    BY <1>1, <1>2 DEF Entry, EditsSurvive, Configuration
  <1>8. QED
    BY <1>3, <1>4, <1>5, <1>6, <1>7, EntryParts, TwoSidesNext

\* HubStops and LegacyUnload: the port's manager, if there is one, is shut down.
LEMMA StopInv ==
  ASSUME HubAll, HubStops \/ LegacyUnload
  PROVE  HubAll'
  <1>1. Owner /\ Entry /\ EntryTypeOK /\ PhaseHolds /\ MgrTypeOK
    BY TwoSides DEF Entry, Owner
  <1>2. /\ ShutsDown /\ runtime' = NoReg
        /\ UNCHANGED <<kind, local, submitted, recon, disk, writing, unsaved, edited, foreign, raced>>
        /\ UNCHANGED <<server, mreg, sess, budget>>
        /\ want = NoMgr /\ local = NoData /\ writing = NoData
    <2>1. CASE HubStops
      BY <1>1, <2>1 DEF HubStops, ShutsDown, PhaseHolds, storeVars, obsVars
    <2>2. CASE LegacyUnload
      BY <1>1, <2>2 DEF LegacyUnload, ShutsDown, PhaseHolds, HubRuns, childVars, storeVars, obsVars
    <2>3. QED
      BY <2>1, <2>2
  <1>3. targets' \in SUBSET PNs /\ late' \in BOOLEAN
    BY <1>1 DEF HubStops, LegacyUnload, childVars, Entry, ChildTypeOK, EntryTypeOK
  <1>4. /\ reg' \in [Rids -> Registries]
        /\ \A m \in Mids : ~FreeMgr(m) => reg'[mreg[m]] = reg[mreg[m]]
    <2>1. CASE HubStops
      <3>1. runtime \in Rids /\ reg' = Forgotten
        BY <1>1, <2>1 DEF HubStops, PhaseHolds, EntryTypeOK
      <3>2. QED
        BY <1>1, <3>1, ForgottenOwner, InUse DEF Owner
    <2>2. CASE LegacyUnload
      BY <1>1, <2>2 DEF LegacyUnload, MgrTypeOK
    <2>3. QED
      BY <2>1, <2>2
  <1>5. /\ mgr' = NoMgr
        /\ \/ mgr = NoMgr /\ phase' = "unloaded" /\ UNCHANGED <<closing, want>>
           \/ mgr # NoMgr /\ phase' = "closing" /\ want' = mgr /\ closing' = closing \cup {mgr}
    BY <1>2 DEF ShutsDown
  <1>6. \A m \in Mids : FreeMgr(m) => FreeMgr(m)'
    BY <1>2, <1>5, HubAssumption DEF FreeMgr
  <1>7. closing' \in SUBSET Mids /\ budget' \in [drains : Nat, tasks : Nat] /\ want' \in Mids \cup {NoMgr}
    BY <1>1, <1>2, <1>5 DEF MgrTypeOK, EntryTypeOK
  <1>8. Owner'
    BY <1>1, <1>2, <1>4, <1>5, <1>6, <1>7, OwnerKeeps
  <1>9. EntryTypeOK' /\ ChildTypeOK' /\ StoreTypeOK' /\ ObsTypeOK'
    <2>1. EntryTypeOK'
      BY <1>1, <1>2, <1>3, <1>5, <1>7 DEF EntryTypeOK
    <2>2. QED
      BY <1>1, <1>2, <1>3, <2>1 DEF Entry, ChildTypeOK, StoreTypeOK, ObsTypeOK
  <1>10. PhaseHolds'
    BY <1>2, <1>5 DEF PhaseHolds, HubRuns
  <1>11. recon = NoTask
    BY <1>1 DEF HubStops, LegacyUnload, Entry, ChildrenMatch, HubRuns
  <1>12. ChildrenMatch'
    BY <1>2, <1>5, <1>11 DEF ChildrenMatch, HubRuns
  <1>13. EditsSurvive'
    BY <1>1, <1>2 DEF Entry, EditsSurvive, Configuration
  <1>14. QED
    BY <1>8, <1>9, <1>10, <1>12, <1>13, EntryParts, TwoSidesNext

\* Migrate: the Store is about to get the configured child.
LEMMA MigrateInv ==
  ASSUME HubAll, NEW p \in PNs, Migrate(p)
  PROVE  HubAll'
  <1> DEFINE rec == [polled |-> TRUE, up |-> TRUE]
             rs  == [Empty EXCEPT ![p] = rec]
  <1>1. Owner /\ Entry /\ EntryTypeOK /\ PhaseHolds
    BY TwoSides DEF Entry
  <1>2. rec \in Records
    BY DEF Records
  <1> HIDE DEF rec
  <1>3. rs \in Registries /\ rs # NoData
    BY <1>2, EmptyRegistry, NoneAssumption DEF Registries
  <1>4. /\ kind = "device" /\ phase = "loaded" /\ phase' = "migrating"
        /\ writing' = rs /\ edited' = Configuration(rs)
        /\ UNCHANGED <<kind, late, runtime, local, want, targets, submitted, recon, disk, unsaved, mgrVars,
                       reg, foreign, raced>>
    BY DEF Migrate, Queued, childVars, rec
  <1> HIDE DEF rs
  <1>5. Owner'
    BY <1>1, <1>4, OwnerFrame
  <1>6. EntryTypeOK' /\ ChildTypeOK' /\ StoreTypeOK' /\ ObsTypeOK'
    BY <1>1, <1>3, <1>4, ConfigurationSet
       DEF Entry, EntryTypeOK, ChildTypeOK, StoreTypeOK, ObsTypeOK
  <1>7. PhaseHolds'
    BY <1>1, <1>4 DEF PhaseHolds, HubRuns
  <1>8. ChildrenMatch'
    BY <1>1, <1>4 DEF Entry, ChildrenMatch, HubRuns
  <1>9. EditsSurvive'
    <2>1. local' = NoData /\ runtime' = NoReg
      BY <1>1, <1>4 DEF PhaseHolds, HubRuns
    <2>2. QED
      BY <1>3, <1>4, <2>1 DEF EditsSurvive, Configuration
  <1>10. QED
    BY <1>5, <1>6, <1>7, <1>8, <1>9, EntryParts, TwoSidesNext

\* Submit: the form changes the registry of the hub, and what the manager that shares
\* it shows; nobody gets connected by it.
LEMMA SubmitInv ==
  ASSUME HubAll, NEW form \in [PNs -> FormRows], Submit(form)
  PROVE  HubAll'
  <1> DEFINE rs == apply_device_bulk(reg[runtime], form)
  <1>1. Owner /\ Entry /\ EntryTypeOK /\ PhaseHolds /\ MgrTypeOK
    BY TwoSides DEF Entry, Owner
  <1>2. HubRuns /\ runtime # NoReg /\ runtime \in Rids /\ reg[runtime] \in Registries
    BY <1>1 DEF Submit, HubRuns, PhaseHolds, EntryTypeOK, MgrTypeOK
  <1>3. /\ rs \in Registries /\ rs # NoData
        /\ \A q \in PNs : Up(rs, q) => Up(reg[runtime], q)
    BY <1>2, ApplyBulk, NoneAssumption
  <1>4. /\ reg' = [reg EXCEPT ![runtime] = rs] /\ writing' = rs /\ edited' = Configuration(rs)
        /\ submitted' = TRUE /\ unsaved' = FALSE
        /\ UNCHANGED <<kind, phase, late, runtime, local, want, targets, recon, disk,
                       mgr, server, closing, mreg, sess, budget, foreign, raced>>
    BY DEF Submit, Queued, entryVars, mgrVars
  <1> HIDE DEF rs
  <1>5. \A q \in Rids : reg'[q] = IF q = runtime THEN rs ELSE reg[q]
    BY <1>1, <1>4 DEF MgrTypeOK
  <1>6. \A m \in Mids : FreeMgr(m) => FreeMgr(m)'
    BY <1>4 DEF FreeMgr
  <1>7. \A m \in Mids, p \in PNs : ~FreeMgr(m) /\ Up(reg'[mreg[m]], p) => Up(reg[mreg[m]], p)
    BY <1>1, <1>3, <1>5, InUse DEF Owner
  <1>8. \A p \in PNs : Up(reg'[runtime], p) => Up(reg[runtime], p)
    BY <1>2, <1>3, <1>5
  <1>9. /\ reg' \in [Rids -> Registries] /\ mgr' \in Mids \cup {NoMgr} /\ closing' \in SUBSET Mids
        /\ budget' \in [drains : Nat, tasks : Nat] /\ (mgr' # NoMgr => mgr' \notin closing')
    BY <1>1, <1>3, <1>4 DEF MgrTypeOK, Owner, ManagersApart
  <1>10. Owner'
    BY <1>1, <1>4, <1>6, <1>7, <1>8, <1>9, OwnerKeeps
  <1>11. EntryTypeOK' /\ ChildTypeOK' /\ StoreTypeOK' /\ ObsTypeOK'
    BY <1>1, <1>3, <1>4, ConfigurationSet
       DEF Entry, EntryTypeOK, ChildTypeOK, StoreTypeOK, ObsTypeOK
  <1>12. PhaseHolds'
    BY <1>1, <1>2, <1>4 DEF PhaseHolds, HubRuns
  <1>13. ChildrenMatch'
    BY <1>1, <1>2, <1>4 DEF Entry, ChildrenMatch, HubRuns
  <1>14. EditsSurvive'
    <2>1. local' = NoData /\ reg'[runtime'] = rs
      BY <1>1, <1>2, <1>4, <1>5 DEF PhaseHolds, HubRuns
    <2>2. QED
      BY <1>3, <1>4, <2>1 DEF EditsSurvive, Configuration
  <1>15. QED
    BY <1>10, <1>11, <1>12, <1>13, <1>14, EntryParts, TwoSidesNext

\* What the steps of a reconcile leave alone.
LEMMA ReconcileFrame ==
  ASSUME HubAll, ChildTypeOK', ChildrenMatch', raced' \in BOOLEAN,
         UNCHANGED <<entryVars, storeVars, mgrVars, reg, edited, foreign>>
  PROVE  HubAll'
  <1>1. Owner /\ Entry /\ EntryTypeOK /\ PhaseHolds
    BY TwoSides DEF Entry
  <1>2. UNCHANGED <<kind, phase, late, runtime, local, want, disk, writing, unsaved>>
    BY DEF entryVars, storeVars
  <1>3. Owner'
    BY <1>1, <1>2, OwnerFrame
  <1>4. EntryTypeOK' /\ StoreTypeOK' /\ ObsTypeOK'
    BY <1>1, <1>2 DEF Entry, EntryTypeOK, StoreTypeOK, ObsTypeOK
  <1>5. PhaseHolds'
    BY <1>1, <1>2 DEF PhaseHolds, HubRuns
  <1>6. EditsSurvive'
    BY <1>1, <1>2 DEF Entry, EditsSurvive, Configuration
  <1>7. QED
    BY <1>3, <1>4, <1>5, <1>6, EntryParts, TwoSidesNext

\* ReconcileBegins: a task that is alone has the targets the registry asks for.
LEMMA ReconcileBeginsInv ==
  ASSUME HubAll, NEW t \in Tasks, ReconcileBegins(t)
  PROVE  HubAll'
  <1>1. Entry /\ ChildTypeOK
    BY TwoSides DEF Entry
  <1>2. /\ HubRuns /\ submitted' = FALSE /\ targets' = targets
        /\ recon' = [recon EXCEPT ![t] = Configuration(reg[runtime])]
        /\ raced' = (recon # NoTask)
        /\ UNCHANGED <<entryVars, storeVars, mgrVars, reg, edited, foreign>>
    BY DEF ReconcileBegins, build_child_targets
  <1>3. \A u \in Tasks : recon'[u] = IF u = t THEN Configuration(reg[runtime]) ELSE recon[u]
    BY <1>1, <1>2 DEF ChildTypeOK
  <1>4. ChildTypeOK'
    <2>1. recon' \in [Tasks -> (SUBSET PNs) \cup {NoData}] /\ targets' \in SUBSET PNs
      BY <1>1, <1>2, ConfigurationSet DEF ChildTypeOK
    <2>2. submitted' \in BOOLEAN
      BY <1>2
    <2>3. QED
      BY <2>1, <2>2 DEF ChildTypeOK
  <1>5. raced' \in BOOLEAN
    BY <1>2
  <1>6. HubRuns' /\ phase' # "refreshing" /\ Asked' = Configuration(reg[runtime])
    BY <1>2 DEF HubRuns, entryVars, Asked, build_child_targets, Configuration
  <1>7. recon' # NoTask
    BY <1>3, NoTaskType, ConfigurationSet
  <1>8. CASE recon = NoTask
    <2>1. \A u \in Tasks : u # t => recon'[u] = NoData
      BY <1>3, <1>8, NoTaskType
    <2>2. recon'[t] = Asked'
      BY <1>3, <1>6
    <2>3. ChildrenMatch'
      BY <1>6, <1>7, <2>1, <2>2 DEF ChildrenMatch
    <2>4. QED
      BY <1>2, <1>4, <1>5, <2>3, ReconcileFrame
  <1>9. CASE recon # NoTask
    <2>1. raced'
      BY <1>2, <1>9
    <2>2. ChildrenMatch'
      BY <1>6, <2>1 DEF ChildrenMatch
    <2>3. QED
      BY <1>2, <1>4, <1>5, <2>2, ReconcileFrame
  <1>10. QED
    BY <1>8, <1>9

\* ReconcileApplies: the targets of a task that is alone are set.
LEMMA ReconcileAppliesInv ==
  ASSUME HubAll, NEW t \in Tasks, ReconcileApplies(t)
  PROVE  HubAll'
  <1>1. Entry /\ ChildTypeOK /\ ObsTypeOK /\ ChildrenMatch
    BY TwoSides DEF Entry
  <1>2. /\ recon[t] # NoData /\ recon' = [recon EXCEPT ![t] = NoData] /\ targets' = recon[t]
        /\ UNCHANGED <<submitted, entryVars, storeVars, mgrVars, reg, edited, foreign, raced>>
    BY DEF ReconcileApplies, NewTargets, obsVars
  <1>3. \A u \in Tasks : recon'[u] = IF u = t THEN NoData ELSE recon[u]
    BY <1>1, <1>2 DEF ChildTypeOK
  <1>4. ChildTypeOK'
    BY <1>1, <1>2 DEF ChildTypeOK
  <1>5. raced' \in BOOLEAN
    BY <1>1, <1>2 DEF ObsTypeOK
  <1>6. HubRuns
    BY <1>1, <1>2, NoTaskType DEF ChildrenMatch
  <1>7. HubRuns' /\ phase' # "refreshing" /\ Asked' = Asked
    BY <1>2, <1>6 DEF HubRuns, entryVars, Asked, build_child_targets, Configuration
  <1>8. CASE ~raced
    <2>1. \A u \in Tasks : u # t => recon[u] = NoData
      BY <1>1, <1>2, <1>6, <1>8 DEF ChildrenMatch
    <2>2. recon' = NoTask
      BY <1>3, <1>4, <2>1, NoTaskType DEF ChildTypeOK
    <2>3. ~submitted => targets' = Asked
      BY <1>1, <1>2, <1>6, <1>8, NoTaskType DEF ChildrenMatch
    <2>4. ChildrenMatch'
      BY <1>2, <1>7, <2>2, <2>3, NoTaskType DEF ChildrenMatch
    <2>5. QED
      BY <1>2, <1>4, <1>5, <2>4, ReconcileFrame
  <1>9. CASE raced
    <2>1. ChildrenMatch'
      BY <1>2, <1>7, <1>9 DEF ChildrenMatch
    <2>2. QED
      BY <1>2, <1>4, <1>5, <2>1, ReconcileFrame
  <1>10. QED
    BY <1>8, <1>9

\* ReconcileReloads: there is no hub whose children could differ.
LEMMA ReconcileReloadsInv ==
  ASSUME HubAll, ReconcileReloads
  PROVE  HubAll'
  <1>1. Entry /\ ChildTypeOK /\ ObsTypeOK /\ ChildrenMatch
    BY TwoSides DEF Entry
  <1>2. /\ ~HubRuns /\ submitted' = FALSE
        /\ UNCHANGED <<targets, recon, entryVars, storeVars, mgrVars, reg, edited, foreign, raced>>
    BY DEF ReconcileReloads, obsVars
  <1>3. ChildTypeOK' /\ raced' \in BOOLEAN
    BY <1>1, <1>2 DEF ChildTypeOK, ObsTypeOK
  <1>4. ~HubRuns' /\ Asked' = Asked /\ phase' = phase
    BY <1>2 DEF HubRuns, entryVars, Asked, build_child_targets, Configuration
  <1>5. ChildrenMatch'
    BY <1>1, <1>2, <1>4 DEF ChildrenMatch
  <1>6. QED
    BY <1>2, <1>3, <1>5, ReconcileFrame

\* Crash: a save that was under way is lost, and so is the answer to the form.
LEMMA CrashInv ==
  ASSUME HubAll, Crash
  PROVE  HubAll'
  <1>1. Owner /\ Entry /\ EntryTypeOK
    BY TwoSides DEF Entry
  <1>2. Owner'
    BY <1>1, CrashOwner
  <1>3. /\ phase' = "unloaded" /\ late' = FALSE /\ runtime' = NoReg /\ local' = NoData
        /\ want' = NoMgr /\ targets' = {} /\ submitted' = FALSE /\ recon' = NoTask
        /\ writing' = NoData /\ unsaved' = FALSE /\ raced' = FALSE /\ UNCHANGED <<kind, disk, foreign>>
        /\ edited' = IF writing = NoData THEN edited ELSE Configuration(disk)
    BY DEF Crash
  <1>4. EntryTypeOK'
    BY <1>1, <1>3 DEF EntryTypeOK
  <1>5. ChildTypeOK' /\ StoreTypeOK'
    BY <1>1, <1>3, NoTaskType DEF Entry, ChildTypeOK, StoreTypeOK
  <1>6. ObsTypeOK'
    BY <1>1, <1>3, ConfigurationSet DEF Entry, ObsTypeOK
  <1>7. PhaseHolds' /\ ChildrenMatch'
    BY <1>3 DEF PhaseHolds, ChildrenMatch, HubRuns
  <1>8. EditsSurvive'
    <2>1. foreign \/ edited' = Configuration(disk)
      BY <1>1, <1>3 DEF Entry, EditsSurvive
    <2>2. QED
      BY <1>3, <2>1 DEF EditsSurvive, Configuration
  <1>9. QED
    BY <1>2, <1>4, <1>5, <1>6, <1>7, <1>8, EntryParts, TwoSidesNext

-----------------------------------------------------------------------------
(* The theorems.                                                            *)

\* An installation starts unloaded, with an empty Store.
LEMMA InitHub == Init => HubAll
  <1> SUFFICES ASSUME Init PROVE HubAll
    OBVIOUS
  <1>1. MgrTypeOK
    BY EmptyRegistry, HubAssumption DEF Init, MgrTypeOK
  <1>2. \A m \in Mids : FreeMgr(m)
    BY HubAssumption DEF Init, FreeMgr
  <1>3. ManagersApart /\ StatusIsTrue /\ NoPhantomConnections
    BY <1>2 DEF Init, ManagersApart, StatusIsTrue, NoPhantomConnections
  <1>4. EntryTypeOK /\ ChildTypeOK
    BY NoTaskType DEF Init, EntryTypeOK, ChildTypeOK
  <1>5. StoreTypeOK /\ ObsTypeOK
    BY EmptyRegistry DEF Init, StoreTypeOK, ObsTypeOK
  <1>6. PhaseHolds /\ ChildrenMatch
    BY DEF Init, PhaseHolds, ChildrenMatch, HubRuns
  <1>7. EditsSurvive
    BY EmptyRegistry DEF Init, EditsSurvive
  <1>8. QED
    BY <1>1, <1>3, <1>4, <1>5, <1>6, <1>7, TwoSides DEF Owner, Entry

\* Every step keeps the invariant.
LEMMA NextHub == HubAll /\ [Next]_vars => HubAll'
  <1> SUFFICES ASSUME HubAll, [Next]_vars PROVE HubAll'
    OBVIOUS
  <1>1. ASSUME NEW m \in Mids, Bound(m) \/ BindFails(m) \/ BackoffEnds(m) \/ ShutdownEnds(m)
        PROVE  HubAll'
    BY <1>1, ListenerInv, ShutdownInv
  <1>2. ASSUME NEW p \in PNs, Heartbeat(p) \/ DongleDrops(p) \/ Migrate(p)
        PROVE  HubAll'
    BY <1>2, DongleInv, MigrateInv
  <1>3. CASE LateCycleEnds \/ PollSends \/ Rescan
    BY <1>3, PhaseInv, SendInv
  <1>4. CASE HubSetup \/ HubStartsAgain \/ HubStartFails \/ HubAdopts
    BY <1>4, HubSetupInv, ListenerInv, HubStartFailsInv, HubAdoptsInv
  <1>5. CASE HubReady \/ HubNotReady \/ Persist \/ Written \/ HubUnload \/ HubStops
    BY <1>5, PhaseInv, HubNotReadyInv, SaveInv, WrittenInv, StopInv
  <1>6. CASE LegacySetup \/ LegacyUnload \/ OtherUnload \/ MigrationReloads
    BY <1>6, PhaseInv, StopInv, OtherUnloadInv
  <1>7. ASSUME NEW form \in [PNs -> FormRows], Submit(form)
        PROVE  HubAll'
    BY <1>7, SubmitInv
  <1>8. ASSUME NEW t \in Tasks, ReconcileBegins(t) \/ ReconcileApplies(t)
        PROVE  HubAll'
    BY <1>8, ReconcileBeginsInv, ReconcileAppliesInv
  <1>9. CASE ReconcileReloads \/ Crash
    BY <1>9, ReconcileReloadsInv, CrashInv
  <1>10. CASE UNCHANGED vars
    <2>1. Owner /\ Entry /\ EntryTypeOK
      BY TwoSides DEF Entry
    <2>2. /\ UNCHANGED <<entryVars, childVars, disk, writing, obsVars, mgrVars, reg>>
          /\ UNCHANGED <<local, want, runtime, unsaved>>
      BY <1>10 DEF vars, entryVars, childVars, storeVars, obsVars, mgrVars
    <2>3. QED
      BY <2>1, <2>2, OwnerFrame, EntryFrame, TwoSidesNext DEF Entry, StoreTypeOK
  <1>11. QED
    BY <1>1, <1>2, <1>3, <1>4, <1>5, <1>6, <1>7, <1>8, <1>9, <1>10 DEF Next

\* The inductive invariant holds throughout.
LEMMA HubAllHolds == Spec => []HubAll
  BY InitHub, NextHub, PTL DEF Spec

\* One listener, registries that are not shared between managers in use, and statuses
\* that are backed by sessions, in every interleaving of set-ups, unloads, drains,
\* late polls, reconciles, migration and crashes.
THEOREM HubSafety == Spec => []HubInv
  BY HubAllHolds, PTL DEF HubAll

\* async_reconcile_children: the children follow the registry, from the first refresh on
\* and after every reconcile that ran alone, of any number of tasks, in any order, begun
\* at any time; what overlapping ones leave is said of none.
THEOREM ChildrenMatchHolds == Spec => []ChildrenMatch
  BY HubAllHolds, PTL DEF HubAll

\* The devices form: the user's configuration survives.
THEOREM EditsSurviveHolds == Spec => []EditsSurvive
  BY HubAllHolds, PTL DEF HubAll

\* reset_connection_state, mark_disconnected: no phantom connections.
THEOREM NoPhantomConnectionsHolds == Spec => []NoPhantomConnections
  BY HubAllHolds, PTL DEF HubAll
=============================================================================
