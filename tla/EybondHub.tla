------------------------------ MODULE EybondHub ------------------------------
(***************************************************************************)
(* A config entry with EyBond devices and the manager of its listener port: *)
(* a hub entry (eybond_hub.py) with its discovery registry, Store and       *)
(* children, or a legacy single-device entry, which can be migrated to a    *)
(* hub; and the life cycle of managers (the end of eybond_dongle.py).       *)
(*                                                                          *)
(* A registry is an object: a hub's runtime and a manager usually hold the  *)
(* same one, and what goes wrong goes wrong when they do not.  Home         *)
(* Assistant's Store is external: a save is queued, then written to disk.   *)
(* Other entries appear where they touch this one: OtherUnload.             *)
(***************************************************************************)
EXTENDS Integers

CONSTANTS
  PNs,          \* dongles
  Mids,         \* identities of EybondManager objects
  Rids,         \* identities of EybondRegistry objects
  Tasks,        \* identities of reconcile tasks under way
  Budgets,      \* bounds of a behaviour: unloads of other legacy entries, tasks at once
  NoMgr, NoReg, NoRec, NoData

ASSUME HubAssumption == NoMgr \notin Mids /\ NoReg \notin Rids /\ Tasks \subseteq Nat
                       /\ Budgets \subseteq [drains : Nat, tasks : Nat]

VARIABLES
  kind,        \* _entry_kind: "device" or "hub"
  phase,       \* where set-up and unload of the entry stand
  late,        \* a cycle is under way although the legacy entry was unloaded
  runtime,     \* the registry of EybondHubRuntime (NoReg: no runtime)
  local,       \* the records set-up has loaded from the Store
  want,        \* the manager that set-up or unload awaits
  targets,     \* coordinator.devices: the children polled
  submitted,   \* the devices form is saved, its reconcile task not started
  recon,       \* of a reconcile task: the targets it has computed before it awaits the
               \* platforms (NoData: there is no such task)
  disk,        \* the Store's file
  writing,     \* data handed to the Store and not on disk yet
  unsaved,     \* the registry of the running hub is not what _last_saved holds
  mgr,         \* _managers[port]
  server,      \* of a manager: "none", "starting", "bound", or "backoff"
  closing,     \* managers whose shutdown() is under way
  mreg,        \* manager.registry
  budget,      \* how often other entries may still shut the managers down; tasks
  sess,        \* dongles with a session at the manager
  reg,         \* the records of a registry object
  edited,      \* observation: the configuration last given by the user
  foreign,     \* observation: the hub has taken a registry configured otherwise
  raced        \* observation: the last reconcile began while another was under way

entryVars == <<kind, phase, late, runtime, local, want>>
childVars == <<targets, submitted, recon>>
storeVars == <<disk, writing, unsaved>>
mgrVars   == <<mgr, server, closing, mreg, sess, budget>>
obsVars   == <<edited, foreign, raced>>
vars == <<kind, phase, late, runtime, local, want, targets, submitted, recon,
          disk, writing, unsaved, mgr, server, closing, mreg, sess, budget, reg,
          edited, foreign, raced>>

-----------------------------------------------------------------------------
(* Records and registries (eybond_discovery.py, eybond_children.py).        *)

\* DongleRecord.  polled is what the user configures: enabled, with a protocol.  up is
\* status = CONNECTED.
Records == [polled : BOOLEAN, up : BOOLEAN]
Registries == [PNs -> Records \cup {NoRec}]

\* No record and no data are told apart from records, registries and sets of dongles.
ASSUME NoneAssumption ==
  NoRec \notin Records /\ NoData \notin Registries /\ \A P \in SUBSET PNs : NoData # P

Empty == [p \in PNs |-> NoRec]

record_seen(rs, p) ==
  [rs EXCEPT ![p] = [polled |-> @ # NoRec /\ @.polled, up |-> TRUE]]

mark_disconnected(rs, P) ==
  [p \in PNs |-> IF p \in P /\ rs[p] # NoRec THEN [rs[p] EXCEPT !.up = FALSE] ELSE rs[p]]

\* Mutant: statuses of the previous run are kept.
reset_connection_state_Keeps(rs) == rs

reset_connection_state(rs) == mark_disconnected(rs, PNs)

Configuration(rs) == {p \in PNs : rs[p] # NoRec /\ rs[p].polled}

\* The children: a target for each enabled record with a supported protocol.
build_child_targets(rs) == Configuration(rs)

\* A row of the devices form.
FormRows == {"remove", "enable", "disable"}

\* _apply_device_bulk
apply_device_bulk(rs, form) ==
  [p \in PNs |->
     IF rs[p] = NoRec \/ form[p] = "remove" THEN NoRec
     ELSE [rs[p] EXCEPT !.polled = (form[p] = "enable")]]

-----------------------------------------------------------------------------
HubTypeOK ==
  /\ kind \in {"device", "hub"}
  /\ phase \in {"unloaded", "loading", "refreshing", "loaded", "migrating",
                "saving", "closing"}
  /\ late \in BOOLEAN
  /\ runtime \in Rids \cup {NoReg}
  /\ local \in Registries \cup {NoData}
  /\ want \in Mids \cup {NoMgr}
  /\ targets \in SUBSET PNs
  /\ submitted \in BOOLEAN
  /\ recon \in [Tasks -> (SUBSET PNs) \cup {NoData}]
  /\ disk \in Registries
  /\ writing \in Registries \cup {NoData} /\ unsaved \in BOOLEAN
  /\ mgr \in Mids \cup {NoMgr}
  /\ server \in [Mids -> {"none", "starting", "bound", "backoff"}]
  /\ closing \in SUBSET Mids
  /\ mreg \in [Mids -> Rids \cup {NoReg}]
  /\ sess \in [Mids -> SUBSET PNs]
  /\ budget \in [drains : Nat, tasks : Nat]
  /\ reg \in [Rids -> Registries]
  /\ edited \in SUBSET PNs
  /\ foreign \in BOOLEAN /\ raced \in BOOLEAN

NoTask == [t \in Tasks |-> NoData]

Init ==
  /\ kind \in {"device", "hub"}
  /\ phase = "unloaded" /\ late = FALSE
  /\ runtime = NoReg /\ local = NoData /\ want = NoMgr
  /\ targets = {} /\ submitted = FALSE /\ recon = NoTask
  /\ disk = Empty /\ writing = NoData /\ unsaved = FALSE
  /\ mgr = NoMgr /\ closing = {} /\ budget \in Budgets
  /\ server = [m \in Mids |-> "none"]
  /\ mreg = [m \in Mids |-> NoReg]
  /\ sess = [m \in Mids |-> {}]
  /\ reg = [r \in Rids |-> Empty]
  /\ edited = {} /\ foreign = FALSE /\ raced = FALSE

-----------------------------------------------------------------------------
(* Managers: _get_manager, ensure_started, shutdown.                        *)

\* Objects nothing refers to any more.
FreeMgr(m) == m # mgr /\ m # want /\ m \notin closing /\ server[m] \in {"none", "backoff"}
FreeReg(r) == r # runtime /\ \A m \in Mids : mreg[m] = r => FreeMgr(m)

\* Mutant: two listeners on a port.
PortTaken_Never == FALSE

\* The port can be bound by one listener.
PortTaken == \E m \in Mids : server[m] = "bound"

\* _get_manager: the port's manager m, made with an empty registry if there is
\* none, and (ensure_started) the start of its listener unless it runs or has just
\* failed.
get_manager(m) ==
  /\ IF mgr # NoMgr
       THEN /\ m = mgr
            /\ server' = [server EXCEPT ![m] = IF @ = "none" THEN "starting" ELSE @]
            /\ UNCHANGED <<mreg, reg>>
       ELSE /\ FreeMgr(m) /\ \A n \in Mids : FreeMgr(n) => m <= n
            /\ server' = [server EXCEPT ![m] = "starting"]
            /\ \E r \in Rids :
                 /\ FreeReg(r) /\ \A q \in Rids : FreeReg(q) => r <= q
                 /\ mreg' = [mreg EXCEPT ![m] = r]
                 /\ reg' = [reg EXCEPT ![r] = Empty]
  /\ mgr' = m
  /\ UNCHANGED <<closing, sess, budget>>

\* start_server returns; shutdown() may have come and gone meanwhile.
Bound(m) ==
  /\ server[m] = "starting" /\ ~PortTaken
  /\ server' = [server EXCEPT ![m] = "bound"]
  /\ UNCHANGED <<entryVars, childVars, storeVars, mgr, closing, mreg, sess, budget, reg, obsVars>>

BindFails(m) ==
  /\ server[m] = "starting" /\ PortTaken
  /\ server' = [server EXCEPT ![m] = "backoff"]
  /\ UNCHANGED <<entryVars, childVars, storeVars, mgr, closing, mreg, sess, budget, reg, obsVars>>

\* Mutant: a manager whose bind has failed once is not started again.
BackoffEnds_Never(m) == m \notin Mids /\ UNCHANGED vars

\* BIND_FAILURE_BACKOFF is over.
BackoffEnds(m) ==
  /\ server[m] = "backoff"
  /\ server' = [server EXCEPT ![m] = "none"]
  /\ UNCHANGED <<entryVars, childVars, storeVars, mgr, closing, mreg, sess, budget, reg, obsVars>>

HubRuns == kind = "hub" /\ phase = "loaded"

\* The records P of a registry object change.  to_dict holds timestamps, which
\* record_seen and mark_disconnected both set, so that the snapshot differs.
Touches(r, P) ==
  unsaved' = (unsaved \/ (HubRuns /\ runtime = r /\ \E p \in P : reg'[r][p] # NoRec))

\* The end of shutdown(): sessions dropped, the listener closed if there is one
\* by now.  An unload that awaited it is complete.
ShutdownEnds(m) ==
  /\ m \in closing
  /\ closing' = closing \ {m}
  /\ LET kept == server[m] = "starting" \/ (phase = "loading" /\ want = m)
     IN  /\ reg' = [reg EXCEPT ![mreg[m]] = IF kept \/ runtime = mreg[m]
                                              THEN mark_disconnected(@, sess[m]) ELSE Empty]
         /\ mreg' = [mreg EXCEPT ![m] = IF kept THEN @ ELSE NoReg]
  /\ Touches(mreg[m], sess[m])
  /\ sess' = [sess EXCEPT ![m] = {}]
  /\ server' = [server EXCEPT ![m] = IF @ = "bound" THEN "none" ELSE @]
  /\ IF phase = "closing" /\ want = m
       THEN phase' = "unloaded" /\ want' = NoMgr
       ELSE UNCHANGED <<phase, want>>
  /\ UNCHANGED <<kind, late, runtime, local, childVars, disk, writing, mgr, budget, obsVars>>

\* A heartbeat identifies the dongle's session or refreshes its record.
Heartbeat(p) ==
  \E m \in Mids :
    /\ server[m] = "bound"
    /\ sess' = [sess EXCEPT ![m] = @ \cup {p}]
    /\ reg' = [reg EXCEPT ![mreg[m]] = record_seen(@, p)]
    /\ Touches(mreg[m], {p})
    /\ UNCHANGED <<entryVars, childVars, disk, writing, mgr, server, closing, mreg, budget, obsVars>>

DongleDrops(p) ==
  \E m \in Mids :
    /\ p \in sess[m]
    /\ sess' = [sess EXCEPT ![m] = @ \ {p}]
    /\ reg' = [reg EXCEPT ![mreg[m]] = mark_disconnected(@, {p})]
    /\ Touches(mreg[m], {p})
    /\ UNCHANGED <<entryVars, childVars, disk, writing, mgr, server, closing, mreg, budget, obsVars>>

-----------------------------------------------------------------------------
(* Polls.  A cycle goes on while its entry is unloaded, and each of its     *)
(* commands asks for the manager; so does a rescan from the options of a    *)
(* hub, which can come at any time and stands for a hub's late polls too.   *)

\* The coordinator has something to poll.
Polls == phase \in {"refreshing", "loaded", "migrating"} /\ (kind = "device" \/ targets # {})

LateCycleEnds ==
  /\ late
  /\ late' = FALSE
  /\ UNCHANGED <<kind, phase, runtime, local, want, childVars, storeVars, mgrVars, reg, obsVars>>

\* There is no listener and none is being started.
NeedsStart == mgr # NoMgr => server[mgr] = "none"

\* send_eybond_bytes: _get_manager comes before every frame.
PollSends ==
  /\ Polls \/ late
  /\ NeedsStart
  /\ \E m \in Mids : get_manager(m)
  /\ UNCHANGED <<entryVars, childVars, storeVars, obsVars>>

\* The options flow of a hub, which need not be loaded.
Rescan ==
  /\ kind = "hub" /\ NeedsStart
  /\ \E m \in Mids : get_manager(m)
  /\ UNCHANGED <<entryVars, childVars, storeVars, obsVars>>

-----------------------------------------------------------------------------
(* Set-up, persistence and unload of a hub entry.                           *)

\* The Store is loaded and the manager asked for.
HubSetup ==
  /\ kind = "hub" /\ phase = "unloaded"
  /\ phase' = "loading"
  /\ local' = reset_connection_state(disk)
  /\ \E m \in Mids : get_manager(m) /\ want' = m
  /\ UNCHANGED <<kind, late, runtime, childVars, storeVars, obsVars>>

\* Set-up gets the start lock after shutdown() has closed the listener again.
HubStartsAgain ==
  /\ phase = "loading" /\ server[want] = "none"
  /\ server' = [server EXCEPT ![want] = "starting"]
  /\ UNCHANGED <<entryVars, childVars, storeVars, mgr, closing, mreg, sess, budget, reg, obsVars>>

\* ensure_started has raised OSError, or is within the back-off of one that did.
HubStartFails ==
  /\ phase = "loading" /\ server[want] = "backoff"
  /\ phase' = "unloaded" /\ local' = NoData /\ want' = NoMgr
  /\ UNCHANGED <<kind, late, runtime, childVars, storeVars, mgrVars, reg, obsVars>>

\* get_eybond_manager returns, having adopted the registry it was given if its own
\* was empty; the hub takes the manager's for its own, builds its children and polls
\* them for the first time.
HubAdopts ==
  LET own == reg[mreg[want]]
      rs  == IF own = Empty THEN local ELSE own
  IN  /\ phase = "loading" /\ server[want] = "bound"
      /\ phase' = "refreshing"
      /\ \E r \in Rids :
           /\ IF own = Empty THEN FreeReg(r) /\ \A q \in Rids : FreeReg(q) => r <= q
                             ELSE r = mreg[want]
           /\ mreg' = [mreg EXCEPT ![want] = r]
           /\ reg' = [reg EXCEPT ![r] = rs]
           /\ runtime' = r
      /\ targets' = build_child_targets(rs)
      /\ foreign' = (foreign \/ Configuration(rs) # Configuration(local))
      /\ local' = NoData /\ want' = NoMgr
      /\ UNCHANGED <<kind, late, submitted, recon, storeVars, mgr, server, closing, sess,
                     budget, edited, raced>>

\* The first refresh succeeds and EybondHubRuntime is made, whose _last_saved is the
\* registry as it is now, on disk or not.
HubReady ==
  /\ phase = "refreshing"
  /\ phase' = "loaded"
  /\ UNCHANGED <<kind, late, runtime, local, want, childVars, storeVars, mgrVars, reg, obsVars>>

\* The registry that runtime held is forgotten, unless a manager has it.
Forgotten ==
  IF \E m \in Mids : mreg[m] = runtime THEN reg ELSE [reg EXCEPT ![runtime] = Empty]

\* It raises: Home Assistant will try again; the manager keeps running.
HubNotReady ==
  /\ phase = "refreshing"
  /\ phase' = "unloaded" /\ runtime' = NoReg /\ targets' = {}
  /\ reg' = Forgotten
  /\ UNCHANGED <<kind, late, local, want, submitted, recon, storeVars, mgrVars, obsVars>>

\* Mutant: a save that finds another one under way is left out.
Queued_Skips(rs) == IF writing = NoData THEN rs ELSE writing

\* async_save: a snapshot of the registry handed to the Store.
Queued(rs) == rs

\* _persist_loop, every SAVE_INTERVAL: snap != _last_saved.
Persist ==
  /\ HubRuns /\ unsaved
  /\ writing' = Queued(reg[runtime]) /\ unsaved' = FALSE
  /\ UNCHANGED <<entryVars, childVars, disk, mgrVars, reg, obsVars>>

\* Mutant: after the save, _last_saved is read from the registry again.
Written_Rereads ==
  /\ writing # NoData
  /\ disk' = writing /\ writing' = NoData /\ unsaved' = FALSE
  /\ UNCHANGED <<entryVars, childVars, mgrVars, reg, obsVars>>

\* The save is complete and _last_saved its snapshot: what has changed since that was
\* taken is still unsaved.
Written ==
  /\ writing # NoData
  /\ disk' = writing /\ writing' = NoData
  /\ UNCHANGED <<unsaved, entryVars, childVars, mgrVars, reg, obsVars>>

\* Unload: the runtime leaves hass.data and stop() saves a last time.  Reconcile
\* tasks go on with a coordinator nobody uses.  A reconcile that fails ends in a
\* reload, which begins with this.
HubUnload ==
  /\ kind = "hub" /\ phase = "loaded"
  /\ phase' = "saving"
  /\ writing' = Queued(reg[runtime]) /\ unsaved' = FALSE
  /\ recon' = NoTask /\ raced' = FALSE
  /\ UNCHANGED <<kind, late, runtime, local, want, targets, submitted, disk, mgrVars,
                 reg, edited, foreign>>

\* The manager leaves _managers, its shutdown() begins, and unload awaits it.
ShutsDown ==
  /\ mgr' = NoMgr
  /\ IF mgr = NoMgr
       THEN phase' = "unloaded" /\ UNCHANGED <<closing, want>>
       ELSE phase' = "closing" /\ want' = mgr /\ closing' = closing \cup {mgr}
  /\ UNCHANGED <<server, mreg, sess, budget>>

\* shutdown_eybond_manager, at the end of stop().
HubStops ==
  /\ phase = "saving" /\ writing = NoData
  /\ runtime' = NoReg /\ targets' = {}
  /\ reg' = Forgotten
  /\ ShutsDown
  /\ UNCHANGED <<kind, late, local, submitted, recon, storeVars, obsVars>>

-----------------------------------------------------------------------------
(* Legacy entries.                                                          *)

LegacySetup ==
  /\ kind = "device" /\ phase = "unloaded"
  /\ phase' = "loaded"
  /\ UNCHANGED <<kind, late, runtime, local, want, childVars, storeVars, mgrVars, reg, obsVars>>

\* shutdown_all_eybond_managers
LegacyUnload ==
  /\ kind = "device" /\ phase = "loaded"
  /\ late' = TRUE
  /\ ShutsDown
  /\ UNCHANGED <<kind, runtime, local, childVars, storeVars, reg, obsVars>>

\* Another legacy entry is unloaded: the managers of all ports are shut down.
OtherUnload ==
  /\ mgr # NoMgr /\ budget.drains > 0
  /\ mgr' = NoMgr /\ closing' = closing \cup {mgr}
  /\ budget' = [budget EXCEPT !.drains = @ - 1]
  /\ UNCHANGED <<entryVars, childVars, storeVars, server, mreg, sess, reg, obsVars>>

\* async_migrate_legacy_to_hub: a configured child for a dongle that is connected
\* goes to the entry's Store.
Migrate(p) ==
  LET rs == [Empty EXCEPT ![p] = [polled |-> TRUE, up |-> TRUE]]
  IN  /\ kind = "device" /\ phase = "loaded"
      /\ mgr # NoMgr /\ server[mgr] = "bound" /\ p \in sess[mgr]
      /\ phase' = "migrating"
      /\ writing' = Queued(rs)
      /\ edited' = Configuration(rs)
      /\ UNCHANGED <<kind, late, runtime, local, want, childVars, disk, unsaved, mgrVars, reg,
                     foreign, raced>>

\* The hub options are applied and the entry reloaded: its unload finds the new
\* kind and no runtime, so the manager stays.
MigrationReloads ==
  /\ phase = "migrating" /\ writing = NoData
  /\ kind' = "hub" /\ phase' = "unloaded" /\ late' = FALSE
  /\ UNCHANGED <<runtime, local, want, childVars, storeVars, mgrVars, reg, obsVars>>

-----------------------------------------------------------------------------
(* The devices form of the options flow and async_reconcile_children.       *)

Submit(form) ==
  /\ kind = "hub" /\ phase = "loaded"
  /\ reg[runtime] # Empty
  /\ LET rs == apply_device_bulk(reg[runtime], form)
     IN  /\ reg' = [reg EXCEPT ![runtime] = rs]
         /\ writing' = Queued(rs) /\ unsaved' = FALSE
         /\ edited' = Configuration(rs)
  /\ submitted' = TRUE
  /\ UNCHANGED <<entryVars, targets, recon, disk, mgrVars, foreign, raced>>

\* A task of its own computes the new targets, then awaits the unload of the platforms;
\* others may be doing the same.
ReconcileBegins(t) ==
  /\ submitted /\ writing = NoData
  /\ HubRuns /\ recon[t] = NoData /\ t <= budget.tasks
  /\ \A u \in Tasks : recon[u] = NoData => t <= u
  /\ submitted' = FALSE
  /\ recon' = [recon EXCEPT ![t] = build_child_targets(reg[runtime])]
  /\ raced' = (recon # NoTask)
  /\ UNCHANGED <<entryVars, targets, storeVars, mgrVars, reg, edited, foreign>>

\* It finds no runtime and asks for a reload, which HubSetup stands for.
ReconcileReloads ==
  /\ submitted /\ writing = NoData /\ ~HubRuns
  /\ submitted' = FALSE
  /\ UNCHANGED <<entryVars, targets, recon, storeVars, mgrVars, reg, obsVars>>

\* Mutant: children that are gone go on being polled.
NewTargets_Adds(T) == targets \cup T

\* coordinator.set_targets
NewTargets(T) == T

\* set_targets and rebuild_items; the platforms are set up again.
ReconcileApplies(t) ==
  /\ recon[t] # NoData
  /\ recon' = [recon EXCEPT ![t] = NoData]
  /\ targets' = NewTargets(recon[t])
  /\ UNCHANGED <<entryVars, submitted, storeVars, mgrVars, reg, obsVars>>

\* Home Assistant is killed: files and options remain, and of a save that was under
\* way nothing (the form has not been answered).
Crash ==
  /\ phase' = "unloaded" /\ late' = FALSE
  /\ runtime' = NoReg /\ local' = NoData /\ want' = NoMgr
  /\ targets' = {} /\ submitted' = FALSE /\ recon' = NoTask
  /\ writing' = NoData /\ unsaved' = FALSE
  /\ mgr' = NoMgr /\ closing' = {} /\ budget' = budget
  /\ server' = [m \in Mids |-> "none"]
  /\ mreg' = [m \in Mids |-> NoReg]
  /\ sess' = [m \in Mids |-> {}]
  /\ reg' = [r \in Rids |-> Empty]
  /\ edited' = IF writing = NoData THEN edited ELSE Configuration(disk)
  /\ raced' = FALSE
  /\ UNCHANGED <<kind, disk, foreign>>

Next ==
  \/ \E m \in Mids : Bound(m) \/ BindFails(m) \/ BackoffEnds(m) \/ ShutdownEnds(m)
  \/ \E p \in PNs : Heartbeat(p) \/ DongleDrops(p) \/ Migrate(p)
  \/ LateCycleEnds \/ PollSends \/ Rescan
  \/ HubSetup \/ HubStartsAgain \/ HubStartFails \/ HubAdopts
  \/ HubReady \/ HubNotReady \/ Persist \/ Written \/ HubUnload \/ HubStops
  \/ LegacySetup \/ LegacyUnload \/ OtherUnload \/ MigrationReloads
  \/ \E form \in [PNs -> FormRows] : Submit(form)
  \/ \E t \in Tasks : ReconcileBegins(t) \/ ReconcileApplies(t)
  \/ ReconcileReloads
  \/ Crash

Spec == Init /\ [][Next]_vars

\* Tasks run: saves are written, shutdowns end, binds return, back-offs end, the
\* persist loop ticks, and a cycle is begun every update interval.
Fairness ==
  /\ WF_vars(Persist) /\ WF_vars(Written)
  /\ \A m \in Mids : /\ WF_vars(Bound(m) \/ BindFails(m))
                     /\ WF_vars(BackoffEnds(m)) /\ WF_vars(ShutdownEnds(m))
  /\ WF_vars(PollSends)

FairSpec == Spec /\ Fairness

-----------------------------------------------------------------------------
\* What the set-up, the unload and the save under way hold, by phase.
PhaseHolds ==
  /\ phase \in {"loading", "refreshing", "saving"} => kind = "hub"
  /\ phase = "loading" <=> local # NoData
  /\ phase \in {"loading", "closing"} <=> want # NoMgr
  /\ runtime # NoReg <=> phase \in {"refreshing", "saving"} \/ HubRuns
  /\ writing # NoData => phase \in {"migrating", "saving"} \/ HubRuns

\* One listener has the port and only it has sessions; managers in use have registries
\* of their own.
ManagersApart ==
  /\ mgr # NoMgr => mgr \notin closing
  /\ \A m, n \in Mids : server[m] = "bound" /\ server[n] = "bound" => m = n
  /\ \A m \in Mids :
       /\ ~FreeMgr(m) => mreg[m] # NoReg
       /\ sess[m] # {} => server[m] = "bound"
       /\ \A n \in Mids \ {m} : mreg[m] = mreg[n] => mreg[m] = NoReg \/ FreeMgr(m) \/ FreeMgr(n)

Up(rs, p) == rs[p] # NoRec /\ rs[p].up

\* What set-up has loaded shows no dongle as connected, and a manager in use only
\* those whose session it has.
StatusIsTrue ==
  /\ local # NoData => \A p \in PNs : ~Up(local, p)
  /\ \A m \in Mids : ~FreeMgr(m) => \A p \in PNs : Up(reg[mreg[m]], p) => p \in sess[m]

\* Who holds what: the manager and the registry a task waits for or holds exist, one
\* listener has the port, and a live manager's registry shows a dongle as connected
\* only if the manager has its session.
HubInv == HubTypeOK /\ PhaseHolds /\ ManagersApart /\ StatusIsTrue

Asked == build_child_targets(reg[runtime])

\* async_reconcile_children: what a hub polls is what its registry asks for, from its
\* first refresh on and whenever no form is waiting for its reconcile, if that ran alone:
\* the targets it is about to set are current, and it does not outlive its hub.  Of
\* reconciles that overlap an older one may be the last to set its targets; the next
\* that runs alone puts that right.
ChildrenMatch ==
  /\ recon # NoTask => HubRuns
  /\ phase = "refreshing" => targets = Asked
  /\ HubRuns /\ ~raced =>
       /\ \A t, u \in Tasks : recon[t] # NoData /\ recon[u] # NoData => t = u
       /\ ~submitted => IF recon = NoTask THEN targets = Asked
                        ELSE \A t \in Tasks : recon[t] \in {NoData, Asked}

\* The devices form: what the user configured is what the hub loads and uses and what
\* the Store has or is about to get, through reloads, failed set-ups, late polls,
\* drained managers, migration and restarts, unless set-up found a manager with a
\* registry configured otherwise.
EditsSurvive ==
  ~foreign => /\ Configuration(IF writing = NoData THEN disk ELSE writing) = edited
              /\ local # NoData => Configuration(local) = edited
              /\ runtime # NoReg => Configuration(reg[runtime]) = edited

\* reset_connection_state, mark_disconnected: a hub's registry shows a dongle as
\* connected only if it has a session, also after restarts, after its manager was
\* drained, and while the hub is saved for the last time.
NoPhantomConnections ==
  runtime # NoReg => \A p \in PNs : Up(reg[runtime], p)
                       => \E m \in Mids : mreg[m] = runtime /\ p \in sess[m]

\* _persist_loop: what changes in the registry of a running hub gets into the Store, so
\* that a dongle known by then is there, unless it is removed or the hub stops.
DiscoveriesAreSaved ==
  \A p \in PNs :
    (HubRuns /\ unsaved /\ reg[runtime][p] # NoRec)
      ~> (~HubRuns \/ reg[runtime][p] = NoRec \/ disk[p] # NoRec)

\* A start_server that returned after the shutdown of its manager has left a listener
\* that nobody owns, and the port is lost to it.
Orphaned == \E m \in Mids : server[m] = "bound" /\ m # mgr /\ m \notin closing

\* ensure_started on every send: whoever shuts the manager down, and whatever binds
\* fail, a hub with children gets a listener of its own again, unless one is orphaned.
PortIsServed ==
  (HubRuns /\ targets # {})
    ~> (IF mgr = NoMgr THEN FALSE ELSE server[mgr] = "bound") \/ Orphaned
       \/ ~HubRuns \/ targets = {}

\* async_migrate_legacy_to_hub: the migrated child is fully configured.
MigratedIsConfigured == HubRuns => Configuration(reg[runtime]) = edited
=============================================================================
