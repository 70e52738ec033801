--------------------------- MODULE Installations ---------------------------
(***************************************************************************)
(* The gateway's provisioning of attached sensors: the installation and    *)
(* attempt records in the database, the validate, apply and verify         *)
(* coroutines, the endpoints that change an installation from a worker     *)
(* thread, the removal and the guided restore that write every             *)
(* installation of the node, the other writers of the node's               *)
(* configuration, and the node's answer to their commands.                 *)
(*                                                                         *)
(* All installations are attached to one exclusive interface of one node   *)
(* (the microphone, the only interface the BLE adapter supports), so the   *)
(* per-node and the per-interface lock of apply() are one lock.            *)
(*                                                                         *)
(* A step of a coroutine ends at an await or at a commit: where it changes *)
(* an attempt and then the installation there are two commits, and a       *)
(* worker thread's commit or a restart may come between them. A request    *)
(* served by a worker thread reads the installation in one step and        *)
(* commits in another, with anything in between. A request that is refused *)
(* without changing a record is not a step.                                *)
(***************************************************************************)
EXTENDS Integers

CONSTANTS
  Installs,      \* installation ids
  Configs,       \* configurations an operator may ask for
  None,          \* no configuration, no installation
  MaxAttempts    \* bound: provisioning attempts in a behaviour

ASSUME NoneAssumption == None \notin Configs \cup Installs
ASSUME AttemptsAssumption == MaxAttempts \in Nat \ {0}

NoTx == 0
Transactions == 1 .. MaxAttempts

VARIABLES
  row,         \* SensorInstallation, by installation id
  attempt,     \* ProvisioningAttempt, by transaction id
  issued,      \* transaction ids handed out (uuid4 never repeats)
  job,         \* the apply() that holds the lock
  check,       \* the verify() calls waiting for their read-back
  pending,     \* what the coroutine now running has yet to commit of a row
  batch,       \* what a removal or a restore has yet to commit, by installation
  request,     \* the worker thread's request between its read and its commit
  verified,    \* BlePersistentConfigurator._verified, in memory
  device,      \* the configuration of the node, None while it is unassigned
  inflight,    \* a PROV or CFGSET command on its way to the node
  origin,      \* history: the attempt that the node's configuration is from
  touched,     \* history: acknowledged attempts that another writer overruled
  activated,   \* history: installations verify() has marked active
  waived,      \* history: installations upgrade-profile or restore was used on
  cut          \* history: installations whose row lost an attempt's outcome

dbVars   == <<row, attempt, issued>>
taskVars == <<job, check, pending, batch, request, verified>>
nodeVars == <<device, inflight, origin, touched>>
histVars == <<activated, waived, cut>>
vars     == <<dbVars, taskVars, nodeVars, histVars>>

-----------------------------------------------------------------------------
Verifiers == {"apply", "api"}   \* apply() itself, and the verify endpoint

NoRow     == [state |-> "none", cfg |-> None, prev |-> None, enabled |-> FALSE,
              tx |-> NoTx, archived |-> FALSE]
NoAttempt == [state |-> "none", inst |-> None, cfg |-> None]
NoJob     == [stage |-> "idle", inst |-> None, tx |-> NoTx, cfg |-> None]
NoCheck   == [inst |-> None, tx |-> NoTx, requested |-> None]
NoChange  == [inst |-> None, columns |-> <<>>]
NoBatch   == [i \in Installs |-> <<>>]
NoCommand == [kind |-> "none", cfg |-> None, tx |-> NoTx]

Exists(i) == row[i].state # "none"
Live(i)   == Exists(i) /\ ~row[i].archived

\* occupied_interface, excluding installation i itself.
Occupied(i) == \E j \in Installs \ {i} : Live(j) /\ row[j].enabled

\* What a session will commit of the row it loaded (snap) and changed to new:
\* SQLAlchemy flushes only the columns whose value differs.
Change(i, snap, new) ==
  [inst |-> i,
   columns |-> [c \in {d \in DOMAIN snap : new[d] # snap[d]} |-> new[c]]]

\* The commit, on the row as it is by then.
Merge(r, columns) == [c \in DOMAIN r |-> IF c \in DOMAIN columns THEN columns[c] ELSE r[c]]
Commit(change) == row' = [row EXCEPT ![change.inst] = Merge(@, change.columns)]

\* One coroutine runs at a time: another gets its turn only where the one
\* that runs awaits, never between two of its commits.
LoopFree == pending = NoChange /\ batch = NoBatch /\ job.stage # "acked"

Init ==
  /\ row = [i \in Installs |-> NoRow]
  /\ attempt = [t \in Transactions |-> NoAttempt]
  /\ issued = 0
  /\ job = NoJob
  /\ check = [v \in Verifiers |-> NoCheck]
  /\ pending = NoChange
  /\ batch = NoBatch
  /\ request = NoChange
  /\ verified = [t \in Transactions |-> None]
  /\ device = None
  /\ inflight = NoCommand
  /\ origin = NoTx
  /\ touched = {}
  /\ activated = {}
  /\ waived = {}
  /\ cut = {}

-----------------------------------------------------------------------------
(* Endpoints served by worker threads                                      *)

\* create_draft.
Create(i, c) ==
  /\ ~Exists(i) /\ ~Occupied(i)
  /\ row' = [row EXCEPT ![i] = [NoRow EXCEPT !.state = "draft", !.cfg = c]]
  /\ UNCHANGED <<attempt, issued, taskVars, nodeVars, histVars>>

\* Mutant: the configuration is kept as the previous one in every state.
PatchedKeepsPrevious(r, c) ==
  IF r.state = "active"
  THEN [r EXCEPT !.cfg = c, !.prev = r.cfg, !.state = "ready_to_apply", !.enabled = FALSE]
  ELSE [r EXCEPT !.cfg = c, !.prev = r.cfg]

\* SensorInstallationService.update with a configuration.
Patched(r, c) ==
  IF r.state = "active"
  THEN [r EXCEPT !.cfg = c, !.prev = r.cfg, !.state = "ready_to_apply", !.enabled = FALSE]
  ELSE [r EXCEPT !.cfg = c]

\* Mutant: a state that is none of the schema's.
DisabledInactive(r) == [r EXCEPT !.enabled = FALSE, !.state = "inactive"]

Disabled(r) == [r EXCEPT !.enabled = FALSE, !.state = "disabled"]
Archived(r) == [r EXCEPT !.enabled = FALSE, !.state = "disabled", !.archived = TRUE]

\* upgrade_profile: the configuration is kept and becomes the previous one.
Upgraded(r) == [r EXCEPT !.prev = r.cfg, !.state = "ready_to_apply", !.enabled = FALSE]

\* The endpoint loads the installation and works out the change; one that
\* changes no column but the time of the update is not a step.
RequestRead(i, new) ==
  /\ request = NoChange /\ Exists(i) /\ new # row[i]
  /\ request' = Change(i, row[i], new)
  /\ UNCHANGED <<dbVars, job, check, pending, batch, verified, nodeVars, activated, cut>>

Patch(i, c) == ~row[i].archived /\ RequestRead(i, Patched(row[i], c)) /\ UNCHANGED waived
Disable(i)  == RequestRead(i, Disabled(row[i])) /\ UNCHANGED waived
Archive(i)  == RequestRead(i, Archived(row[i])) /\ UNCHANGED waived
UpgradeProfile(i) == RequestRead(i, Upgraded(row[i])) /\ waived' = waived \cup {i}

\* The endpoint commits the change.
RequestCommit ==
  /\ request # NoChange
  /\ Commit(request)
  /\ request' = NoChange
  /\ UNCHANGED <<attempt, issued, job, check, pending, batch, verified, nodeVars, histVars>>

-----------------------------------------------------------------------------
(* validate()                                                              *)

\* The first commit, and the verdict of the profile and capability checks.
ValidateBegin(i, valid) ==
  /\ LoopFree /\ Live(i)
  /\ row' = [row EXCEPT ![i].state = "validating"]
  /\ LET r == row'[i] IN
     pending' = Change(i, r, IF valid
                             THEN [r EXCEPT !.state = "ready_to_apply"]
                             ELSE [r EXCEPT !.state = "failed", !.enabled = FALSE])
  /\ UNCHANGED <<attempt, issued, job, check, batch, request, verified, nodeVars, histVars>>

\* The commit of a row that ends a coroutine's run: the second one of
\* validate(), and the one after an attempt's in apply(), verify(), _fail and
\* _uncertain.
LoopCommit ==
  /\ pending # NoChange
  /\ Commit(pending)
  /\ pending' = NoChange
  /\ UNCHANGED <<attempt, issued, job, check, batch, request, verified, nodeVars, histVars>>

-----------------------------------------------------------------------------
(* The outcomes of an attempt                                              *)

\* The attempt's new state is committed, the installation's new row is next.
Decide(i, t, state, new) ==
  /\ attempt' = [attempt EXCEPT ![t].state = state]
  /\ pending' = Change(i, row[i], new)
  /\ UNCHANGED <<row, issued>>

\* Mutant: the failed transaction stays on the row.
FailedRowKeepsTransaction(r) ==
  IF r.prev # None
  THEN [r EXCEPT !.cfg = r.prev, !.prev = None, !.state = "active", !.enabled = TRUE]
  ELSE [r EXCEPT !.state = "failed", !.enabled = FALSE]

\* _fail: a previous configuration is put back, otherwise the failure shows.
FailedRow(r) ==
  IF r.prev # None
  THEN [r EXCEPT !.cfg = r.prev, !.prev = None, !.state = "active", !.tx = NoTx,
                 !.enabled = TRUE]
  ELSE [r EXCEPT !.state = "failed", !.tx = NoTx, !.enabled = FALSE]

Fail(i, t) == Decide(i, t, "failed", FailedRow(row[i]))

\* Mutant: the uncertain transaction is cleared as a failed one is.
UncertainRowDropsTransaction(r, t) ==
  IF r.prev # None
  THEN [r EXCEPT !.cfg = r.prev, !.prev = None, !.state = "active", !.tx = NoTx,
                 !.enabled = TRUE]
  ELSE [r EXCEPT !.state = "reconciling", !.tx = NoTx, !.enabled = FALSE]

\* _uncertain: as _fail, but the transaction stays on record.
UncertainRow(r, t) ==
  IF r.prev # None
  THEN [r EXCEPT !.cfg = r.prev, !.prev = None, !.state = "active", !.tx = t, !.enabled = TRUE]
  ELSE [r EXCEPT !.state = "reconciling", !.tx = t, !.enabled = FALSE]

Uncertain(i, t) == Decide(i, t, "reconciling", UncertainRow(row[i], t))

-----------------------------------------------------------------------------
(* apply()                                                                 *)

\* The attempt that the installation names is still being worked on.
InProgress(i) ==
  row[i].tx # NoTx /\ attempt[row[i].tx].state \in {"applying", "verifying", "active"}

\* Mutant: the attempt is not recorded before the node is touched.
ApplyBeginUnrecorded(i) ==
  /\ LoopFree /\ job = NoJob /\ issued < MaxAttempts
  /\ Live(i) /\ row[i].state = "ready_to_apply"
  /\ ~Occupied(i) /\ ~InProgress(i)
  /\ issued' = issued + 1
  /\ pending' = Change(i, row[i], [row[i] EXCEPT !.state = "applying", !.tx = issued + 1,
                                                !.enabled = FALSE])
  /\ job' = [stage |-> "device", inst |-> i, tx |-> issued + 1, cfg |-> row[i].cfg]
  /\ UNCHANGED <<row, attempt, check, batch, request, verified, nodeVars, histVars>>

\* apply() takes the lock and records the attempt before the node is touched.
ApplyBegin(i) ==
  /\ LoopFree /\ job = NoJob /\ issued < MaxAttempts
  /\ Live(i) /\ row[i].state = "ready_to_apply"
  /\ ~Occupied(i) /\ ~InProgress(i)
  /\ LET t == issued + 1 IN
     /\ issued' = t
     /\ attempt' = [attempt EXCEPT ![t] = [state |-> "applying", inst |-> i, cfg |-> row[i].cfg]]
     /\ pending' = Change(i, row[i], [row[i] EXCEPT !.state = "applying", !.tx = t,
                                                   !.enabled = FALSE])
     /\ job' = [stage |-> "device", inst |-> i, tx |-> t, cfg |-> row[i].cfg]
  /\ UNCHANGED <<row, check, batch, request, verified, nodeVars, histVars>>

\* provision(): an unassigned node is sent the PROV command. The node has one
\* command buffer, and drops what arrives while a command waits in it.
SendProv(c, t) ==
  /\ device = None /\ inflight = NoCommand
  /\ inflight' = [kind |-> "PROV", cfg |-> c, tx |-> t]

\* BlePersistentConfigurator.apply calls provision() for its attempt.
ApplySend ==
  /\ LoopFree /\ job.stage = "device"
  /\ SendProv(job.cfg, job.tx)
  /\ UNCHANGED <<dbVars, taskVars, device, origin, touched, histVars>>

\* The node's read-back matches: the attempt, then the row become verifying.
ApplyAck ==
  /\ LoopFree /\ job.stage = "device" /\ device = job.cfg
  /\ verified' = [verified EXCEPT ![job.tx] = job.cfg]
  /\ Decide(job.inst, job.tx, "verifying", [row[job.inst] EXCEPT !.state = "verifying"])
  /\ job' = [job EXCEPT !.stage = "acked"]
  /\ UNCHANGED <<check, batch, request, nodeVars, histVars>>

\* verify() up to its await, for verifier v.
VerifyRead(v, i) ==
  check' = [check EXCEPT ![v] = [inst |-> i, tx |-> row[i].tx, requested |-> row[i].cfg]]

\* Mutant: the lock is kept when verify() raises at once.
ApplyVerifyKeepsLock ==
  /\ job.stage = "acked" /\ pending = NoChange
  /\ row[job.inst].tx # NoTx
  /\ job' = [job EXCEPT !.stage = "verify"]
  /\ VerifyRead("apply", job.inst)
  /\ UNCHANGED <<dbVars, pending, batch, request, verified, nodeVars, histVars>>

\* apply() goes on with verify(), which raises if the installation no longer
\* names a transaction.
ApplyVerify ==
  /\ job.stage = "acked" /\ pending = NoChange
  /\ IF row[job.inst].tx = NoTx
     THEN job' = NoJob /\ UNCHANGED check
     ELSE job' = [job EXCEPT !.stage = "verify"] /\ VerifyRead("apply", job.inst)
  /\ UNCHANGED <<dbVars, pending, batch, request, verified, nodeVars, histVars>>

\* Acknowledgement timeout or transport failure, whatever the node did.
ApplyUncertain ==
  /\ LoopFree /\ job.stage = "device"
  /\ Uncertain(job.inst, job.tx)
  /\ job' = NoJob
  /\ UNCHANGED <<check, batch, request, verified, nodeVars, histVars>>

\* The node or the adapter rejects the command, or the read-back differs.
ApplyReject ==
  /\ LoopFree /\ job.stage = "device"
  /\ Fail(job.inst, job.tx)
  /\ job' = NoJob
  /\ UNCHANGED <<check, batch, request, verified, nodeVars, histVars>>

\* Any other exception of the BLE stack releases the lock and nothing else.
ApplyAbort ==
  /\ LoopFree /\ job.stage = "device"
  /\ job' = NoJob
  /\ UNCHANGED <<dbVars, check, pending, batch, request, verified, nodeVars, histVars>>

-----------------------------------------------------------------------------
(* verify()                                                                *)

VerifyBegin(i) ==
  /\ LoopFree /\ check["api"] = NoCheck /\ row[i].tx # NoTx
  /\ VerifyRead("api", i)
  /\ UNCHANGED <<dbVars, job, pending, batch, request, verified, nodeVars, histVars>>

VerifyDone(v) ==
  /\ check' = [check EXCEPT ![v] = NoCheck]
  /\ job' = IF v = "apply" THEN NoJob ELSE job
  /\ UNCHANGED <<batch, request, verified, nodeVars, waived, cut>>

\* read_back returns what the adapter remembers of the transaction, if anything.
ReadBackMatches(v) ==
  verified[check[v].tx] # None /\ verified[check[v].tx] = check[v].requested

VerifyActivate(v) ==
  /\ LoopFree /\ check[v] # NoCheck /\ ReadBackMatches(v)
  /\ LET i == check[v].inst IN
     /\ Decide(i, check[v].tx, "active",
               [row[i] EXCEPT !.prev = row[i].cfg, !.state = "active", !.enabled = TRUE,
                              !.tx = NoTx])
     /\ activated' = activated \cup {i}
  /\ VerifyDone(v)

\* No acknowledgement in memory, a mismatch, or no recent valid reading.
VerifyFail(v) ==
  /\ LoopFree /\ check[v] # NoCheck
  /\ Fail(check[v].inst, check[v].tx)
  /\ UNCHANGED activated
  /\ VerifyDone(v)

-----------------------------------------------------------------------------
(* Writers of the node's configuration that record no attempt. The         *)
(* provisioner's lock keeps them out while apply() is talking to the node. *)

\* Approval of a discovered node, and provision() of the guided workflow.
ProvisionElsewhere(c) ==
  /\ LoopFree /\ job.stage # "device"
  /\ SendProv(c, NoTx)
  /\ UNCHANGED <<dbVars, taskVars, device, origin, touched, histVars>>

\* configure_device: CFGSET unless the node already has the configuration.
Configure(c) ==
  /\ LoopFree /\ job.stage # "device"
  /\ device \notin {None, c} /\ inflight = NoCommand
  /\ inflight' = [kind |-> "CFGSET", cfg |-> c, tx |-> NoTx]
  /\ UNCHANGED <<dbVars, taskVars, device, origin, touched, histVars>>

-----------------------------------------------------------------------------
(* Writers of every installation of the node, in one session               *)

Removed(r)  == [r EXCEPT !.archived = TRUE, !.enabled = FALSE, !.state = "removed"]
Restored(r) == [r EXCEPT !.archived = FALSE, !.enabled = TRUE, !.state = "active"]

\* The session loads the installations there are and changes each to new[i].
LoadAll(new) ==
  /\ LoopFree
  /\ batch' = [i \in Installs |->
                 IF Exists(i) THEN Change(i, row[i], new[i]).columns ELSE <<>>]
  /\ UNCHANGED <<dbVars, job, check, pending, request, verified, nodeVars, activated, cut>>

\* DeviceLifecycleService.remove. A removed node can be restored without its
\* installations, so that one removal may follow another.
RemoveNode == LoadAll([i \in Installs |-> Removed(row[i])]) /\ UNCHANGED waived

\* provision() of the guided workflow with the choice to restore, after it has
\* read the identity of the node back.
RestoreNode ==
  /\ device # None
  /\ LoadAll([i \in Installs |-> Restored(row[i])])
  /\ waived' = waived \cup {i \in Installs : Exists(i)}

BatchCommit ==
  /\ batch # NoBatch
  /\ row' = [i \in Installs |-> Merge(row[i], batch[i])]
  /\ batch' = NoBatch
  /\ UNCHANGED <<attempt, issued, job, check, pending, request, verified, nodeVars, histVars>>

-----------------------------------------------------------------------------
(* The node, and a restart of the gateway                                  *)

\* Mutant: PROV replaces the configuration of an assigned node.
NodeProvisionsAnyway ==
  /\ inflight.kind = "PROV"
  /\ device' = inflight.cfg /\ origin' = inflight.tx
  /\ inflight' = NoCommand
  /\ UNCHANGED <<dbVars, taskVars, touched, histVars>>

\* The node executes the PROV command; an assigned node keeps what it has.
NodeProvisions ==
  /\ inflight.kind = "PROV"
  /\ IF device = None
     THEN device' = inflight.cfg /\ origin' = inflight.tx
     ELSE UNCHANGED <<device, origin>>
  /\ inflight' = NoCommand
  /\ UNCHANGED <<dbVars, taskVars, touched, histVars>>

\* The node's configuration becomes c (None: erased) by no attempt's command.
Overrule(c) ==
  /\ device' = c
  /\ origin' = NoTx
  /\ touched' = touched \cup {t \in Transactions : verified[t] # None}

\* The node executes CFGSET; an unassigned node refuses it.
NodeConfigures ==
  /\ inflight.kind = "CFGSET"
  /\ IF device = None THEN UNCHANGED <<device, origin, touched>> ELSE Overrule(inflight.cfg)
  /\ inflight' = NoCommand
  /\ UNCHANGED <<dbVars, taskVars, histVars>>

\* A PROV (unassigned node) or CFG command on the node's serial line, which no
\* lock of the gateway keeps apart from the BLE exchange.
LocalConfigure(c) ==
  /\ device # c
  /\ Overrule(c)
  /\ UNCHANGED <<dbVars, taskVars, inflight, histVars>>

\* The node is reset to its unassigned state.
NodeReset ==
  /\ device # None
  /\ Overrule(None)
  /\ UNCHANGED <<dbVars, taskVars, inflight, histVars>>

\* The command is lost with the connection.
CommandLost ==
  /\ inflight # NoCommand
  /\ inflight' = NoCommand
  /\ UNCHANGED <<dbVars, taskVars, device, origin, touched, histVars>>

\* Everything the process kept in memory is gone, the locks included, and with
\* it a row's part of an attempt that was already recorded.
Restart ==
  /\ job' = NoJob
  /\ check' = [v \in Verifiers |-> NoCheck]
  /\ pending' = NoChange
  /\ batch' = NoBatch
  /\ request' = NoChange
  /\ touched' = {}
  /\ verified' = [t \in Transactions |-> None]
  /\ cut' = IF "tx" \in DOMAIN pending.columns THEN cut \cup {pending.inst} ELSE cut
  /\ UNCHANGED <<dbVars, device, inflight, origin, activated, waived>>

\* What apply() does by itself.
ApplyStep ==
  \/ ApplyAck \/ ApplyVerify \/ ApplyUncertain \/ ApplyReject \/ ApplyAbort
  \/ VerifyActivate("apply") \/ VerifyFail("apply")

Requests ==
  \/ \E i \in Installs, c \in Configs : Create(i, c) \/ Patch(i, c)
  \/ \E i \in Installs : Disable(i) \/ Archive(i) \/ UpgradeProfile(i)
  \/ \E i \in Installs, valid \in BOOLEAN : ValidateBegin(i, valid)
  \/ \E i \in Installs : ApplyBegin(i) \/ VerifyBegin(i)
  \/ \E c \in Configs : ProvisionElsewhere(c) \/ Configure(c)
  \/ RemoveNode \/ RestoreNode

NodeStep ==
  \/ NodeProvisions \/ NodeConfigures \/ CommandLost \/ NodeReset
  \/ \E c \in Configs : LocalConfigure(c)

Next ==
  \/ RequestCommit \/ LoopCommit \/ BatchCommit \/ ApplySend \/ ApplyStep
  \/ VerifyActivate("api") \/ VerifyFail("api")
  \/ Requests
  \/ NodeStep \/ Restart

Spec == Init /\ [][Next]_vars

\* A coroutine runs on to its next await, and the event loop's queue is first
\* in, first out: an apply() whose read-back or timeout is due gets its turn,
\* however many requests come in between.
FairSpec == Spec /\ WF_vars(LoopCommit \/ BatchCommit) /\ SF_vars(ApplyStep)

-----------------------------------------------------------------------------
(* Properties                                                              *)

RowStates == {"none", "draft", "validating", "ready_to_apply", "applying", "verifying",
              "reconciling", "active", "failed", "disabled", "removed"}
AttemptStates == {"none", "applying", "verifying", "reconciling", "active", "failed"}
MaybeConfig  == Configs \cup {None}
MaybeInstall == Installs \cup {None}
MaybeTx      == Transactions \cup {NoTx}
Rows == [state : RowStates, cfg : MaybeConfig, prev : MaybeConfig, enabled : BOOLEAN,
         tx : MaybeTx, archived : BOOLEAN]

\* A set of changed columns, each with a value of its type.
ColumnsOK(columns) ==
  /\ DOMAIN columns \subseteq DOMAIN NoRow
  /\ "state" \in DOMAIN columns => columns["state"] \in RowStates
  /\ "cfg" \in DOMAIN columns => columns["cfg"] \in MaybeConfig
  /\ "prev" \in DOMAIN columns => columns["prev"] \in MaybeConfig
  /\ "enabled" \in DOMAIN columns => columns["enabled"] \in BOOLEAN
  /\ "tx" \in DOMAIN columns => columns["tx"] \in MaybeTx
  /\ "archived" \in DOMAIN columns => columns["archived"] \in BOOLEAN

\* Every variable has its type: the records hold what the tables can hold.
TypeOK ==
  /\ row \in [Installs -> Rows]
  /\ attempt \in [Transactions ->
                    [state : AttemptStates, inst : MaybeInstall, cfg : MaybeConfig]]
  /\ issued \in 0 .. MaxAttempts
  /\ job \in [stage : {"idle", "device", "acked", "verify"}, inst : MaybeInstall,
              tx : MaybeTx, cfg : MaybeConfig]
  /\ check \in [Verifiers -> [inst : MaybeInstall, tx : MaybeTx, requested : MaybeConfig]]
  /\ pending = [inst |-> pending.inst, columns |-> pending.columns]
  /\ pending.inst \in MaybeInstall /\ ColumnsOK(pending.columns)
  /\ request = [inst |-> request.inst, columns |-> request.columns]
  /\ request.inst \in MaybeInstall /\ ColumnsOK(request.columns)
  /\ batch = [i \in Installs |-> batch[i]] /\ \A i \in Installs : ColumnsOK(batch[i])
  /\ verified \in [Transactions -> MaybeConfig]
  /\ device \in MaybeConfig
  /\ inflight \in [kind : {"none", "PROV", "CFGSET"}, cfg : MaybeConfig, tx : MaybeTx]
  /\ origin \in MaybeTx /\ touched \subseteq Transactions
  /\ activated \subseteq Installs
  /\ waived \subseteq Installs
  /\ cut \subseteq Installs

\* The transaction an installation names is one of its own, and it has not been
\* decided: no stale verify() and no stale commit of another request leaves an
\* installation waiting for an attempt that is already active or failed. Only a
\* restart between the attempt's commit and the row's can (history cut).
TransactionIsOpen ==
  \A i \in Installs : row[i].tx # NoTx =>
    /\ attempt[row[i].tx].inst = i
    /\ i = pending.inst \/ i \in cut
         \/ attempt[row[i].tx].state \in {"applying", "verifying", "reconciling"}

\* An installation shown as reconciling names the attempt the verify endpoint
\* has to reconcile, also after a restart: one that is uncertain, or that a
\* verify() has since declared failed (_uncertain, verify).
ReconcilingNamesAttempt ==
  \A i \in Installs : row[i].state = "reconciling" =>
    row[i].tx # NoTx /\ attempt[row[i].tx].state \in {"reconciling", "failed"}

\* What the adapter remembers as acknowledged is what the attempt asked for and
\* what the node holds, unless configure_device, the serial line or a reset has
\* overruled it since: no PROV command that arrives late, after the timeout of
\* its attempt and during or after the next one, replaces an acknowledged
\* configuration (BlePersistentConfigurator.apply, handle_provision_command).
AcknowledgedIsOnNode ==
  \A t \in Transactions : verified[t] # None =>
    /\ verified[t] = attempt[t].cfg
    /\ verified[t] = device \/ t \in touched

\* "Transaction IDs and attempts are persisted": a configuration that apply()
\* has sent, or that the node has from it, is the one recorded in the attempt
\* whose transaction id the command carried, at whatever point the gateway was
\* restarted. Other writers leave no attempt.
NodeConfigOnRecord ==
  /\ inflight.tx # NoTx =>
       attempt[inflight.tx].state # "none" /\ attempt[inflight.tx].cfg = inflight.cfg
  /\ origin # NoTx => attempt[origin].state # "none" /\ attempt[origin].cfg = device

\* An installation that verify() never found active is not enabled and not
\* shown as active by any sequence of failures, restarts and racing requests,
\* unless upgrade-profile or the guided workflow's restore was used on it.
EnabledOnlyAfterVerification ==
  \A i \in Installs : i \notin activated /\ i \notin waived =>
    ~row[i].enabled /\ row[i].state # "active"

\* apply() gives the node's lock back, whatever else happens to the
\* installation it is working on.
LockReleased == []<>(job = NoJob)
=============================================================================
