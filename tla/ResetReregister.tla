-------------------------- MODULE ResetReregister --------------------------
(***************************************************************************)
(* Factory reset over USB and the reset-and-re-register workflow of the    *)
(* gateway, with everything that can act on the same sensor meanwhile: the *)
(* one-shot factory-reset API, confirmed removal and restoration, a second *)
(* workflow, replugging, and a gateway restart between any two steps.      *)
(*                                                                         *)
(* One physical sensor, whose identity follows ResettableNode. A record of *)
(* the registry is named by its device_id, the identity it stands for.     *)
(* Handlers declared `async` run on the event loop, one at a time between  *)
(* two awaits; the others run in worker threads, so that they come between *)
(* any two steps. A request that is refused without a change of state is a *)
(* stuttering step and has no action.                                      *)
(***************************************************************************)
EXTENDS Naturals, FiniteSets, ResettableNode

CONSTANTS
  Ops,        \* workflow operation ids
  None,       \* no identity, no choice, no workflow
  FirstId,    \* the identity the sensor and its registration start with
  MaxResets   \* bound: USB reset operations launched in one behaviour

ASSUME FirstIdAssumption == FirstId \in NodeIds
ASSUME NoneAssumption == None \notin NodeIds \cup Ops
ASSUME MaxResetsAssumption == MaxResets \in Nat

VARIABLES
  dev,      \* registered_devices, by device_id
  wf,       \* sensor_reregistration_workflows, by operation id
  confirm,  \* reregister_confirmations and the USB service's entry for each
  token,    \* the confirmation a browser holds for the one-shot reset
  resets,   \* UsbFactoryResetService.operations and the task following each
  prov,     \* the provision() coroutine of each workflow
  erased    \* history: the identities erased from the sensor

memVars == <<confirm, token, resets, prov>>
dbVars  == <<dev, wf>>
vars    == <<nodeVars, dbVars, memVars, erased>>

States ==
  {"none", "usb_connection_required", "physical_identity_verified",
   "configuration_backup_ready", "reset_confirmation_required", "reset_in_progress",
   "waiting_for_usb_reenumeration", "post_reset_verification",
   "unprovisioned_ready_for_registration", "registration_details_required",
   "searching_for_reset_sensor_ble", "ble_identity_matched", "provisioning_in_progress",
   "gateway_registration_in_progress", "network_verification_in_progress", "complete",
   "recoverable_error"}

ResetIds == 1 .. MaxResets
Idle     == [pc |-> "idle", target |-> None, choice |-> None, resume |-> FALSE]
NoReset  == [state |-> "unused", own |-> None, src |-> None, follower |-> "none"]
\* An operation nothing looks at any more: it was recorded, or its gateway died.
Settled  == [NoReset EXCEPT !.state = "settled", !.follower = "done"]

\* RegisteredDevice: archived and lifecycle_state move together.
Absent    == [state |-> "none", hw |-> FALSE, reset |-> "not_requested"]
Unstarted == [state |-> "none", src |-> None, port |-> FALSE, backup |-> FALSE, choice |-> None,
              target |-> None, addr |-> FALSE, provisioned |-> FALSE]

\* Types; among them that a workflow is never in a state that transition() does
\* not know, whichever task or request moved it last.
TypeOK ==
  /\ NodeTypeOK
  /\ dev \in [NodeIds -> [state : {"none", "active", "removed"}, hw : BOOLEAN,
                          reset : {"not_requested", "reset_pending", "reset_failed", "complete"}]]
  /\ wf \in [Ops -> [state : States, src : NodeIds \cup {None}, port : BOOLEAN,
                     backup : BOOLEAN, choice : {"restore", "new", None},
                     target : NodeIds \cup {None}, addr : BOOLEAN, provisioned : BOOLEAN]]
  /\ confirm \in [Ops -> {"none", "bound", "other_port"}]
  /\ token \in NodeIds \cup {None}
  /\ resets \in [ResetIds ->
       [state : {"unused", "queued", "preparing", "rebooting", "physical_complete", "failed",
                 "partial_failure", "settled"},
        own : Ops \cup {None}, src : NodeIds \cup {None},
        follower : {"none", "started", "polling", "waiting", "removing", "done"}]]
  /\ prov \in [Ops -> [pc : {"idle", "ble", "written", "registering", "finishing"},
                       target : NodeIds \cup {None}, choice : {"restore", "new", None},
                       resume : BOOLEAN]]
  /\ erased \subseteq NodeIds

\* A sensor that was onboarded as FirstId, its hardware id not recorded yet.
Init ==
  /\ held = {FirstId} /\ resetting = FALSE
  /\ dev = [d \in NodeIds |->
              IF d = FirstId THEN [Absent EXCEPT !.state = "active"] ELSE Absent]
  /\ wf = [o \in Ops |-> Unstarted]
  /\ confirm = [o \in Ops |-> "none"]
  /\ token = None
  /\ resets = [k \in ResetIds |-> NoReset]
  /\ prov = [o \in Ops |-> Idle]
  /\ erased = {}

-----------------------------------------------------------------------------
(* Helpers                                                                 *)

Active(d) == dev[d].state = "active"

\* The event loop is not inside _run's blocking serial exchange.
LoopFree == \A k \in ResetIds : resets[k].state # "preparing"

\* Mutant of ResetLocked: the lock is not given back.
ResetLockKept ==
  \E k \in ResetIds : resets[k].state \in {"preparing", "rebooting", "settled"}

\* lock.locked() of the sensor's asyncio.Lock.
ResetLocked == \E k \in ResetIds : resets[k].state \in {"preparing", "rebooting"}

\* inspect(port): the lock of the port is free. Whether the sensor is plugged in
\* there, and answers, changes between any two steps: a step that reads it may
\* come at any time or not at all, and a step that misses it too.
Inspect == LoopFree

\* get_other_by_hardware_id: archived records count.
HardwareElsewhere(d) == \E e \in NodeIds \ {d} : dev[e].state # "none" /\ dev[e].hw

\* Mutant of TriggerAborts: the trigger was not created.
TriggerMissing(d) == FALSE

\* trg_registered_devices_hardware_*: no second active record of one hardware id.
TriggerAborts(d) == \E e \in NodeIds \ {d} : Active(e) /\ dev[e].hw

\* DeviceLifecycleService.remove, idempotent, then factory_reset_status.
Removed(r, status) ==
  IF r.state = "active" THEN [r EXCEPT !.state = "removed", !.reset = status]
                        ELSE [r EXCEPT !.reset = status]

Move(o, s) == wf' = [wf EXCEPT ![o].state = s]

\* launch(): refused while the lock is held; _run and its follower are tasks.
CanLaunch == ~ResetLocked /\ \E k \in ResetIds : resets[k].state = "unused"
Launch(o, d) ==
  LET k == CHOOSE k \in ResetIds : resets[k].state = "unused"
  IN resets' = [resets EXCEPT ![k] = [state |-> "queued", own |-> o, src |-> d,
                                      follower |-> "started"]]

-----------------------------------------------------------------------------
(* The sensor                                                              *)

\* The deletions of a confirmed reset, at once or by a later boot.
SensorErases ==
  /\ NodeErase
  /\ erased' = erased \cup held
  /\ UNCHANGED <<dbVars, memVars>>

\* The boot that clears the marker.
SensorRecovers ==
  /\ NodeFinishReset /\ LoopFree
  /\ UNCHANGED <<dbVars, memVars, erased>>

-----------------------------------------------------------------------------
(* UsbFactoryResetService                                                  *)

\* _run up to the confirmation it sends: the identity is read again first. The
\* exchange fails, or the sensor stores its marker.
UsbRun(k) ==
  /\ LoopFree /\ ~ResetLocked /\ resets[k].state = "queued"
  /\ \/ /\ resets' = [resets EXCEPT ![k].state = "failed"]
        /\ UNCHANGED nodeVars
     \/ /\ held = {resets[k].src}
        /\ NodeBeginReset \/ (resetting /\ UNCHANGED nodeVars)
        /\ resets' = [resets EXCEPT ![k].state = "preparing"]
  /\ UNCHANGED <<dbVars, confirm, token, prov, erased>>

\* The answer to confirm_factory_reset: accepted with every key deleted, after
\* which the board reboots; an error or no answer, whatever the sensor did.
UsbAnswer(k) ==
  /\ resets[k].state = "preparing"
  /\ \/ /\ held = {}
        /\ resets' = [resets EXCEPT ![k].state = "rebooting"]
     \/ resets' = [resets EXCEPT ![k].state = "failed"]
  /\ UNCHANGED <<nodeVars, dbVars, confirm, token, prov, erased>>

\* The poll that finds the sensor again, on any port, and the read-back.
UsbVerify(k) ==
  /\ LoopFree /\ resets[k].state = "rebooting"
  /\ resets' = [resets EXCEPT ![k].state = IF held = {} THEN "physical_complete" ELSE "failed"]
  /\ UNCHANGED <<nodeVars, dbVars, confirm, token, prov, erased>>

\* reboot_timeout passes and the sensor was never readable.
UsbTimeout(k) ==
  /\ LoopFree /\ resets[k].state = "rebooting"
  /\ resets' = [resets EXCEPT ![k].state = "failed"]
  /\ UNCHANGED <<nodeVars, dbVars, confirm, token, prov, erased>>

-----------------------------------------------------------------------------
(* The guided workflow up to the reset                                     *)

\* start: the requests of os looked for an open workflow before any of them
\* committed, so each inserts its own.
Start(os, d) ==
  /\ os # {} /\ \A o \in os : wf[o].state = "none"
  /\ Active(d) /\ dev[d].hw
  /\ \A o \in Ops : wf[o].src = d => wf[o].state = "complete"
  /\ wf' = [o \in Ops |-> IF o \in os
                            THEN [Unstarted EXCEPT !.state = "usb_connection_required", !.src = d]
                            ELSE wf[o]]
  /\ UNCHANGED <<nodeVars, dev, memVars, erased>>

\* associate-usb: the hardware id is recorded from an exact match.
AssociateUsb(d) ==
  /\ Active(d) /\ ~dev[d].hw
  /\ LoopFree /\ held = {d}
  /\ ~HardwareElsewhere(d)
  /\ dev' = [dev EXCEPT ![d].hw = TRUE]
  /\ UNCHANGED <<nodeVars, wf, memVars, erased>>

\* select-usb: a confirmation stays bound to the port it was prepared for.
SelectUsb(o) ==
  /\ wf[o].state # "none" /\ Inspect
  /\ wf' = [wf EXCEPT ![o].port = TRUE, ![o].state = "physical_identity_verified"]
  /\ \E c \in {"bound", "other_port"} :
       confirm' = [confirm EXCEPT ![o] = IF @ = "none" THEN @ ELSE c]
  /\ UNCHANGED <<nodeVars, dev, token, resets, prov, erased>>

\* backup: the configuration that is read is kept with the workflow.
Backup(o) ==
  /\ wf[o].state # "none" /\ wf[o].port /\ Inspect
  /\ wf' = [wf EXCEPT ![o].backup = TRUE, ![o].state = "configuration_backup_ready"]
  /\ UNCHANGED <<nodeVars, dev, memVars, erased>>

\* Mutant of PrepareReset: no backup is asked for.
PrepareWithoutBackup(o) ==
  /\ wf[o].state # "none" /\ wf[o].port /\ Inspect /\ held = {wf[o].src}
  /\ confirm' = [confirm EXCEPT ![o] = "bound"]
  /\ Move(o, "reset_confirmation_required")
  /\ UNCHANGED <<nodeVars, dev, token, resets, prov, erased>>

\* prepare-reset; a refusal drops the confirmation of an earlier call.
PrepareReset(o) ==
  /\ wf[o].state # "none"
  /\ \/ /\ wf[o].backup /\ wf[o].port /\ Inspect /\ held = {wf[o].src}
        /\ confirm' = [confirm EXCEPT ![o] = "bound"]
        /\ Move(o, "reset_confirmation_required")
     \/ /\ confirm' = [confirm EXCEPT ![o] = "none"]
        /\ UNCHANGED wf
  /\ UNCHANGED <<nodeVars, dev, token, resets, prov, erased>>

\* execute-reset: the confirmation is used up whatever becomes of the request,
\* which is refused when it is older than 120 seconds or the lock is held;
\* reset_pending is committed with the new state of the workflow.
ExecuteReset(o) ==
  /\ LoopFree /\ confirm[o] # "none"
  /\ confirm' = [confirm EXCEPT ![o] = "none"]
  /\ \/ /\ confirm[o] = "bound" /\ CanLaunch
        /\ Launch(o, wf[o].src)
        /\ dev' = [dev EXCEPT ![wf[o].src].reset = "reset_pending"]
        /\ Move(o, "reset_in_progress")
     \/ UNCHANGED <<resets, dbVars>>
  /\ UNCHANGED <<nodeVars, token, prov, erased>>

\* cancel-reset does not look at the age of the confirmation.
CancelReset(o) ==
  /\ confirm[o] # "none"
  /\ confirm' = [confirm EXCEPT ![o] = "none"]
  /\ IF confirm[o] = "bound" THEN Move(o, "configuration_backup_ready") ELSE UNCHANGED wf
  /\ UNCHANGED <<nodeVars, dev, token, resets, prov, erased>>

-----------------------------------------------------------------------------
(* _monitor_reset and reconcile-reset                                      *)

\* A poll that finds the operation unfinished reports each phase once.
MonitorReport(k) ==
  LET r == resets[k]
      next == IF r.state = "rebooting" THEN "waiting" ELSE "polling"
  IN /\ LoopFree /\ r.own # None /\ r.state \in {"queued", "rebooting"}
     /\ r.follower \in {"started", "polling", "waiting"} \ {next}
     /\ resets' = [resets EXCEPT ![k].follower = next]
     /\ Move(r.own, IF next = "waiting" THEN "waiting_for_usb_reenumeration" ELSE "reset_in_progress")
     /\ UNCHANGED <<nodeVars, dev, confirm, token, prov, erased>>

\* The poll that finds it finished: report the failure, or remove the
\* registration and commit before the BLE connection is given up.
MonitorEnd(k) ==
  LET r == resets[k] IN
  /\ LoopFree /\ r.own # None /\ r.follower \in {"started", "polling", "waiting"}
  /\ \/ /\ r.state = "failed"
        /\ Move(r.own, "recoverable_error")
        /\ resets' = [resets EXCEPT ![k] = Settled]
        /\ UNCHANGED dev
     \/ /\ r.state = "physical_complete"
        /\ dev' = [dev EXCEPT ![r.src] = Removed(@, "complete")]
        /\ Move(r.own, "post_reset_verification")
        /\ resets' = [resets EXCEPT ![k].follower = "removing"]
     \/ /\ r.state = "physical_complete"
        /\ Move(r.own, "recoverable_error")           \* the removal raised
        /\ resets' = [resets EXCEPT ![k] = Settled]
        /\ UNCHANGED dev
  /\ UNCHANGED <<nodeVars, confirm, token, prov, erased>>

\* Mutant of MonitorReady: a state transition() does not know.
MonitorReadyUnknown(k) ==
  /\ LoopFree /\ resets[k].follower = "removing" /\ resets[k].own # None
  /\ resets' = [resets EXCEPT ![k] = Settled]
  /\ Move(resets[k].own, "ready_for_registration")
  /\ UNCHANGED <<nodeVars, dev, confirm, token, prov, erased>>

\* After the connection has stopped.
MonitorReady(k) ==
  /\ LoopFree /\ resets[k].follower = "removing" /\ resets[k].own # None
  /\ resets' = [resets EXCEPT ![k] = Settled]
  /\ Move(resets[k].own, "unprovisioned_ready_for_registration")
  /\ UNCHANGED <<nodeVars, dev, confirm, token, prov, erased>>

\* Mutant of ReconcileReset: a sensor with another identity counts as reset.
ReconcileLoosely(o) ==
  /\ wf[o].state # "none" /\ LoopFree
  /\ dev' = [dev EXCEPT ![wf[o].src] = Removed(@, "complete")]
  /\ Move(o, "unprovisioned_ready_for_registration")
  /\ UNCHANGED <<nodeVars, memVars, erased>>

\* Read-only: the reset was not applied, or the sensor is blank.
ReconcileReset(o) ==
  /\ wf[o].state # "none" /\ LoopFree
  /\ \/ /\ held = {wf[o].src} /\ Active(wf[o].src) /\ dev[wf[o].src].hw
        /\ dev' = [dev EXCEPT ![wf[o].src].reset = "not_requested"]
        /\ Move(o, "configuration_backup_ready")
     \/ /\ held = {}
        /\ dev' = [dev EXCEPT ![wf[o].src] = Removed(@, "complete")]
        /\ Move(o, "unprovisioned_ready_for_registration")
  /\ UNCHANGED <<nodeVars, memVars, erased>>

-----------------------------------------------------------------------------
(* Registration again, over BLE                                            *)

\* registration: allowed from recoverable_error whatever error that was.
Registration(o, choice, t) ==
  /\ wf[o].state \in {"unprovisioned_ready_for_registration", "registration_details_required",
                      "recoverable_error"}
  /\ IF choice = "restore" THEN t = wf[o].src ELSE dev[t].state = "none"
  /\ ~\E e \in NodeIds \ {wf[o].src} : Active(e) /\ dev[e].hw
  /\ wf' = [wf EXCEPT ![o].choice = choice, ![o].target = t,
                      ![o].state = "searching_for_reset_sensor_ble"]
  /\ UNCHANGED <<nodeVars, dev, memVars, erased>>

\* registration/edit: choice, target and matched address are dropped.
EditRegistration(o) ==
  /\ wf[o].state \in {"searching_for_reset_sensor_ble", "ble_identity_matched"}
  /\ wf' = [wf EXCEPT ![o].choice = None, ![o].target = None, ![o].addr = FALSE,
                      ![o].state = "registration_details_required"]
  /\ UNCHANGED <<nodeVars, dev, memVars, erased>>

\* scan-ble and select-ble, in any state: the onboarding identity is readable
\* on a blank sensor only; a second device claiming it blocks the match.
MatchBle(o) ==
  /\ wf[o].state # "none" /\ LoopFree /\ held = {}
  /\ \/ wf' = [wf EXCEPT ![o].addr = TRUE, ![o].state = "ble_identity_matched"]
     \/ Move(o, "searching_for_reset_sensor_ble")
  /\ UNCHANGED <<nodeVars, dev, memVars, erased>>

\* The provisioner's lock for the address is held by a workflow's exchange.
BleBusy == \E o \in Ops : prov[o].pc \in {"ble", "written"}

\* provision, in any state: commit provisioning_in_progress and start the BLE
\* exchange, or fail at once because another one is running.
ProvisionStart(o) ==
  /\ LoopFree /\ prov[o].pc = "idle" /\ wf[o].addr /\ wf[o].target # None
  /\ IF BleBusy
       THEN Move(o, "recoverable_error") /\ UNCHANGED prov
       ELSE /\ Move(o, "provisioning_in_progress")
            /\ prov' = [prov EXCEPT ![o] = [pc |-> "ble", target |-> wf[o].target,
                                            choice |-> wf[o].choice, resume |-> wf[o].provisioned]]
  /\ UNCHANGED <<nodeVars, dev, confirm, token, resets, erased>>

\* The PROV command reaches a blank sensor.
ProvisionWrite(o) ==
  /\ prov[o].pc = "ble" /\ ~prov[o].resume /\ ~resetting
  /\ NodeProvision(prov[o].target)
  /\ prov' = [prov EXCEPT ![o].pc = "written"]
  /\ UNCHANGED <<dbVars, confirm, token, resets, erased>>

\* The read-back agrees; sensor_provisioned is committed with the new state.
ProvisionDone(o) ==
  /\ LoopFree /\ held = {prov[o].target}
  /\ prov[o].pc = "written" \/ (prov[o].pc = "ble" /\ prov[o].resume)
  /\ wf' = [wf EXCEPT ![o].provisioned = TRUE, ![o].state = "gateway_registration_in_progress"]
  /\ prov' = [prov EXCEPT ![o].pc = "registering"]
  /\ UNCHANGED <<nodeVars, dev, confirm, token, resets, erased>>

\* The exchange fails: a caught exception is recorded, a TimeoutError of the
\* provisioner is none of the caught ones and leaves the workflow as it is.
ProvisionFails(o) ==
  /\ LoopFree /\ prov[o].pc \in {"ble", "written"}
  /\ Move(o, "recoverable_error") \/ UNCHANGED wf
  /\ prov' = [prov EXCEPT ![o] = Idle]
  /\ UNCHANGED <<nodeVars, dev, confirm, token, resets, erased>>

\* restore() of an archived record refuses a hardware id recorded elsewhere.
RestoreRefused(d) == dev[d].hw /\ HardwareElsewhere(d)

\* restore() of an archived record keeps hardware id and reset status.
Restored(r) == [r EXCEPT !.state = "active"]

\* The first commit of the registration: restore() or register(). A
\* LifecycleError of restore() is not caught.
ProvisionRegister(o) ==
  LET q == prov[o] IN
  /\ q.pc = "registering"
  /\ \/ /\ q.choice = "restore" /\ ~Active(wf[o].src) /\ RestoreRefused(wf[o].src)
        /\ prov' = [prov EXCEPT ![o] = Idle]
        /\ UNCHANGED dbVars
     \/ /\ q.choice = "restore" /\ (Active(wf[o].src) \/ ~RestoreRefused(wf[o].src))
        /\ dev' = IF Active(wf[o].src) THEN dev ELSE [dev EXCEPT ![wf[o].src] = Restored(@)]
        /\ prov' = [prov EXCEPT ![o].pc = "finishing"]
        /\ UNCHANGED wf
     \/ /\ q.choice = "new" /\ (dev[q.target].state # "none" \/ \E d \in NodeIds : Active(d))
        /\ Move(o, "recoverable_error")
        /\ prov' = [prov EXCEPT ![o] = Idle]
        /\ UNCHANGED dev
     \/ /\ q.choice = "new" /\ dev[q.target].state = "none" /\ \A d \in NodeIds : ~Active(d)
        /\ dev' = [dev EXCEPT ![q.target] = Restored(Absent)]
        /\ prov' = [prov EXCEPT ![o].pc = "finishing"]
        /\ UNCHANGED wf
  /\ UNCHANGED <<nodeVars, confirm, token, resets, erased>>

\* The second commit: hardware id and reset status of the record, then the
\* workflow. The trigger's IntegrityError is caught.
ProvisionFinish(o) ==
  LET new == prov[o].choice = "new"
      d == IF new THEN prov[o].target ELSE wf[o].src
  IN /\ prov[o].pc = "finishing"
     /\ IF new /\ TriggerAborts(d)
          THEN Move(o, "recoverable_error") /\ UNCHANGED dev
          ELSE /\ dev' = [dev EXCEPT ![d].hw = @ \/ new, ![d].reset = "complete"]
               /\ Move(o, "network_verification_in_progress")
     /\ prov' = [prov EXCEPT ![o] = Idle]
     /\ UNCHANGED <<nodeVars, confirm, token, resets, erased>>

\* verify-network, in any state: complete when the record is connected and has a
\* reading received since the workflow was started, which are in the hands of
\* the BLE connection (BleConnection) and free here.
VerifyNetwork(o) ==
  LET t == wf[o].target IN
  /\ wf[o].state # "none" /\ t # None
  /\ Active(t) /\ dev[t].hw
  /\ Move(o, "complete") \/ Move(o, "network_verification_in_progress")
  /\ UNCHANGED <<nodeVars, dev, memVars, erased>>

-----------------------------------------------------------------------------
(* The one-shot reset, removal and restoration                             *)

\* factory-reset/confirm records a missing hardware id, which the trigger may
\* refuse.
IssueToken(d) ==
  /\ token = None
  /\ Active(d) /\ Inspect /\ held = {d}
  /\ dev[d].hw \/ ~TriggerAborts(d)
  /\ dev' = [dev EXCEPT ![d].hw = TRUE]
  /\ token' = d
  /\ UNCHANGED <<nodeVars, wf, confirm, resets, prov, erased>>

\* factory-reset/cancel, the 120 seconds of the token, or a refused execution.
DropToken ==
  /\ token # None /\ token' = None
  /\ UNCHANGED <<nodeVars, dbVars, confirm, resets, prov, erased>>

\* factory-reset/execute: reset_pending is committed before the launch.
ExecuteFactoryReset ==
  /\ LoopFree /\ token # None /\ Active(token)
  /\ token' = None
  /\ \/ /\ CanLaunch
        /\ Launch(None, token)
        /\ dev' = [dev EXCEPT ![token].reset = "reset_pending"]
     \/ /\ ResetLocked
        /\ dev' = [dev EXCEPT ![token].reset = "reset_failed"]
        /\ UNCHANGED resets
  /\ UNCHANGED <<nodeVars, wf, confirm, prov, erased>>

\* finalize_when_ready and retry-cleanup; the removal may raise.
Finalize(k) ==
  LET r == resets[k] IN
  /\ LoopFree /\ r.own = None
  /\ \/ /\ r.state = "failed" /\ r.follower = "started"
        /\ dev' = [dev EXCEPT ![r.src].reset = "reset_failed"]
        /\ resets' = [resets EXCEPT ![k] = Settled]
     \/ /\ \/ r.state = "physical_complete" /\ r.follower = "started"
           \/ r.state = "partial_failure"
        /\ \/ /\ dev[r.src].hw
              /\ dev' = [dev EXCEPT ![r.src] = Removed(@, "complete")]
              /\ resets' = [resets EXCEPT ![k] = Settled]
           \/ /\ resets' = [resets EXCEPT ![k].state = "partial_failure", ![k].follower = "done"]
              /\ UNCHANGED dev
  /\ UNCHANGED <<nodeVars, wf, confirm, token, prov, erased>>

\* device-lifecycle: the confirmation binds the record and its hardware id and
\* nothing that changes before it is used, so that confirming and executing is
\* one step at the time of the execution.
ExecuteLifecycle(d) ==
  /\ LoopFree /\ dev[d].state # "none"
  /\ \/ dev' = [dev EXCEPT ![d] = Removed(@, @.reset)]
     \/ /\ ~Active(d) /\ ~RestoreRefused(d)
        /\ dev' = [dev EXCEPT ![d] = Restored(@)]
  /\ UNCHANGED <<nodeVars, wf, memVars, erased>>

\* The gateway process stops and starts: the database is what is left.
Restart ==
  /\ confirm' = [o \in Ops |-> "none"]
  /\ token' = None
  /\ resets' = [k \in ResetIds |-> IF resets[k].state = "unused" THEN NoReset
                                   ELSE Settled]
  /\ prov' = [o \in Ops |-> Idle]
  /\ UNCHANGED <<nodeVars, dbVars, erased>>

-----------------------------------------------------------------------------
Sensor == SensorErases \/ SensorRecovers

Usb(k) == UsbRun(k) \/ UsbAnswer(k) \/ UsbVerify(k) \/ UsbTimeout(k)

Follow(k) == MonitorReport(k) \/ MonitorEnd(k) \/ MonitorReady(k) \/ Finalize(k)

BeforeReset(o) ==
  \/ SelectUsb(o) \/ Backup(o) \/ PrepareReset(o) \/ ExecuteReset(o) \/ CancelReset(o) \/ ReconcileReset(o)

AfterReset(o) ==
  \/ \E choice \in {"restore", "new"}, t \in NodeIds : Registration(o, choice, t)
  \/ EditRegistration(o) \/ MatchBle(o) \/ VerifyNetwork(o)
  \/ ProvisionStart(o) \/ ProvisionWrite(o) \/ ProvisionDone(o) \/ ProvisionFails(o)
  \/ ProvisionRegister(o) \/ ProvisionFinish(o)

Next ==
  \/ Sensor \/ Restart
  \/ \E os \in SUBSET Ops, d \in NodeIds : Start(os, d)
  \/ \E d \in NodeIds : AssociateUsb(d)
  \/ \E o \in Ops : BeforeReset(o) \/ AfterReset(o)
  \/ \E k \in ResetIds : Usb(k) \/ Follow(k)
  \/ \E d \in NodeIds : IssueToken(d) \/ ExecuteLifecycle(d)
  \/ DropToken \/ ExecuteFactoryReset

\* The event loop runs every task that is ready: the reset operation, up to its
\* deadline, and the task that follows it. That the sensor comes back is not
\* assumed.
Fairness ==
  \A k \in ResetIds :
    /\ WF_vars(UsbRun(k) \/ UsbAnswer(k) \/ UsbTimeout(k))
    /\ WF_vars(Follow(k))

Spec == Init /\ [][Next]_vars
FairSpec == Spec /\ Fairness

-----------------------------------------------------------------------------
(* Properties                                                              *)

\* A factory reset is recorded as complete by _monitor_reset, reconcile-reset or
\* cleanup_gateway only for an identity that really was erased from the sensor,
\* with restarts, replugging, removals and other workflows in between.
\* provision() writes the same word on the record it has just registered.
CompleteIsErased ==
  [][\A d \in NodeIds :
       dev[d].reset # "complete" /\ dev'[d].reset = "complete"
         => d \in erased \/ \E o \in Ops : prov[o].pc = "finishing"]_vars

\* No two active registrations carry the sensor's hardware id, with restores,
\* removals, new registrations and associations in any order.
UniqueActiveHardware ==
  \A d, e \in NodeIds : Active(d) /\ dev[d].hw /\ Active(e) /\ dev[e].hw => d = e

\* A reset the guided workflow is running on the sensor was preceded by a
\* backup in that workflow, and is for the identity the workflow was started on.
ResetBackedUp ==
  \A k \in ResetIds : resets[k].state = "preparing" /\ resets[k].own # None =>
    wf[resets[k].own].backup /\ wf[resets[k].own].src = resets[k].src

\* Every launched reset ends and its follower records how, unless the gateway
\* is restarted: no reset stays in progress because the sensor was lost, the
\* removal raised, or another reset, launched while both were only queued, has
\* the sensor's lock (UsbFactoryResetService.launch, _run; _monitor_reset).
ResetSettles ==
  \A k \in ResetIds :
    (resets[k].state = "queued") ~> (resets[k].follower = "done")

\* The workflow is complete only after the sensor was reset: the wizard "does
\* not advance until the backend verifies an unprovisioned [...] state".
CompleteMeansReset ==
  \A o \in Ops : wf[o].state = "complete" => wf[o].src \in erased
=============================================================================
