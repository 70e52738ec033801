-------------------------- MODULE NodePersistence --------------------------
(***************************************************************************)
(* The persistent state of an MG24 sensor node and every operation of the  *)
(* firmware that reads or writes it: the A/B identity and configuration    *)
(* stores, provisioning over BLE (PROV), configuration transactions        *)
(* (CFGSET, CFG), the USB bootstrap commands, the two-stage factory reset  *)
(* and the boot sequence that recovers an interrupted one.                 *)
(*                                                                         *)
(* The firmware is one loop on one core, so the only thing that can come   *)
(* between two non-volatile writes of an operation is a loss of power.     *)
(* Every step below therefore makes at most one write or deletion, with    *)
(* the reads that surround it; PowerLoss may follow any step.              *)
(*                                                                         *)
(* A command that the firmware answers with an error before it touches any *)
(* state is not a step: it would only stutter.                             *)
(***************************************************************************)
EXTENDS Integers, Sequences

CONSTANTS
  NodeIds,        \* node identities a PROV or provision_identity may carry
  Configs,        \* channel configurations that pass validation
  DefaultConfig,  \* MICROPHONE_CHANNEL_CONFIG, the compiled-in configuration
  None,           \* no identity, no configuration
  GenModulus,     \* record generations are taken modulo this (2^32 on the node)
  FaultModels     \* the combinations of storage faults considered

FaultKinds == {"read", "write", "torn", "remove"}

ASSUME ConfigAssumption == DefaultConfig \in Configs
ASSUME NoneAssumption == None \notin NodeIds /\ None \notin Configs
ASSUME GenAssumption == GenModulus \in Nat /\ GenModulus >= 4 /\ GenModulus % 2 = 0
ASSUME FaultAssumption == FaultModels \subseteq SUBSET FaultKinds

VARIABLES
  \* Non-volatile: survives a loss of power.
  nvm,            \* the record under each resettable key
  marker,         \* the reset transaction marker
  \* Volatile.
  pc,             \* where the program is
  op,             \* the command being executed
  index,          \* position in the reset key list
  failed,         \* result.failed_count > 0 in confirm()
  recovery,       \* what recover_on_boot returned
  busy,           \* FactoryResetController::busy_
  markerActive,   \* FactoryResetController::marker_active_
  challenge,      \* FactoryResetController::challenge_
  bootstrapOnly,  \* bootstrap_only
  activeId,       \* active_identity, None while it is not valid
  runtime,        \* microphone_runtime_config
  \* The environment, and what it was told (history).
  faults,         \* the storage faults that may happen in this behaviour
  quiet,          \* no further storage fault, no power loss within an operation
  survivors,      \* {} before the first write() that returned Ok; then its
                  \* configuration and those of the calls that failed since
  provCommitted   \* the identity in the store was written by a PROV command

nvmVars   == <<nvm, marker>>
ramVars   == <<busy, markerActive, challenge, bootstrapOnly, activeId, runtime>>
flowVars  == <<pc, op, index, failed, recovery>>
ghostVars == <<survivors, provCommitted>>
envVars   == <<faults, quiet>>
vars      == <<nvmVars, ramVars, flowVars, envVars, ghostVars>>

-----------------------------------------------------------------------------
(* Records and generations                                                 *)

\* The keys application_factory deletes, in the order it deletes them. The
\* marker's own key is not among them.
ResetKeys == <<"identity_a", "identity_b", "configuration_a", "configuration_b",
               "configuration_staging", "store_metadata">>
Keys == {"identity_a", "identity_b", "configuration_a", "configuration_b",
         "configuration_staging", "store_metadata"}
IdentityKeys == {"identity_a", "identity_b"}
ConfigKeys   == {"configuration_a", "configuration_b"}

Gens == 0 .. GenModulus - 1

\* A record decodes (valid), is there but fails its CRC or its checks (torn),
\* or is not there (absent). "unreadable" is what a failed read makes of it.
Record(st, gen, val) == [st |-> st, gen |-> gen, val |-> val]
AbsentRecord     == Record("absent", 0, None)
TornRecord       == Record("torn", 0, None)
UnreadableRecord == Record("unreadable", 0, None)

\* Mutant of NextGeneration: the generation is not truncated to its width.
NextGenerationUnbounded(g) == g + 1

\* uint32_t addition and subtraction.
NextGeneration(g) == IF g = GenModulus - 1 THEN 0 ELSE g + 1
GenerationDistance(a, b) == IF a >= b THEN a - b ELSE a + GenModulus - b

\* Mutant of GenerationNewer: a plain comparison, wrong after a rollover.
GenerationGreater(a, b) == a > b

\* generation_newer: a is newer than b in the rollover-safe comparison.
GenerationNewer(a, b) ==
  LET d == GenerationDistance(a, b) IN d # 0 /\ 2 * d < GenModulus

\* What load() of either store makes of the two records it reads.
LoadStatus(a, b) ==
  CASE a.st = "valid" /\ b.st = "valid" ->
         IF a.gen = b.gen THEN "generation_conflict" ELSE "ok"
    [] a.st = "valid" /\ b.st # "valid" ->
         IF b.st = "absent" THEN "ok" ELSE "recovered_from_previous"
    [] a.st # "valid" /\ b.st = "valid" ->
         IF a.st = "absent" THEN "ok" ELSE "recovered_from_previous"
    [] a.st # "valid" /\ b.st # "valid" ->
         IF a.st = "absent" /\ b.st = "absent" THEN "not_found" ELSE "corrupt"

LoadRecord(a, b) ==
  IF b.st = "valid" /\ (a.st # "valid" \/ GenerationNewer(b.gen, a.gen)) THEN b ELSE a

Loaded(status) == status \in {"ok", "recovered_from_previous"}

-----------------------------------------------------------------------------
(* The storage backend, with the faults a caller has to survive.           *)

Faulty(kind) == kind \in faults /\ ~quiet

\* The sets of objects that may fail to read during one step.
ReadFaults(objects) == IF Faulty("read") THEN SUBSET objects ELSE {{}}

Seen(key, rf) == IF key \in rf THEN UnreadableRecord ELSE nvm[key]

\* What one write may leave behind, and what the call returns.
WriteResults(old, new, torn) ==
  {[ok |-> TRUE, rec |-> new]}
    \cup (IF Faulty("write") THEN {[ok |-> FALSE, rec |-> old]} ELSE {})
    \cup (IF Faulty("torn") THEN {[ok |-> TRUE, rec |-> torn], [ok |-> FALSE, rec |-> torn]}
                            ELSE {})

RemoveResults(old, absent) ==
  {[ok |-> TRUE, rec |-> absent]}
    \cup (IF Faulty("remove") THEN {[ok |-> FALSE, rec |-> old]} ELSE {})

\* reset_keys_absent(): a key that cannot be read does not count as absent.
KeysAbsent(rf) == \A k \in Keys : Seen(k, rf).st = "absent"

IdentityStatus(rf) == LoadStatus(Seen("identity_a", rf), Seen("identity_b", rf))
IdentityRecord(rf) == LoadRecord(Seen("identity_a", rf), Seen("identity_b", rf))
ConfigStatus(rf)   == LoadStatus(Seen("configuration_a", rf), Seen("configuration_b", rf))
ConfigRecord(rf)   == LoadRecord(Seen("configuration_a", rf), Seen("configuration_b", rf))

\* The identity and the configuration that a load without faults would return.
DurableId     == IF Loaded(IdentityStatus({})) THEN IdentityRecord({}).val ELSE None
DurableConfig == IF Loaded(ConfigStatus({})) THEN ConfigRecord({}).val ELSE None

-----------------------------------------------------------------------------
NoOp == [cmd |-> "none", id |-> None, cfg |-> None]
NoRecovery == [ok |-> TRUE, pending |-> FALSE]

\* Mutant of Busy: the controller forgets the marker once confirm() returns.
BusyWhileDeleting == busy

\* busy(): a reset is running, or its marker has not been cleared.
Busy == busy \/ markerActive

\* The loop would take and send a telemetry sample in this state.
Publishing == pc = "loop" /\ ~bootstrapOnly /\ ~Busy

Init ==
  /\ nvm = [k \in Keys |-> AbsentRecord]
  /\ marker = "absent"
  /\ pc = "boot"
  /\ op = NoOp
  /\ index = 1
  /\ failed = FALSE
  /\ recovery = NoRecovery
  /\ busy = FALSE
  /\ markerActive = FALSE
  /\ challenge = "none"
  /\ bootstrapOnly = TRUE
  /\ activeId = None
  /\ runtime = DefaultConfig
  /\ faults \in FaultModels
  /\ quiet = FALSE
  /\ survivors = {}
  /\ provCommitted = FALSE

-----------------------------------------------------------------------------
(* setup(): recover_on_boot, load both stores, complete_recovery_on_boot.  *)

RecoverFailed ==
  /\ recovery' = [ok |-> FALSE, pending |-> FALSE]
  /\ pc' = "boot_load"

\* Mutant of RecoverPending: the result does not ask for completion.
RecoverNotPending ==
  /\ recovery' = NoRecovery
  /\ pc' = "boot_load"

RecoverPending ==
  /\ recovery' = [ok |-> TRUE, pending |-> TRUE]
  /\ pc' = "boot_load"

\* recover_on_boot up to its first deletion.
Boot ==
  /\ pc = "boot"
  /\ \E unread \in ReadFaults({"marker"}) :
       \/ /\ unread # {}
          /\ markerActive' = TRUE
          /\ RecoverFailed
          /\ UNCHANGED index
       \/ /\ unread = {} /\ marker = "absent"
          /\ markerActive' = FALSE
          /\ recovery' = NoRecovery
          /\ pc' = "boot_load"
          /\ UNCHANGED index
       \/ /\ unread = {} /\ marker # "absent"
          /\ markerActive' = TRUE
          /\ \E rf \in ReadFaults(Keys) :
               \/ KeysAbsent(rf) /\ RecoverPending /\ UNCHANGED index
               \/ /\ ~KeysAbsent(rf)
                  /\ pc' = "recover_remove"
                  /\ index' = 1
                  /\ UNCHANGED recovery
  /\ UNCHANGED <<nvmVars, op, failed, busy, challenge, bootstrapOnly, activeId,
                 runtime, envVars, ghostVars>>

\* One iteration of the deletion loop of recover_on_boot.
RecoverRemove ==
  /\ pc = "recover_remove"
  /\ LET key == ResetKeys[index] IN
     \E r \in RemoveResults(nvm[key], AbsentRecord) :
       /\ nvm' = [nvm EXCEPT ![key] = r.rec]
       /\ \/ ~r.ok /\ RecoverFailed /\ index' = 1
          \/ /\ r.ok /\ index < Len(ResetKeys)
             /\ index' = index + 1
             /\ UNCHANGED <<pc, recovery>>
          \/ /\ r.ok /\ index = Len(ResetKeys)
             /\ pc' = "recover_verify"
             /\ index' = 1
             /\ UNCHANGED recovery
  /\ UNCHANGED <<marker, ramVars, op, failed, envVars, ghostVars>>

\* Mutant of MarkerWrites: the old marker is erased before the write.
MarkerErasingWrites(stage) == WriteResults("absent", stage, "torn")

\* write_marker: write the marker, then read it back and compare.
MarkerWrites(stage) == WriteResults(marker, stage, "torn")
MarkerVerified(w, stage, rf) == w.ok /\ w.rec = stage /\ rf = {}

\* The rest of recover_on_boot: check again, then record the stage.
RecoverVerify ==
  /\ pc = "recover_verify"
  /\ \E rf \in ReadFaults(Keys) :
       \/ ~KeysAbsent(rf) /\ RecoverFailed /\ UNCHANGED marker
       \/ /\ KeysAbsent(rf) /\ marker = "torn"
          /\ RecoverPending
          /\ UNCHANGED marker
       \/ /\ KeysAbsent(rf) /\ marker # "torn"
          /\ \E w \in MarkerWrites("keys_cleared"), unread \in ReadFaults({"marker"}) :
               /\ marker' = w.rec
               /\ IF MarkerVerified(w, "keys_cleared", unread)
                  THEN RecoverPending
                  ELSE RecoverFailed
  /\ UNCHANGED <<nvm, ramVars, op, index, failed, envVars, ghostVars>>

\* complete_recovery_on_boot: clear the marker and read that it is gone.
CompleteRecovery(ready) ==
  \E rf \in ReadFaults(Keys) :
    IF ready /\ KeysAbsent(rf)
    THEN \E r \in RemoveResults(marker, "absent"), unread \in ReadFaults({"marker"}) :
           /\ marker' = r.rec
           /\ markerActive' = ~(r.ok /\ r.rec = "absent" /\ unread = {})
    ELSE UNCHANGED <<marker, markerActive>>

\* The history variables start again when the marker is cleared.
ForgetWhenCleared ==
  IF marker # "absent" /\ marker' = "absent"
  THEN survivors' = {} /\ provCommitted' = FALSE
  ELSE UNCHANGED ghostVars

\* The rest of setup(): load the stores into RAM, decide bootstrap_only.
BootLoad ==
  /\ pc = "boot_load"
  /\ \E rf \in ReadFaults(IdentityKeys \cup ConfigKeys) :
       LET ids == IdentityStatus(rf)
           cfs == ConfigStatus(rf)
       IN /\ activeId' = IF Loaded(ids) THEN IdentityRecord(rf).val ELSE None
          /\ runtime' = IF Loaded(cfs) THEN ConfigRecord(rf).val ELSE runtime
          /\ bootstrapOnly' = (\/ ~recovery.ok
                               \/ recovery.pending
                               \/ ~Loaded(ids)
                               \/ ~(Loaded(cfs) \/ cfs = "not_found"))
          /\ IF recovery.pending /\ recovery.ok
             THEN CompleteRecovery(ids = "not_found" /\ cfs = "not_found")
             ELSE UNCHANGED <<marker, markerActive>>
  /\ ForgetWhenCleared
  /\ pc' = "loop"
  /\ recovery' = NoRecovery
  /\ UNCHANGED <<nvm, op, index, failed, busy, challenge, envVars>>

-----------------------------------------------------------------------------
(* Commands that write a store. Each begins in the loop and runs to its    *)
(* end before the loop takes another one.                                  *)

Begin(cmd, id, cfg, at) ==
  /\ op' = [cmd |-> cmd, id |-> id, cfg |-> cfg]
  /\ pc' = at

EndOp == op' = NoOp /\ pc' = "loop"

\* Mutant of ProvBegin: the identity is written before the configuration.
ProvBeginIdentityFirst(id, cfg) ==
  /\ pc = "loop" /\ ~Busy
  /\ \E rf \in ReadFaults(IdentityKeys) : IdentityStatus(rf) = "not_found"
  /\ Begin("prov", id, cfg, "id_write_a")
  /\ UNCHANGED <<nvmVars, ramVars, index, failed, recovery, envVars, ghostVars>>

\* handle_provision_command up to its first write: only an unprovisioned
\* node goes on, and the configuration is written before the identity.
ProvBegin(id, cfg) ==
  /\ pc = "loop" /\ ~Busy
  /\ \E rf \in ReadFaults(IdentityKeys) : IdentityStatus(rf) = "not_found"
  /\ Begin("prov", id, cfg, "config_write")
  /\ UNCHANGED <<nvmVars, ramVars, index, failed, recovery, envVars, ghostVars>>

\* handle_provision_command for the identity the node already has.
ProvAlreadyCommitted(id) ==
  /\ pc = "loop" /\ ~Busy
  /\ \E rf \in ReadFaults(IdentityKeys) :
       Loaded(IdentityStatus(rf)) /\ IdentityRecord(rf).val = id
  /\ activeId' = id
  /\ UNCHANGED <<nvmVars, flowVars, busy, markerActive, challenge, bootstrapOnly,
                 runtime, envVars, ghostVars>>

\* handle_configuration_transaction up to its write.
CfgSetBegin(cfg) ==
  /\ pc = "loop" /\ ~Busy /\ ~bootstrapOnly
  /\ \E rf \in ReadFaults(IdentityKeys) : Loaded(IdentityStatus(rf))
  /\ Begin("cfgset", None, cfg, "config_write")
  /\ UNCHANGED <<nvmVars, ramVars, index, failed, recovery, envVars, ghostVars>>

\* handle_config_command: the running configuration changes first.
CfgBegin(cfg) ==
  /\ pc = "loop" /\ ~Busy /\ ~bootstrapOnly
  /\ runtime' = cfg
  /\ Begin("cfg", None, cfg, "config_write")
  /\ UNCHANGED <<nvmVars, busy, markerActive, challenge, bootstrapOnly, activeId,
                 index, failed, recovery, envVars, ghostVars>>

\* CFG ... RESTORE and RATE change the running configuration only.
RuntimeOnly(cfg) ==
  /\ pc = "loop" /\ ~Busy /\ ~bootstrapOnly
  /\ runtime' = cfg
  /\ UNCHANGED <<nvmVars, flowVars, busy, markerActive, challenge, bootstrapOnly,
                 activeId, envVars, ghostVars>>

\* USB provision_identity; the refusal of a provisioned node is in IdWriteA.
UsbProvisionIdentity(id) ==
  /\ pc = "loop" /\ ~Busy
  /\ Begin("usb_identity", id, None, "id_write_a")
  /\ UNCHANGED <<nvmVars, ramVars, index, failed, recovery, envVars, ghostVars>>

\* USB restore_configuration.
UsbRestoreConfiguration(cfg) ==
  /\ pc = "loop" /\ ~Busy
  /\ Begin("usb_configuration", None, cfg, "config_write")
  /\ UNCHANGED <<nvmVars, ramVars, index, failed, recovery, envVars, ghostVars>>

\* Mutant of ConfigTarget: one slot is written over and over.
ConfigTargetFixed(gen) == "configuration_a"

\* The slot of a new configuration record is chosen by the parity of its
\* generation.
ConfigTarget(gen) == IF gen % 2 = 1 THEN "configuration_a" ELSE "configuration_b"

\* generation of the next record, from what load() returned.
WriteGeneration(rf) ==
  IF Loaded(ConfigStatus(rf)) THEN NextGeneration(ConfigRecord(rf).gen) ELSE 1

\* What the caller of write() does once the configuration is verified.
ConfigWritten ==
  /\ survivors' = {op.cfg}
  /\ runtime' = IF op.cmd = "cfgset" THEN op.cfg ELSE runtime
  /\ IF op.cmd = "prov" THEN pc' = "id_write_a" /\ UNCHANGED op ELSE EndOp

ConfigNotWritten ==
  /\ survivors' = IF survivors = {} THEN {} ELSE survivors \cup {op.cfg}
  /\ EndOp
  /\ UNCHANGED runtime

\* PersistentConfigurationStore::write, the write and the read-back.
ConfigWriteTo(key, gen) ==
  \E w \in WriteResults(nvm[key], Record("valid", gen, op.cfg), TornRecord),
     unread \in ReadFaults({key}) :
    /\ nvm' = [nvm EXCEPT ![key] = w.rec]
    /\ IF /\ w.ok
          /\ unread = {}
          /\ w.rec.st = "valid"
          /\ w.rec.gen = gen
       THEN ConfigWritten
       ELSE ConfigNotWritten

\* PersistentConfigurationStore::write.
ConfigWrite ==
  /\ pc = "config_write"
  /\ \E rf \in ReadFaults(ConfigKeys) :
       IF Loaded(ConfigStatus(rf)) \/ ConfigStatus(rf) = "not_found"
       THEN ConfigWriteTo(ConfigTarget(WriteGeneration(rf)), WriteGeneration(rf))
       ELSE ConfigNotWritten /\ UNCHANGED nvm
  /\ UNCHANGED <<marker, busy, markerActive, challenge, bootstrapOnly, activeId,
                 index, failed, recovery, envVars, provCommitted>>

\* Mutant of IdWrites: both identity records carry the first generation.
IdWritesFirstGeneration(key, gen) ==
  WriteResults(nvm[key], Record("valid", 1, op.id), TornRecord)

\* NodeIdentityStore::provision writes record gen to key and verifies it.
IdWrites(key, gen) == WriteResults(nvm[key], Record("valid", gen, op.id), TornRecord)
IdVerified(w, rf) == w.ok /\ w.rec.st = "valid" /\ rf = {}

\* Mutant of IdWriteA: a store that cannot be read is taken for an empty one.
IdWriteAUnlessLoaded ==
  /\ pc = "id_write_a"
  /\ \E rf \in ReadFaults(IdentityKeys) :
       /\ ~Loaded(IdentityStatus(rf))
       /\ \E w \in IdWrites("identity_a", 1), unread \in ReadFaults({"identity_a"}) :
            /\ nvm' = [nvm EXCEPT !["identity_a"] = w.rec]
            /\ provCommitted' = (op.cmd = "prov" /\ w.rec.st = "valid")
            /\ IF IdVerified(w, unread) THEN pc' = "id_write_b" /\ UNCHANGED op ELSE EndOp
  /\ UNCHANGED <<marker, ramVars, index, failed, recovery, envVars, survivors>>

\* NodeIdentityStore::provision: only an unprovisioned store is written.
IdWriteA ==
  /\ pc = "id_write_a"
  /\ \E rf \in ReadFaults(IdentityKeys) :
       \/ /\ IdentityStatus(rf) # "not_found"
          /\ EndOp
          /\ UNCHANGED <<nvm, provCommitted>>
       \/ /\ IdentityStatus(rf) = "not_found"
          /\ \E w \in IdWrites("identity_a", 1), unread \in ReadFaults({"identity_a"}) :
               /\ nvm' = [nvm EXCEPT !["identity_a"] = w.rec]
               /\ provCommitted' = (op.cmd = "prov" /\ w.rec.st = "valid")
               /\ IF IdVerified(w, unread)
                  THEN pc' = "id_write_b" /\ UNCHANGED op
                  ELSE EndOp
  /\ UNCHANGED <<marker, ramVars, index, failed, recovery, envVars, survivors>>

\* The second identity record, and the end of the command that asked for it:
\* PROV takes the node out of bootstrap, provision_identity does not.
IdWriteB ==
  /\ pc = "id_write_b"
  /\ \E w \in IdWrites("identity_b", 2), unread \in ReadFaults({"identity_b"}) :
       /\ nvm' = [nvm EXCEPT !["identity_b"] = w.rec]
       /\ IF IdVerified(w, unread) /\ op.cmd = "prov"
          THEN activeId' = op.id /\ bootstrapOnly' = FALSE /\ runtime' = op.cfg
          ELSE UNCHANGED <<activeId, bootstrapOnly, runtime>>
  /\ EndOp
  /\ UNCHANGED <<marker, busy, markerActive, challenge, index, failed, recovery,
                 envVars, ghostVars>>

-----------------------------------------------------------------------------
(* The factory reset: prepare, confirm, and the deletion it starts.        *)

\* prepare_factory_reset cancels the pending challenge before anything else;
\* a request that is refused leaves none.
UsbPrepare(accepted) ==
  /\ pc = "loop"
  /\ challenge' = IF accepted /\ ~markerActive THEN "live" ELSE "none"
  /\ UNCHANGED <<nvmVars, flowVars, busy, markerActive, bootstrapOnly, activeId,
                 runtime, envVars, ghostVars>>

\* millis() passes the expiry of the challenge; 2^31 ms later the signed
\* comparison of confirm() takes the same challenge for unexpired again. Only
\* the loop looks at the clock.
ChallengeClock ==
  /\ pc = "loop" /\ challenge # "none"
  /\ challenge' = IF challenge = "live" THEN "expired" ELSE "live"
  /\ UNCHANGED <<nvmVars, flowVars, busy, markerActive, bootstrapOnly, activeId,
                 runtime, envVars, ghostVars>>

\* cancel_factory_reset, and a confirm_factory_reset that is malformed, does
\* not match the challenge or comes too late: all of them consume it.
UsbCancel ==
  /\ pc = "loop" /\ challenge # "none"
  /\ challenge' = "none"
  /\ UNCHANGED <<nvmVars, flowVars, busy, markerActive, bootstrapOnly, activeId,
                 runtime, envVars, ghostVars>>

\* confirm() with the right arguments, up to its first write.
UsbConfirm ==
  /\ pc = "loop" /\ challenge = "live"
  /\ challenge' = "none"
  /\ busy' = TRUE
  /\ pc' = "marker_write"
  /\ UNCHANGED <<nvmVars, op, index, failed, recovery, markerActive, bootstrapOnly,
                 activeId, runtime, envVars, ghostVars>>

\* confirm(): write_marker(MarkerWritten). Nothing is deleted unless it works.
MarkerWrite ==
  /\ pc = "marker_write"
  /\ \E w \in MarkerWrites("marker_written"), rf \in ReadFaults({"marker"}) :
       /\ marker' = w.rec
       /\ IF MarkerVerified(w, "marker_written", rf)
          THEN /\ markerActive' = TRUE
               /\ pc' = "reset_remove" /\ index' = 1 /\ failed' = FALSE
               /\ UNCHANGED busy
          ELSE /\ busy' = FALSE /\ pc' = "loop"
               /\ UNCHANGED <<markerActive, index, failed>>
  /\ UNCHANGED <<nvm, op, recovery, challenge, bootstrapOnly, activeId, runtime,
                 envVars, ghostVars>>

\* One iteration of the deletion loop of confirm(), which goes on after a
\* failure and counts it.
ResetRemove ==
  /\ pc = "reset_remove"
  /\ LET key == ResetKeys[index] IN
     \E r \in RemoveResults(nvm[key], AbsentRecord), unread \in ReadFaults({key}) :
       LET bad == failed \/ ~(r.ok /\ unread = {} /\ r.rec.st = "absent") IN
       /\ nvm' = [nvm EXCEPT ![key] = r.rec]
       /\ \/ /\ index < Len(ResetKeys)
             /\ index' = index + 1
             /\ failed' = bad
             /\ UNCHANGED <<pc, busy>>
          \/ /\ index = Len(ResetKeys)
             /\ pc' = IF bad THEN "loop" ELSE "cleared_write"
             /\ busy' = ~bad
             /\ index' = 1
             /\ failed' = FALSE
  /\ UNCHANGED <<marker, op, recovery, markerActive, challenge, bootstrapOnly,
                 activeId, runtime, envVars, ghostVars>>

\* confirm(): write_marker(KeysCleared); success requires a reboot.
ClearedWrite ==
  /\ pc = "cleared_write"
  /\ \E w \in MarkerWrites("keys_cleared"), rf \in ReadFaults({"marker"}) :
       /\ marker' = w.rec
       /\ pc' = IF MarkerVerified(w, "keys_cleared", rf) THEN "reboot" ELSE "loop"
  /\ busy' = FALSE
  /\ UNCHANGED <<nvm, op, index, failed, recovery, markerActive, challenge,
                 bootstrapOnly, activeId, runtime, envVars, ghostVars>>

-----------------------------------------------------------------------------
(* The end of a loop pass, resets of the processor, and the environment.   *)

\* loop(): a busy reset controller turns bootstrap mode on for good.
LoopTail ==
  /\ pc = "loop" /\ Busy
  /\ bootstrapOnly' = TRUE
  /\ UNCHANGED <<nvmVars, flowVars, busy, markerActive, challenge, activeId,
                 runtime, envVars, ghostVars>>

\* The static initial values of the firmware's variables.
RamCleared ==
  /\ pc' = "boot"
  /\ op' = NoOp
  /\ index' = 1
  /\ failed' = FALSE
  /\ recovery' = NoRecovery
  /\ busy' = FALSE
  /\ markerActive' = FALSE
  /\ challenge' = "none"
  /\ bootstrapOnly' = TRUE
  /\ activeId' = None
  /\ runtime' = DefaultConfig

\* loop(): systemReset() after a confirmed reset.
Reboot ==
  /\ pc = "reboot"
  /\ RamCleared
  /\ UNCHANGED <<nvmVars, envVars, ghostVars>>

\* Power goes and comes back, in the loop or between two steps.
PowerLoss ==
  /\ pc = "loop" \/ ~quiet
  /\ RamCleared
  /\ UNCHANGED <<nvmVars, envVars, ghostVars>>

\* From here on the storage works and power is lost only in the loop.
Quiesce ==
  /\ ~quiet
  /\ quiet' = TRUE
  /\ UNCHANGED <<nvmVars, ramVars, flowVars, faults, ghostVars>>

\* What the processor does by itself.
NodeStep ==
  \/ Boot \/ RecoverRemove \/ RecoverVerify \/ BootLoad
  \/ ConfigWrite \/ IdWriteA \/ IdWriteB
  \/ MarkerWrite \/ ResetRemove \/ ClearedWrite \/ Reboot
  \/ LoopTail

\* What a gateway or an operator asks of it.
Command ==
  \/ \E id \in NodeIds, cfg \in Configs : ProvBegin(id, cfg)
  \/ \E id \in NodeIds : ProvAlreadyCommitted(id) \/ UsbProvisionIdentity(id)
  \/ \E cfg \in Configs :
       CfgSetBegin(cfg) \/ CfgBegin(cfg) \/ RuntimeOnly(cfg) \/ UsbRestoreConfiguration(cfg)
  \/ \E accepted \in BOOLEAN : UsbPrepare(accepted)
  \/ UsbCancel \/ UsbConfirm

Next == NodeStep \/ Command \/ ChallengeClock \/ PowerLoss \/ Quiesce

Spec == Init /\ [][Next]_vars

\* The processor keeps executing instructions.
FairSpec == Spec /\ WF_vars(NodeStep)

-----------------------------------------------------------------------------
(* Properties                                                              *)

PcValues == {"boot", "recover_remove", "recover_verify", "boot_load", "loop",
             "config_write", "id_write_a", "id_write_b", "marker_write",
             "reset_remove", "cleared_write", "reboot"}
Commands == {"none", "prov", "cfgset", "cfg", "usb_identity", "usb_configuration"}
Records  == [st : {"absent", "torn", "valid"}, gen : Gens,
             val : NodeIds \cup Configs \cup {None}]

\* Every variable has its type: records and the marker hold what the firmware
\* can store, the control state is one of the program points above.
TypeOK ==
  /\ nvm \in [Keys -> Records]
  /\ marker \in {"absent", "torn", "marker_written", "keys_cleared"}
  /\ pc \in PcValues
  /\ op \in [cmd : Commands, id : NodeIds \cup {None}, cfg : Configs \cup {None}]
  /\ index \in 1 .. 6
  /\ failed \in BOOLEAN
  /\ recovery \in [ok : BOOLEAN, pending : BOOLEAN]
  /\ busy \in BOOLEAN /\ markerActive \in BOOLEAN /\ bootstrapOnly \in BOOLEAN
  /\ challenge \in {"none", "live", "expired"}
  /\ activeId \in NodeIds \cup {None}
  /\ runtime \in Configs
  /\ faults \subseteq FaultKinds /\ quiet \in BOOLEAN
  /\ survivors \subseteq Configs
  /\ provCommitted \in BOOLEAN

\* A configuration whose write() returned Ok is what the next load returns,
\* unless a later write() replaced it; a write() that failed part-way may or
\* may not have taken effect, but nothing older ever comes back
\* (PersistentConfigurationStore::write and load). Two kinds of fault are one
\* too many: a record that cannot be read for a moment is overwritten, and if
\* that write is torn the record before it comes back.
AckedConfigSurvives ==
  ~({"read", "torn"} \subseteq faults) /\ marker = "absent" /\ survivors # {} =>
    DurableConfig \in survivors

\* Neither store ever holds two records of the same generation, which load()
\* would refuse as a conflict and nothing but a factory reset could repair.
NoGenerationConflict ==
  /\ IdentityStatus({}) # "generation_conflict"
  /\ ConfigStatus({}) # "generation_conflict"

\* A node that is about to send telemetry has a valid identity and sends it
\* under the identity that is in its non-volatile store: never unassigned,
\* never under an identity a reset has deleted (loop, runtime_node_id).
PublishesDurableIdentity ==
  Publishing => activeId # None /\ DurableId = activeId

\* handle_provision_command: "Identity is written last and is the durable
\* commit marker". Once an identity written by PROV is in the store, so is a
\* configuration, whatever fails afterwards.
ProvCommitsConfiguration ==
  provCommitted /\ marker = "absent" /\ DurableId # None => DurableConfig # None

\* complete_recovery_on_boot: the marker goes only when every resettable key
\* has gone, over any sequence of failed deletions, power losses and boots.
MarkerOutlivesKeys ==
  [][marker # "absent" /\ marker' = "absent" =>
       \A k \in Keys : nvm'[k].st = "absent"]_vars

\* Identity is assigned once: a load that returns an identity goes on
\* returning that identity until a reset marker is in the store.
IdentityWrittenOnce ==
  [][DurableId # None /\ DurableId' # DurableId => marker # "absent"]_vars

\* "A new generation is written to the inactive slot": a configuration write
\* never touches the slot that holds the record load() would return, as long
\* as write() can read both slots.
ActiveSlotRetained ==
  [][pc = "config_write" /\ "read" \notin faults =>
       \A k \in ConfigKeys :
         Loaded(ConfigStatus({})) /\ nvm[k] = ConfigRecord({}) => nvm'[k] = nvm[k]]_vars

\* A reset whose marker reached the store is carried to its end by the boots
\* that follow: once the storage works, and as long as the node is started
\* again and again, the marker is cleared.
ResetCompletes ==
  (<>[]quiet /\ []<>(pc = "boot")) => []<>(marker = "absent")
=============================================================================
