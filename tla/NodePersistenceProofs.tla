----------------------- MODULE NodePersistenceProofs -----------------------
(***************************************************************************)
(* What NodePersistence guarantees for any sets of identities and          *)
(* configurations, any even generation modulus and any mix of storage      *)
(* faults. The lemmas say what one storage call may return; the inductive  *)
(* invariant relates the two records of a store to each other and the      *)
(* program counter to the stores and the marker.                           *)
(***************************************************************************)
EXTENDS NodePersistence, TLAPS

-----------------------------------------------------------------------------
(* Storage calls                                                           *)

\* write(): the object afterwards is the old one, the new one or a torn one.
LEMMA WriteResultsFact ==
  ASSUME NEW old, NEW new, NEW torn, NEW w \in WriteResults(old, new, torn)
  PROVE  w.rec = old \/ w.rec = new \/ w.rec = torn
<1>1. \/ w = [ok |-> TRUE, rec |-> new]
      \/ w = [ok |-> FALSE, rec |-> old]
      \/ w = [ok |-> TRUE, rec |-> torn]
      \/ w = [ok |-> FALSE, rec |-> torn]
  BY Zenon DEF WriteResults
<1> QED BY <1>1, SMT

\* remove(): the object afterwards is the old one or is absent.
LEMMA RemoveResultsFact ==
  ASSUME NEW old, NEW absent, NEW r \in RemoveResults(old, absent)
  PROVE  r.rec = old \/ r.rec = absent
<1>1. r = [ok |-> TRUE, rec |-> absent] \/ r = [ok |-> FALSE, rec |-> old]
  BY Zenon DEF RemoveResults
<1> QED BY <1>1, SMT

\* write_marker: no call removes the marker, and success means it is there.
LEMMA MarkerWritesFact ==
  ASSUME NEW stage, NEW w \in MarkerWrites(stage), NEW rf
  PROVE  /\ w.rec = marker \/ w.rec = stage \/ w.rec = "torn"
         /\ MarkerVerified(w, stage, rf) => w.rec = stage
  BY WriteResultsFact DEF MarkerWrites, MarkerVerified

\* provision: a record that was verified is the record that was written.
LEMMA IdWritesFact ==
  ASSUME NEW key, NEW gen, NEW w \in IdWrites(key, gen), NEW rf, nvm[key].st # "valid"
  PROVE  /\ \/ w.rec = nvm[key]
            \/ w.rec = Record("valid", gen, op.id)
            \/ w.rec = TornRecord
         /\ IdVerified(w, rf) => w.rec = Record("valid", gen, op.id)
<1>1. w.rec = nvm[key] \/ w.rec = Record("valid", gen, op.id) \/ w.rec = TornRecord
  BY WriteResultsFact DEF IdWrites
<1>2. TornRecord.st # "valid"
  BY DEF TornRecord, Record
<1> QED BY <1>1, <1>2 DEF IdVerified

\* reset_keys_absent() returns true only if every resettable key is absent.
LEMMA KeysAbsentFact ==
  ASSUME NEW rf, KeysAbsent(rf)
  PROVE  \A k \in Keys : nvm[k].st = "absent"
  BY DEF KeysAbsent, Seen, UnreadableRecord, Record

\* The deletion loops visit resettable keys only.
LEMMA ResetKeysFact ==
  /\ Len(ResetKeys) = 6
  /\ \A i \in 1 .. 6 : ResetKeys[i] \in Keys
  BY DEF ResetKeys, Keys

-----------------------------------------------------------------------------
(* The inductive invariant                                                 *)

\* What the two records of a store have to do with each other. The parity of
\* a configuration record's generation is that of its slot; an identity record
\* has its slot's generation, and two identity records hold one identity.
SlotInv ==
  /\ nvm["configuration_a"].st = "valid" =>
       nvm["configuration_a"].gen % 2 = 1 /\ nvm["configuration_a"].val \in Configs
  /\ nvm["configuration_b"].st = "valid" =>
       nvm["configuration_b"].gen % 2 = 0 /\ nvm["configuration_b"].val \in Configs
  /\ nvm["identity_a"].st = "valid" =>
       nvm["identity_a"].gen = 1 /\ nvm["identity_a"].val \in NodeIds
  /\ nvm["identity_b"].st = "valid" =>
       nvm["identity_b"].gen = 2 /\ nvm["identity_b"].val \in NodeIds
  /\ nvm["identity_a"].st = "valid" /\ nvm["identity_b"].st = "valid" =>
       nvm["identity_a"].val = nvm["identity_b"].val

\* What is known at each program point: a node that boots is in bootstrap, keys
\* are deleted only under a marker, confirm() deletes them only once the node is
\* fenced, and a command carries the values it was given.
FlowInv ==
  /\ pc \in {"boot", "recover_remove", "recover_verify", "boot_load"} => bootstrapOnly
  /\ pc \in {"recover_remove", "recover_verify", "reset_remove", "cleared_write"} =>
       marker # "absent"
  /\ pc \in {"reset_remove", "cleared_write", "reboot"} => markerActive
  /\ pc = "config_write" => op.cfg \in Configs /\ (op.cmd = "prov" => op.id \in NodeIds)
  /\ pc \in {"id_write_a", "id_write_b"} =>
       op.id \in NodeIds /\ (op.cmd = "prov" => op.cfg \in Configs)
  /\ pc = "id_write_b" => /\ nvm["identity_a"] = Record("valid", 1, op.id)
                          /\ nvm["identity_b"].st = "absent"

\* A node out of bootstrap has an active identity, and it is the one in the
\* store as long as no reset fences the node.
ActiveInv ==
  ~bootstrapOnly => activeId # None /\ (markerActive \/ DurableId = activeId)

IInv == TypeOK /\ SlotInv /\ FlowInv /\ ActiveInv

-----------------------------------------------------------------------------
(* Loading                                                                 *)

\* load() returns one of the two records it read, and a valid one.
LEMMA LoadFact ==
  ASSUME NEW a, NEW b, Loaded(LoadStatus(a, b))
  PROVE  \/ LoadRecord(a, b) = a /\ a.st = "valid"
         \/ LoadRecord(a, b) = b /\ b.st = "valid"
  BY DEF Loaded, LoadStatus, LoadRecord

\* A valid record was read, so it is the record in the store.
LEMMA SeenFact ==
  ASSUME NEW key, NEW rf
  PROVE  /\ Seen(key, rf).st = "valid" => Seen(key, rf) = nvm[key]
         /\ Seen(key, rf).st = "absent" => nvm[key].st = "absent"
  BY DEF Seen, UnreadableRecord, Record

\* 1 and 2 are generations, and the generation after a generation is one.
LEMMA GenerationFact ==
  /\ 0 \in Gens /\ 1 \in Gens /\ 2 \in Gens
  /\ \A g \in Gens : g \in Nat /\ NextGeneration(g) \in Gens
  BY GenAssumption DEF Gens, NextGeneration

\* The records the firmware writes.
LEMMA RecordFact ==
  /\ AbsentRecord \in Records /\ TornRecord \in Records
  /\ \A g \in Gens, v \in NodeIds \cup Configs : Record("valid", g, v) \in Records
  BY GenerationFact DEF AbsentRecord, TornRecord, Record, Records

\* A configuration that loads is a configuration.
LEMMA ConfigLoadFact ==
  ASSUME TypeOK, SlotInv, NEW rf, Loaded(ConfigStatus(rf))
  PROVE  ConfigRecord(rf).val \in Configs /\ ConfigRecord(rf).gen \in Gens
<1>1. \/ /\ ConfigRecord(rf) = Seen("configuration_a", rf)
         /\ Seen("configuration_a", rf).st = "valid"
      \/ /\ ConfigRecord(rf) = Seen("configuration_b", rf)
         /\ Seen("configuration_b", rf).st = "valid"
  BY LoadFact DEF ConfigStatus, ConfigRecord
<1>2. \A k \in Keys : nvm[k].gen \in Gens
  BY DEF TypeOK, Records
<1>3. "configuration_a" \in Keys /\ "configuration_b" \in Keys
  BY DEF Keys
<1> QED BY <1>1, <1>2, <1>3, SeenFact DEF SlotInv

\* However many reads fail, an identity that loads at all is the one in the
\* store.
LEMMA IdLoadFact ==
  ASSUME SlotInv, NEW rf, Loaded(IdentityStatus(rf))
  PROVE  IdentityRecord(rf).val = DurableId /\ DurableId \in NodeIds
<1>1. \/ /\ IdentityRecord(rf) = nvm["identity_a"]
         /\ nvm["identity_a"].st = "valid"
      \/ /\ IdentityRecord(rf) = nvm["identity_b"]
         /\ nvm["identity_b"].st = "valid"
  BY LoadFact, SeenFact DEF IdentityStatus, IdentityRecord
<1>2. Seen("identity_a", {}) = nvm["identity_a"] /\ Seen("identity_b", {}) = nvm["identity_b"]
  BY DEF Seen
<1>3. Loaded(IdentityStatus({}))
  BY <1>1, <1>2 DEF IdentityStatus, LoadStatus, Loaded, SlotInv
<1>4. \/ /\ IdentityRecord({}) = nvm["identity_a"]
         /\ nvm["identity_a"].st = "valid"
      \/ /\ IdentityRecord({}) = nvm["identity_b"]
         /\ nvm["identity_b"].st = "valid"
  BY <1>2, <1>3, LoadFact DEF IdentityStatus, IdentityRecord
<1>5. IdentityRecord(rf).val = IdentityRecord({}).val /\ IdentityRecord({}).val \in NodeIds
  BY <1>1, <1>4 DEF SlotInv
<1> QED BY <1>3, <1>5 DEF DurableId

\* An identity store that loads as empty is empty.
LEMMA IdEmptyFact ==
  ASSUME NEW rf, IdentityStatus(rf) = "not_found"
  PROVE  /\ nvm["identity_a"].st = "absent" /\ nvm["identity_b"].st = "absent"
         /\ DurableId = None
<1>1. Seen("identity_a", rf).st = "absent" /\ Seen("identity_b", rf).st = "absent"
  BY DEF IdentityStatus, LoadStatus
<1>2. nvm["identity_a"].st = "absent" /\ nvm["identity_b"].st = "absent"
  BY <1>1, SeenFact
<1>3. Seen("identity_a", {}) = nvm["identity_a"] /\ Seen("identity_b", {}) = nvm["identity_b"]
  BY DEF Seen
<1> QED BY <1>2, <1>3 DEF DurableId, IdentityStatus, LoadStatus, Loaded

-----------------------------------------------------------------------------
(* Every step preserves TypeOK                                             *)

\* Storing a record under a key keeps the store a store.
LEMMA StoreFact ==
  ASSUME TypeOK, NEW key \in Keys, NEW rec \in Records
  PROVE  [nvm EXCEPT ![key] = rec] \in [Keys -> Records]
  BY DEF TypeOK

\* What recover_on_boot returns.
LEMMA RecoveryFact ==
  /\ RecoverFailed \/ RecoverPending =>
       recovery' \in [ok : BOOLEAN, pending : BOOLEAN] /\ pc' = "boot_load"
  /\ NoRecovery \in [ok : BOOLEAN, pending : BOOLEAN]
<1>1. NoRecovery \in [ok : BOOLEAN, pending : BOOLEAN]
  BY SMT DEF NoRecovery
<1>2. ASSUME RecoverFailed \/ RecoverPending
      PROVE  recovery' \in [ok : BOOLEAN, pending : BOOLEAN] /\ pc' = "boot_load"
  <2>1. recovery' \in [ok : BOOLEAN, pending : BOOLEAN]
    <3>1. \/ recovery' = [ok |-> FALSE, pending |-> FALSE]
          \/ recovery' = [ok |-> TRUE, pending |-> TRUE]
      BY <1>2, Zenon DEF RecoverFailed, RecoverPending
    <3>2. /\ [ok |-> FALSE, pending |-> FALSE] \in [ok : BOOLEAN, pending : BOOLEAN]
          /\ [ok |-> TRUE, pending |-> TRUE] \in [ok : BOOLEAN, pending : BOOLEAN]
      BY SMT
    <3> QED BY <3>1, <3>2, Zenon
  <2>2. pc' = "boot_load"
    BY <1>2, Zenon DEF RecoverFailed, RecoverPending
  <2> QED BY <2>1, <2>2
<1> QED BY <1>1, <1>2, Zenon

\* The steps of setup() keep every variable's type.
LEMMA TypeBoot ==
  ASSUME TypeOK, SlotInv, Boot \/ RecoverRemove \/ RecoverVerify \/ BootLoad
  PROVE  TypeOK'
<1> USE DEF TypeOK, PcValues, vars, nvmVars, ramVars, flowVars, envVars, ghostVars
<1>1. CASE Boot
  <2>1. recovery' \in [ok : BOOLEAN, pending : BOOLEAN] /\ pc' \in PcValues
    BY <1>1, RecoveryFact, Zenon DEF Boot
  <2>2. markerActive' \in BOOLEAN
    BY <1>1, Zenon DEF Boot
  <2>3. index' \in 1 .. 6
    BY <1>1 DEF Boot
  <2> QED BY <1>1, <2>1, <2>2, <2>3 DEF Boot
<1>2. CASE RecoverRemove
  <2>1. ResetKeys[index] \in Keys
    BY ResetKeysFact
  <2>2. PICK r \in RemoveResults(nvm[ResetKeys[index]], AbsentRecord) :
          nvm' = [nvm EXCEPT ![ResetKeys[index]] = r.rec]
    BY <1>2 DEF RecoverRemove
  <2>3. r.rec \in Records
    BY <2>1, RemoveResultsFact, RecordFact
  <2>4. nvm' \in [Keys -> Records]
    BY <2>1, <2>2, <2>3, StoreFact
  <2>5. index' \in 1 .. 6
    BY <1>2, ResetKeysFact DEF RecoverRemove
  <2>6. recovery' \in [ok : BOOLEAN, pending : BOOLEAN] /\ pc' \in PcValues
    BY <1>2, RecoveryFact, Zenon DEF RecoverRemove
  <2> QED BY <1>2, <2>4, <2>5, <2>6 DEF RecoverRemove
<1>3. CASE RecoverVerify
  <2>1. marker' \in {"absent", "torn", "marker_written", "keys_cleared"}
    BY <1>3, MarkerWritesFact DEF RecoverVerify
  <2>2. recovery' \in [ok : BOOLEAN, pending : BOOLEAN] /\ pc' \in PcValues
    BY <1>3, RecoveryFact, Zenon DEF RecoverVerify
  <2> QED BY <1>3, <2>1, <2>2 DEF RecoverVerify
<1>4. CASE BootLoad
  <2>1. PICK rf \in ReadFaults(IdentityKeys \cup ConfigKeys) :
          /\ activeId' = IF Loaded(IdentityStatus(rf)) THEN IdentityRecord(rf).val ELSE None
          /\ runtime' = IF Loaded(ConfigStatus(rf)) THEN ConfigRecord(rf).val ELSE runtime
          /\ bootstrapOnly' = (\/ ~recovery.ok
                               \/ recovery.pending
                               \/ ~Loaded(IdentityStatus(rf))
                               \/ ~(Loaded(ConfigStatus(rf)) \/ ConfigStatus(rf) = "not_found"))
          /\ IF recovery.pending /\ recovery.ok
             THEN CompleteRecovery(/\ IdentityStatus(rf) = "not_found"
                                   /\ ConfigStatus(rf) = "not_found")
             ELSE UNCHANGED <<marker, markerActive>>
    BY <1>4 DEF BootLoad
  <2>2. activeId' \in NodeIds \cup {None} /\ runtime' \in Configs
    BY <2>1, IdLoadFact, ConfigLoadFact
  <2>3. bootstrapOnly' \in BOOLEAN
    BY <2>1
  <2>4. /\ marker' \in {"absent", "torn", "marker_written", "keys_cleared"}
        /\ markerActive' \in BOOLEAN
    BY <2>1, RemoveResultsFact DEF CompleteRecovery
  <2>5. survivors' \subseteq Configs /\ provCommitted' \in BOOLEAN
    BY <1>4 DEF BootLoad, ForgetWhenCleared
  <2> QED BY <1>4, <2>2, <2>3, <2>4, <2>5 DEF BootLoad, NoRecovery
<1> QED BY <1>1, <1>2, <1>3, <1>4

\* The steps that write a configuration or an identity record keep every
\* variable's type.
LEMMA TypeWrite ==
  ASSUME TypeOK, SlotInv, FlowInv, ConfigWrite \/ IdWriteA \/ IdWriteB
  PROVE  TypeOK'
<1> USE DEF TypeOK, PcValues, vars, nvmVars, ramVars, flowVars, envVars, ghostVars
<1>0. NoOp \in [cmd : Commands, id : NodeIds \cup {None}, cfg : Configs \cup {None}]
  BY DEF NoOp, Commands
<1>1. CASE ConfigWrite
  <2>1. op.cfg \in Configs
    BY <1>1 DEF ConfigWrite, FlowInv
  <2>2. nvm' \in [Keys -> Records]
    <3>1. \A rf : WriteGeneration(rf) \in Gens
      BY ConfigLoadFact, GenerationFact DEF WriteGeneration
    <3>2. ASSUME NEW key \in Keys, NEW gen \in Gens, ConfigWriteTo(key, gen)
          PROVE  nvm' \in [Keys -> Records]
      <4>1. PICK w \in WriteResults(nvm[key], Record("valid", gen, op.cfg), TornRecord) :
              nvm' = [nvm EXCEPT ![key] = w.rec]
        BY <3>2 DEF ConfigWriteTo
      <4>2. w.rec \in Records
        BY <2>1, WriteResultsFact, RecordFact
      <4> QED BY <4>1, <4>2, StoreFact
    <3>3. \A gen : ConfigTarget(gen) \in Keys
      BY DEF ConfigTarget, Keys
    <3> QED BY <1>1, <3>1, <3>2, <3>3 DEF ConfigWrite
  <2>3. /\ survivors' \subseteq Configs
        /\ runtime' \in Configs
        /\ pc' \in PcValues
        /\ op' = op \/ op' = NoOp
    <3>1. ConfigWritten \/ ConfigNotWritten
      BY <1>1 DEF ConfigWrite, ConfigWriteTo
    <3> QED BY <2>1, <3>1 DEF ConfigWritten, ConfigNotWritten, EndOp
  <2> QED BY <1>0, <1>1, <2>2, <2>3 DEF ConfigWrite
<1>2. CASE IdWriteA
  <2>1. PICK rf \in ReadFaults(IdentityKeys) :
          \/ nvm' = nvm /\ provCommitted' = provCommitted /\ EndOp
          \/ /\ IdentityStatus(rf) = "not_found"
             /\ \E w \in IdWrites("identity_a", 1) :
                  /\ nvm' = [nvm EXCEPT !["identity_a"] = w.rec]
                  /\ provCommitted' = (op.cmd = "prov" /\ w.rec.st = "valid")
             /\ (pc' = "id_write_b" /\ op' = op) \/ EndOp
    BY <1>2 DEF IdWriteA
  <2>2. nvm' \in [Keys -> Records]
    <3>1. CASE nvm' = nvm
      BY <3>1
    <3>2. ASSUME IdentityStatus(rf) = "not_found", NEW w \in IdWrites("identity_a", 1),
                 nvm' = [nvm EXCEPT !["identity_a"] = w.rec]
          PROVE  nvm' \in [Keys -> Records]
      <4>1. op.id \in NodeIds /\ "identity_a" \in Keys
        BY <1>2 DEF IdWriteA, FlowInv, Keys
      <4>2. nvm["identity_a"].st # "valid"
        BY <3>2, IdEmptyFact
      <4>3. w.rec \in Records
        BY <4>1, <4>2, IdWritesFact, RecordFact, GenerationFact
      <4> QED BY <3>2, <4>1, <4>3, StoreFact
    <3> QED BY <2>1, <3>1, <3>2
  <2>3. provCommitted' \in BOOLEAN
    BY <2>1
  <2>4. pc' \in PcValues /\ (op' = op \/ op' = NoOp)
    BY <2>1 DEF EndOp
  <2> QED BY <1>0, <1>2, <2>2, <2>3, <2>4 DEF IdWriteA
<1>3. CASE IdWriteB
  <2>1. PICK w \in IdWrites("identity_b", 2) :
          /\ nvm' = [nvm EXCEPT !["identity_b"] = w.rec]
          /\ \/ activeId' = op.id /\ bootstrapOnly' = FALSE /\ runtime' = op.cfg /\ op.cmd = "prov"
             \/ UNCHANGED <<activeId, bootstrapOnly, runtime>>
    BY <1>3 DEF IdWriteB
  <2>2. /\ op.id \in NodeIds /\ "identity_b" \in Keys
        /\ op.cmd = "prov" => op.cfg \in Configs
        /\ nvm["identity_b"].st # "valid"
    BY <1>3 DEF IdWriteB, FlowInv, Keys
  <2>3. w.rec \in Records
    BY <2>2, IdWritesFact, RecordFact, GenerationFact
  <2>4. nvm' \in [Keys -> Records]
    BY <2>1, <2>2, <2>3, StoreFact
  <2>5. activeId' \in NodeIds \cup {None} /\ bootstrapOnly' \in BOOLEAN /\ runtime' \in Configs
    BY <2>1, <2>2
  <2> QED BY <1>0, <1>3, <2>4, <2>5 DEF IdWriteB, EndOp
<1> QED BY <1>1, <1>2, <1>3

\* The steps of a factory reset keep every variable's type.
LEMMA TypeReset ==
  ASSUME TypeOK, MarkerWrite \/ ResetRemove \/ ClearedWrite \/ Reboot \/ LoopTail
                 \/ PowerLoss \/ Quiesce
  PROVE  TypeOK'
<1> USE DEF TypeOK, PcValues, vars, nvmVars, ramVars, flowVars, envVars, ghostVars
<1>1. CASE MarkerWrite
  <2>1. marker' \in {"absent", "torn", "marker_written", "keys_cleared"}
    BY <1>1, MarkerWritesFact DEF MarkerWrite
  <2>2. markerActive' \in BOOLEAN /\ busy' \in BOOLEAN /\ failed' \in BOOLEAN
    BY <1>1, Zenon DEF MarkerWrite
  <2>3. pc' \in PcValues /\ index' \in 1 .. 6
    BY <1>1 DEF MarkerWrite
  <2> QED BY <1>1, <2>1, <2>2, <2>3 DEF MarkerWrite
<1>2. CASE ResetRemove
  <2>1. ResetKeys[index] \in Keys
    BY ResetKeysFact
  <2>2. PICK r \in RemoveResults(nvm[ResetKeys[index]], AbsentRecord) :
          nvm' = [nvm EXCEPT ![ResetKeys[index]] = r.rec]
    BY <1>2 DEF ResetRemove
  <2>3. r.rec \in Records
    BY <2>1, RemoveResultsFact, RecordFact
  <2>4. nvm' \in [Keys -> Records]
    BY <2>1, <2>2, <2>3, StoreFact
  <2>5. index' \in 1 .. 6
    BY <1>2, ResetKeysFact DEF ResetRemove
  <2>6. failed' \in BOOLEAN /\ busy' \in BOOLEAN
    BY <1>2, Zenon DEF ResetRemove
  <2>7. pc' \in PcValues
    BY <1>2 DEF ResetRemove
  <2> QED BY <1>2, <2>4, <2>5, <2>6, <2>7 DEF ResetRemove
<1>3. CASE ClearedWrite
  <2>1. marker' \in {"absent", "torn", "marker_written", "keys_cleared"}
    BY <1>3, MarkerWritesFact DEF ClearedWrite
  <2>2. busy' \in BOOLEAN
    BY <1>3, Zenon DEF ClearedWrite
  <2>3. pc' \in PcValues
    BY <1>3 DEF ClearedWrite
  <2> QED BY <1>3, <2>1, <2>2, <2>3 DEF ClearedWrite
<1>4. CASE Reboot \/ PowerLoss
  <2>1. NoOp \in [cmd : Commands, id : NodeIds \cup {None}, cfg : Configs \cup {None}]
    BY DEF NoOp, Commands
  <2>2. RamCleared /\ UNCHANGED <<nvmVars, envVars, ghostVars>>
    BY <1>4, Zenon DEF Reboot, PowerLoss
  <2>3. /\ failed' \in BOOLEAN /\ busy' \in BOOLEAN
        /\ markerActive' \in BOOLEAN /\ bootstrapOnly' \in BOOLEAN
    BY <2>2, Zenon DEF RamCleared
  <2>4. recovery' \in [ok : BOOLEAN, pending : BOOLEAN]
    BY <2>2, RecoveryFact, Zenon DEF RamCleared
  <2> QED BY <2>1, <2>2, <2>3, <2>4, ConfigAssumption DEF RamCleared
<1>5. CASE LoopTail
  BY <1>5 DEF LoopTail
<1>6. CASE Quiesce
  BY <1>6 DEF Quiesce
<1> QED BY <1>1, <1>2, <1>3, <1>4, <1>5, <1>6

\* Accepting or refusing a command keeps every variable's type.
LEMMA TypeCommand ==
  ASSUME TypeOK, SlotInv, Command \/ ChallengeClock
  PROVE  TypeOK'
<1> USE DEF TypeOK, PcValues, vars, nvmVars, ramVars, flowVars, envVars, ghostVars
<1>1. ASSUME NEW cmd \in Commands, NEW id \in NodeIds \cup {None},
             NEW cfg \in Configs \cup {None}, NEW at \in PcValues, Begin(cmd, id, cfg, at)
      PROVE  /\ op' \in [cmd : Commands, id : NodeIds \cup {None}, cfg : Configs \cup {None}]
             /\ pc' \in PcValues
  BY <1>1 DEF Begin
<1>2. ASSUME NEW id \in NodeIds, NEW cfg \in Configs, ProvBegin(id, cfg)
      PROVE  TypeOK'
  <2>1. "prov" \in Commands /\ "config_write" \in PcValues
    BY DEF Commands
  <2> QED BY <1>1, <1>2, <2>1 DEF ProvBegin
<1>3. ASSUME NEW id \in NodeIds, ProvAlreadyCommitted(id)
      PROVE  TypeOK'
  BY <1>3 DEF ProvAlreadyCommitted
<1>4. ASSUME NEW id \in NodeIds, UsbProvisionIdentity(id)
      PROVE  TypeOK'
  <2>1. "usb_identity" \in Commands /\ "id_write_a" \in PcValues
    BY DEF Commands
  <2> QED BY <1>1, <1>4, <2>1 DEF UsbProvisionIdentity
<1>5. ASSUME NEW cfg \in Configs,
             CfgSetBegin(cfg) \/ CfgBegin(cfg) \/ UsbRestoreConfiguration(cfg)
      PROVE  TypeOK'
  <2>1. /\ "cfgset" \in Commands /\ "cfg" \in Commands /\ "usb_configuration" \in Commands
        /\ "config_write" \in PcValues
    BY DEF Commands
  <2>2. CASE CfgSetBegin(cfg)
    <3>1. Begin("cfgset", None, cfg, "config_write")
      BY <2>2, Zenon DEF CfgSetBegin
    <3>2. UNCHANGED <<nvmVars, ramVars, index, failed, recovery, envVars, ghostVars>>
      BY <2>2, Zenon DEF CfgSetBegin
    <3>3. /\ op' \in [cmd : Commands, id : NodeIds \cup {None}, cfg : Configs \cup {None}]
          /\ pc' \in PcValues
      BY <1>1, <2>1, <3>1
    <3> QED BY <3>2, <3>3
  <2>3. CASE CfgBegin(cfg)
    <3>1. Begin("cfg", None, cfg, "config_write") /\ runtime' = cfg
      BY <2>3, Zenon DEF CfgBegin
    <3>2. UNCHANGED <<nvmVars, busy, markerActive, challenge, bootstrapOnly, activeId,
                      index, failed, recovery, envVars, ghostVars>>
      BY <2>3, Zenon DEF CfgBegin
    <3>3. /\ op' \in [cmd : Commands, id : NodeIds \cup {None}, cfg : Configs \cup {None}]
          /\ pc' \in PcValues
      BY <1>1, <2>1, <3>1
    <3>4. runtime' \in Configs
      BY <3>1
    <3> QED BY <3>2, <3>3, <3>4
  <2>4. CASE UsbRestoreConfiguration(cfg)
    <3>1. Begin("usb_configuration", None, cfg, "config_write")
      BY <2>4, Zenon DEF UsbRestoreConfiguration
    <3>2. UNCHANGED <<nvmVars, ramVars, index, failed, recovery, envVars, ghostVars>>
      BY <2>4, Zenon DEF UsbRestoreConfiguration
    <3>3. /\ op' \in [cmd : Commands, id : NodeIds \cup {None}, cfg : Configs \cup {None}]
          /\ pc' \in PcValues
      BY <1>1, <2>1, <3>1
    <3> QED BY <3>2, <3>3
  <2> QED BY <1>5, <2>2, <2>3, <2>4
<1>6. ASSUME NEW cfg \in Configs, RuntimeOnly(cfg)
      PROVE  TypeOK'
  BY <1>6 DEF RuntimeOnly
<1>7. ASSUME NEW accepted \in BOOLEAN, UsbPrepare(accepted)
      PROVE  TypeOK'
  BY <1>7 DEF UsbPrepare
<1>8. CASE UsbCancel
  BY <1>8 DEF UsbCancel
<1>9. CASE ChallengeClock
  BY <1>9 DEF ChallengeClock
<1>10. CASE UsbConfirm
  <2>1. /\ pc' = "marker_write" /\ busy' = TRUE /\ challenge' = "none"
        /\ UNCHANGED <<nvmVars, op, index, failed, recovery, markerActive, bootstrapOnly,
                       activeId, runtime, envVars, ghostVars>>
    BY <1>10, Zenon DEF UsbConfirm
  <2> QED BY <2>1
<1> QED BY <1>2, <1>3, <1>4, <1>5, <1>6, <1>7, <1>8, <1>9, <1>10 DEF Command

\* Type correctness is preserved by every step.
LEMMA TypeStep ==
  ASSUME TypeOK, SlotInv, FlowInv, [Next]_vars
  PROVE  TypeOK'
<1>1. CASE UNCHANGED vars
  BY <1>1 DEF TypeOK, vars, nvmVars, ramVars, flowVars, envVars, ghostVars
<1> QED BY <1>1, TypeBoot, TypeWrite, TypeReset, TypeCommand DEF Next, NodeStep

-----------------------------------------------------------------------------
(* Every step preserves the relation between the records                   *)

\* Only these steps write or delete a record.
StoreStep == RecoverRemove \/ ResetRemove \/ ConfigWrite \/ IdWriteA \/ IdWriteB

\* Every other step leaves the records as they are.
LEMMA OtherSteps ==
  ASSUME [Next]_vars, ~StoreStep
  PROVE  nvm' = nvm
<1> USE DEF vars, nvmVars
<1>1. CASE NodeStep
  BY <1>1 DEF NodeStep, StoreStep, Boot, RecoverVerify, BootLoad, MarkerWrite,
              ClearedWrite, Reboot, LoopTail
<1>2. CASE Command
  BY <1>2 DEF Command, ProvBegin, ProvAlreadyCommitted, UsbProvisionIdentity, CfgSetBegin,
              CfgBegin, RuntimeOnly, UsbRestoreConfiguration, UsbPrepare, UsbCancel, UsbConfirm
<1> QED BY <1>1, <1>2 DEF Next, ChallengeClock, PowerLoss, Quiesce

\* A deletion loop leaves every record as it was or absent.
LEMMA RemoveStep ==
  ASSUME TypeOK, RecoverRemove \/ ResetRemove
  PROVE  \A k \in Keys : nvm'[k] = nvm[k] \/ nvm'[k] = AbsentRecord
<1>1. PICK r \in RemoveResults(nvm[ResetKeys[index]], AbsentRecord) :
        nvm' = [nvm EXCEPT ![ResetKeys[index]] = r.rec]
  BY DEF RecoverRemove, ResetRemove
<1>2. r.rec = nvm[ResetKeys[index]] \/ r.rec = AbsentRecord
  BY RemoveResultsFact
<1> QED BY <1>1, <1>2, ResetKeysFact DEF TypeOK

\* The identity records before and after provision() writes them.
LEMMA IdWriteAStep ==
  ASSUME TypeOK, FlowInv, IdWriteA
  PROVE  \/ nvm' = nvm /\ pc' = "loop"
         \/ /\ nvm["identity_a"].st = "absent" /\ nvm["identity_b"].st = "absent"
            /\ DurableId = None
            /\ \A k \in Keys \ {"identity_a"} : nvm'[k] = nvm[k]
            /\ \/ nvm'["identity_a"] = nvm["identity_a"]
               \/ nvm'["identity_a"] = Record("valid", 1, op.id)
               \/ nvm'["identity_a"] = TornRecord
            /\ \/ pc' = "loop"
               \/ /\ pc' = "id_write_b" /\ op' = op
                  /\ nvm'["identity_a"] = Record("valid", 1, op.id)
<1>1. PICK rf \in ReadFaults(IdentityKeys) :
        \/ nvm' = nvm /\ pc' = "loop"
        \/ /\ IdentityStatus(rf) = "not_found"
           /\ \E w \in IdWrites("identity_a", 1), unread \in ReadFaults({"identity_a"}) :
                /\ nvm' = [nvm EXCEPT !["identity_a"] = w.rec]
                /\ IF IdVerified(w, unread)
                   THEN pc' = "id_write_b" /\ op' = op
                   ELSE pc' = "loop"
  BY DEF IdWriteA, EndOp
<1>2. ASSUME IdentityStatus(rf) = "not_found",
             NEW w \in IdWrites("identity_a", 1), NEW unread \in ReadFaults({"identity_a"}),
             nvm' = [nvm EXCEPT !["identity_a"] = w.rec],
             IF IdVerified(w, unread) THEN pc' = "id_write_b" /\ op' = op ELSE pc' = "loop"
      PROVE  /\ nvm["identity_a"].st = "absent" /\ nvm["identity_b"].st = "absent"
             /\ DurableId = None
             /\ \A k \in Keys \ {"identity_a"} : nvm'[k] = nvm[k]
             /\ \/ nvm'["identity_a"] = nvm["identity_a"]
                \/ nvm'["identity_a"] = Record("valid", 1, op.id)
                \/ nvm'["identity_a"] = TornRecord
             /\ \/ pc' = "loop"
                \/ /\ pc' = "id_write_b" /\ op' = op
                   /\ nvm'["identity_a"] = Record("valid", 1, op.id)
  <2>1. /\ nvm["identity_a"].st = "absent" /\ nvm["identity_b"].st = "absent"
        /\ DurableId = None
    BY <1>2, IdEmptyFact
  <2>2. /\ w.rec = nvm["identity_a"] \/ w.rec = Record("valid", 1, op.id) \/ w.rec = TornRecord
        /\ IdVerified(w, unread) => w.rec = Record("valid", 1, op.id)
    BY <2>1, IdWritesFact
  <2>3. nvm'["identity_a"] = w.rec /\ \A k \in Keys \ {"identity_a"} : nvm'[k] = nvm[k]
    BY <1>2 DEF TypeOK, Keys
  <2> QED BY <1>2, <2>1, <2>2, <2>3
<1> QED BY <1>1, <1>2

\* The second write of provision(): slot B, and the identity in use after it.
LEMMA IdWriteBStep ==
  ASSUME TypeOK, FlowInv, IdWriteB
  PROVE  /\ op.id \in NodeIds
         /\ nvm["identity_a"] = Record("valid", 1, op.id) /\ nvm["identity_b"].st = "absent"
         /\ \A k \in Keys \ {"identity_b"} : nvm'[k] = nvm[k]
         /\ \/ nvm'["identity_b"] = nvm["identity_b"]
            \/ nvm'["identity_b"] = Record("valid", 2, op.id)
            \/ nvm'["identity_b"] = TornRecord
         /\ pc' = "loop"
<1>1. PICK w \in IdWrites("identity_b", 2) : nvm' = [nvm EXCEPT !["identity_b"] = w.rec]
  BY DEF IdWriteB
<1>2. /\ op.id \in NodeIds
      /\ nvm["identity_a"] = Record("valid", 1, op.id) /\ nvm["identity_b"].st = "absent"
  BY DEF IdWriteB, FlowInv
<1>3. w.rec = nvm["identity_b"] \/ w.rec = Record("valid", 2, op.id) \/ w.rec = TornRecord
  BY <1>2, IdWritesFact
<1>4. nvm'["identity_b"] = w.rec /\ \A k \in Keys \ {"identity_b"} : nvm'[k] = nvm[k]
  BY <1>1 DEF TypeOK, Keys
<1> QED BY <1>2, <1>3, <1>4 DEF IdWriteB, EndOp

\* write() puts a record of an odd generation into slot a and one of an even
\* generation into slot b, and touches nothing else.
LEMMA ConfigWriteStep ==
  ASSUME TypeOK, SlotInv, FlowInv, ConfigWrite
  PROVE  \/ nvm' = nvm
         \/ \E key \in ConfigKeys, gen \in Gens :
              /\ key = "configuration_a" <=> gen % 2 = 1
              /\ \A k \in Keys \ {key} : nvm'[k] = nvm[k]
              /\ \/ nvm'[key] = nvm[key]
                 \/ nvm'[key] = Record("valid", gen, op.cfg)
                 \/ nvm'[key] = TornRecord
<1>1. PICK rf \in ReadFaults(ConfigKeys) :
        nvm' = nvm \/ ConfigWriteTo(ConfigTarget(WriteGeneration(rf)), WriteGeneration(rf))
  BY DEF ConfigWrite
<1>2. WriteGeneration(rf) \in Gens
  BY ConfigLoadFact, GenerationFact DEF WriteGeneration
<1>3. ASSUME NEW key \in ConfigKeys, NEW gen \in Gens, ConfigWriteTo(key, gen)
      PROVE  /\ \A k \in Keys \ {key} : nvm'[k] = nvm[k]
             /\ \/ nvm'[key] = nvm[key]
                \/ nvm'[key] = Record("valid", gen, op.cfg)
                \/ nvm'[key] = TornRecord
  <2>1. PICK w \in WriteResults(nvm[key], Record("valid", gen, op.cfg), TornRecord) :
          nvm' = [nvm EXCEPT ![key] = w.rec]
    BY <1>3 DEF ConfigWriteTo
  <2>2. w.rec = nvm[key] \/ w.rec = Record("valid", gen, op.cfg) \/ w.rec = TornRecord
    BY WriteResultsFact
  <2> QED BY <2>1, <2>2 DEF TypeOK, Keys, ConfigKeys
<1>4. /\ ConfigTarget(WriteGeneration(rf)) \in ConfigKeys
      /\ ConfigTarget(WriteGeneration(rf)) = "configuration_a" <=> WriteGeneration(rf) % 2 = 1
  BY DEF ConfigTarget, ConfigKeys
<1> QED BY <1>1, <1>2, <1>3, <1>4

\* The relation between the records is preserved by every step.
LEMMA SlotStep ==
  ASSUME TypeOK, SlotInv, FlowInv, [Next]_vars
  PROVE  SlotInv'
<1>1. IdentityKeys \cup ConfigKeys \subseteq Keys
  BY DEF IdentityKeys, ConfigKeys, Keys
<1>2. CASE ~StoreStep
  BY <1>2, OtherSteps DEF SlotInv
<1>3. CASE RecoverRemove \/ ResetRemove
  <2>1. \A k \in IdentityKeys \cup ConfigKeys : nvm'[k] = nvm[k] \/ nvm'[k] = AbsentRecord
    BY <1>1, <1>3, RemoveStep
  <2>2. AbsentRecord.st # "valid"
    BY DEF AbsentRecord, Record
  <2> QED BY <2>1, <2>2 DEF SlotInv, IdentityKeys, ConfigKeys
<1>4. CASE ConfigWrite
  <2>1. op.cfg \in Configs
    BY <1>4 DEF ConfigWrite, FlowInv
  <2>2. CASE nvm' = nvm
    BY <2>2 DEF SlotInv
  <2>3. ASSUME NEW key \in ConfigKeys, NEW gen \in Gens,
               key = "configuration_a" <=> gen % 2 = 1,
               \A k \in Keys \ {key} : nvm'[k] = nvm[k],
               \/ nvm'[key] = nvm[key]
               \/ nvm'[key] = Record("valid", gen, op.cfg)
               \/ nvm'[key] = TornRecord
        PROVE  SlotInv'
    <3>1. gen % 2 = 1 \/ gen % 2 = 0
      BY GenerationFact
    <3>2. TornRecord.st # "valid"
      BY DEF TornRecord, Record
    <3>3. \A k \in IdentityKeys : nvm'[k] = nvm[k]
      BY <2>3 DEF IdentityKeys, ConfigKeys, Keys
    <3>4. CASE key = "configuration_a"
      <4>1. nvm'["configuration_b"] = nvm["configuration_b"]
        BY <2>3, <3>4 DEF Keys
      <4> QED BY <2>1, <2>3, <3>1, <3>2, <3>3, <3>4, <4>1 DEF SlotInv, IdentityKeys, Record
    <3>5. CASE key = "configuration_b"
      <4>1. nvm'["configuration_a"] = nvm["configuration_a"]
        BY <2>3, <3>5 DEF Keys
      <4> QED BY <2>1, <2>3, <3>1, <3>2, <3>3, <3>5, <4>1 DEF SlotInv, IdentityKeys, Record
    <3> QED BY <3>4, <3>5 DEF ConfigKeys
  <2> QED BY <1>4, <2>2, <2>3, ConfigWriteStep
<1>5. CASE IdWriteA
  <2>1. op.id \in NodeIds
    BY <1>5 DEF IdWriteA, FlowInv
  <2> QED BY <1>1, <1>5, <2>1, IdWriteAStep
          DEF SlotInv, IdentityKeys, ConfigKeys, Record, TornRecord
<1>6. CASE IdWriteB
  BY <1>1, <1>6, IdWriteBStep DEF SlotInv, IdentityKeys, ConfigKeys, Record, TornRecord
<1> QED BY <1>2, <1>3, <1>4, <1>5, <1>6 DEF StoreStep

-----------------------------------------------------------------------------
(* Every step preserves what is known at the program points                *)

\* What the running operation relies on, step by step.
LEMMA FlowStep ==
  ASSUME TypeOK, SlotInv, FlowInv, [Next]_vars
  PROVE  FlowInv'
<1> USE DEF vars, nvmVars, ramVars, flowVars
<1>1. ASSUME pc' = "loop" PROVE FlowInv'
  BY <1>1 DEF FlowInv
<1>2. ASSUME pc' = "boot_load", bootstrapOnly' = bootstrapOnly, bootstrapOnly PROVE FlowInv'
  BY <1>2 DEF FlowInv
<1>3. CASE Boot
  <2>1. bootstrapOnly /\ bootstrapOnly' = bootstrapOnly
    BY <1>3 DEF Boot, FlowInv
  <2>2. \/ pc' = "boot_load"
        \/ pc' = "recover_remove" /\ marker # "absent" /\ marker' = marker
    BY <1>3 DEF Boot, RecoverFailed, RecoverPending
  <2> QED BY <1>2, <2>1, <2>2 DEF FlowInv
<1>4. CASE RecoverRemove
  <2>1. bootstrapOnly /\ bootstrapOnly' = bootstrapOnly /\ marker # "absent" /\ marker' = marker
    BY <1>4 DEF RecoverRemove, FlowInv
  <2>2. pc' \in {"boot_load", "recover_remove", "recover_verify"}
    BY <1>4 DEF RecoverRemove, RecoverFailed
  <2> QED BY <1>2, <2>1, <2>2 DEF FlowInv
<1>5. CASE RecoverVerify
  <2>1. bootstrapOnly /\ bootstrapOnly' = bootstrapOnly /\ pc' = "boot_load"
    BY <1>5 DEF RecoverVerify, RecoverFailed, RecoverPending, FlowInv
  <2> QED BY <1>2, <2>1
<1>6. CASE BootLoad
  BY <1>1, <1>6 DEF BootLoad
<1>7. CASE ConfigWrite
  <2>1. ConfigWritten \/ ConfigNotWritten
    BY <1>7 DEF ConfigWrite, ConfigWriteTo
  <2>2. pc' = "loop" \/ (pc' = "id_write_a" /\ op' = op /\ op.cmd = "prov")
    BY <2>1 DEF ConfigWritten, ConfigNotWritten, EndOp
  <2> QED BY <1>1, <1>7, <2>2 DEF ConfigWrite, FlowInv
<1>8. CASE IdWriteA
  <2>1. CASE pc' = "loop"
    BY <1>1, <2>1
  <2>2. CASE pc' # "loop"
    <3>1. /\ pc' = "id_write_b" /\ op' = op
          /\ nvm'["identity_a"] = Record("valid", 1, op.id)
          /\ nvm["identity_b"].st = "absent"
          /\ nvm'["identity_b"] = nvm["identity_b"]
      BY <1>8, <2>2, IdWriteAStep DEF Keys
    <3>2. op.id \in NodeIds /\ (op.cmd = "prov" => op.cfg \in Configs)
      BY <1>8 DEF IdWriteA, FlowInv
    <3> QED BY <3>1, <3>2 DEF FlowInv, Record
  <2> QED BY <2>1, <2>2
<1>9. CASE IdWriteB
  BY <1>1, <1>9, IdWriteBStep
<1>10. CASE MarkerWrite
  <2>1. \/ pc' = "loop"
        \/ pc' = "reset_remove" /\ marker' = "marker_written" /\ markerActive'
    BY <1>10, MarkerWritesFact DEF MarkerWrite
  <2> QED BY <1>1, <2>1 DEF FlowInv
<1>11. CASE ResetRemove
  <2>1. marker # "absent" /\ marker' = marker /\ markerActive /\ markerActive' = markerActive
    BY <1>11 DEF ResetRemove, FlowInv
  <2>2. pc' \in {"loop", "reset_remove", "cleared_write"}
    BY <1>11 DEF ResetRemove
  <2> QED BY <1>1, <2>1, <2>2 DEF FlowInv
<1>12. CASE ClearedWrite
  <2>1. markerActive /\ markerActive' = markerActive
    BY <1>12 DEF ClearedWrite, FlowInv
  <2>2. pc' \in {"loop", "reboot"}
    BY <1>12 DEF ClearedWrite
  <2> QED BY <1>1, <2>1, <2>2 DEF FlowInv
<1>13. CASE Reboot \/ PowerLoss
  <2>1. pc' = "boot" /\ bootstrapOnly'
    BY <1>13 DEF Reboot, PowerLoss, RamCleared
  <2> QED BY <2>1 DEF FlowInv
<1>14. CASE LoopTail \/ ChallengeClock
  BY <1>1, <1>14 DEF LoopTail, ChallengeClock
<1>15. CASE Quiesce \/ UNCHANGED vars
  BY <1>15 DEF Quiesce, FlowInv
<1>16. CASE Command
  <2>1. ASSUME NEW id \in NodeIds, NEW cfg \in Configs, ProvBegin(id, cfg)
        PROVE  FlowInv'
    BY <2>1 DEF ProvBegin, Begin, FlowInv
  <2>2. ASSUME NEW id \in NodeIds, ProvAlreadyCommitted(id) \/ UsbProvisionIdentity(id)
        PROVE  FlowInv'
    BY <1>1, <2>2 DEF ProvAlreadyCommitted, UsbProvisionIdentity, Begin, FlowInv
  <2>3. ASSUME NEW cfg \in Configs,
               CfgSetBegin(cfg) \/ CfgBegin(cfg) \/ UsbRestoreConfiguration(cfg)
        PROVE  FlowInv'
    <3>1. pc' = "config_write" /\ op'.cfg \in Configs /\ op'.cmd # "prov"
      BY <2>3 DEF CfgSetBegin, CfgBegin, UsbRestoreConfiguration, Begin
    <3> QED BY <3>1 DEF FlowInv
  <2>4. ASSUME NEW cfg \in Configs, RuntimeOnly(cfg)
        PROVE  FlowInv'
    BY <1>1, <2>4 DEF RuntimeOnly
  <2>5. ASSUME NEW accepted \in BOOLEAN, UsbPrepare(accepted)
        PROVE  FlowInv'
    BY <1>1, <2>5 DEF UsbPrepare
  <2>6. CASE UsbCancel \/ UsbConfirm
    BY <1>1, <2>6 DEF UsbCancel, UsbConfirm, FlowInv
  <2> QED BY <1>16, <2>1, <2>2, <2>3, <2>4, <2>5, <2>6 DEF Command
<1> QED BY <1>3, <1>4, <1>5, <1>6, <1>7, <1>8, <1>9, <1>10, <1>11, <1>12, <1>13, <1>14,
           <1>15, <1>16 DEF Next, NodeStep

-----------------------------------------------------------------------------
(* The identity in the store                                               *)

\* DurableId depends on the two identity records only.
LEMMA SameIdentity ==
  ASSUME nvm'["identity_a"] = nvm["identity_a"], nvm'["identity_b"] = nvm["identity_b"]
  PROVE  DurableId' = DurableId
<1>1. /\ Seen("identity_a", {}) = nvm["identity_a"] /\ Seen("identity_b", {}) = nvm["identity_b"]
      /\ Seen("identity_a", {})' = nvm'["identity_a"]
      /\ Seen("identity_b", {})' = nvm'["identity_b"]
  BY DEF Seen
<1>2. IdentityStatus({})' = IdentityStatus({}) /\ IdentityRecord({})' = IdentityRecord({})
  BY <1>1 DEF IdentityStatus, IdentityRecord
<1> QED BY <1>2 DEF DurableId

\* Two records that agree on the identity load as that identity, and so does
\* one alone.
LEMMA AgreeingRecords ==
  ASSUME NEW a, NEW b, NEW id, a = Record("valid", 1, id),
         b.st = "valid" => b.gen = 2 /\ b.val = id
  PROVE  Loaded(LoadStatus(a, b)) /\ LoadRecord(a, b).val = id
<1>1. a.st = "valid" /\ a.gen = 1 /\ a.val = id
  BY DEF Record
<1>2. Loaded(LoadStatus(a, b))
  BY <1>1 DEF LoadStatus, Loaded
<1>3. LoadRecord(a, b) = a \/ (LoadRecord(a, b) = b /\ b.st = "valid")
  BY <1>2, LoadFact
<1> QED BY <1>1, <1>2, <1>3

\* No step but a deletion changes the identity of a provisioned node.
LEMMA IdentityKept ==
  ASSUME TypeOK, SlotInv, FlowInv, [Next]_vars, DurableId # None,
         ~(RecoverRemove \/ ResetRemove)
  PROVE  DurableId' = DurableId
<1>1. CASE ~StoreStep
  BY <1>1, OtherSteps, SameIdentity
<1>2. CASE ConfigWrite
  <2>1. \A k \in IdentityKeys : nvm'[k] = nvm[k]
    BY <1>2, ConfigWriteStep DEF IdentityKeys, ConfigKeys, Keys
  <2> QED BY <2>1, SameIdentity DEF IdentityKeys
<1>3. CASE IdWriteA
  BY <1>3, IdWriteAStep, SameIdentity
<1>4. CASE IdWriteB
  <2>1. op.id \in NodeIds /\ nvm["identity_a"] = Record("valid", 1, op.id)
    BY <1>4, IdWriteBStep
  <2>2. nvm'["identity_a"] = nvm["identity_a"]
    BY <1>4, IdWriteBStep DEF Keys
  <2>3. /\ nvm["identity_b"].st # "valid"
        /\ nvm'["identity_b"].st = "valid" =>
             nvm'["identity_b"].gen = 2 /\ nvm'["identity_b"].val = op.id
    BY <1>4, IdWriteBStep DEF Record, TornRecord
  <2>4. DurableId = op.id
    BY <2>1, <2>3, AgreeingRecords DEF DurableId, IdentityStatus, IdentityRecord, Seen
  <2>5. DurableId' = op.id
    BY <2>1, <2>2, <2>3, AgreeingRecords DEF DurableId, IdentityStatus, IdentityRecord, Seen
  <2> QED BY <2>4, <2>5
<1> QED BY <1>1, <1>2, <1>3, <1>4 DEF StoreStep

\* The active identity stays the identity in the store.
LEMMA ActiveStep ==
  ASSUME IInv, [Next]_vars
  PROVE  ActiveInv'
<1> USE DEF vars, nvmVars, ramVars, flowVars
<1>0. TypeOK /\ SlotInv /\ FlowInv /\ ActiveInv
  BY DEF IInv
<1>1. ASSUME bootstrapOnly' PROVE ActiveInv'
  BY <1>1 DEF ActiveInv
<1>2. ASSUME bootstrapOnly' = bootstrapOnly, activeId' = activeId,
             (markerActive' = markerActive) \/ markerActive',
             ~(RecoverRemove \/ ResetRemove)
      PROVE  ActiveInv'
  <2>1. CASE bootstrapOnly
    BY <1>1, <1>2, <2>1
  <2>2. CASE ~bootstrapOnly /\ markerActive'
    BY <1>0, <1>2, <2>2 DEF ActiveInv
  <2>3. CASE ~bootstrapOnly /\ ~markerActive'
    <3>1. activeId # None /\ DurableId = activeId
      BY <1>0, <1>2, <2>3 DEF ActiveInv
    <3>2. DurableId' = DurableId
      BY <1>0, <1>2, <3>1, IdentityKept
    <3> QED BY <1>2, <3>1, <3>2 DEF ActiveInv
  <2> QED BY <2>1, <2>2, <2>3
<1>3. CASE Boot \/ RecoverRemove \/ RecoverVerify
  <2>1. bootstrapOnly' = bootstrapOnly /\ bootstrapOnly
    BY <1>0, <1>3 DEF Boot, RecoverRemove, RecoverVerify, FlowInv
  <2> QED BY <1>1, <2>1
<1>4. CASE BootLoad
  <2>1. CASE bootstrapOnly'
    BY <1>1, <2>1
  <2>2. CASE ~bootstrapOnly'
    <3>1. PICK rf \in ReadFaults(IdentityKeys \cup ConfigKeys) :
            /\ Loaded(IdentityStatus(rf))
            /\ activeId' = IdentityRecord(rf).val
      BY <1>4, <2>2 DEF BootLoad
    <3>2. activeId' = DurableId /\ DurableId \in NodeIds
      BY <1>0, <3>1, IdLoadFact
    <3>3. DurableId' = DurableId
      BY <1>4, SameIdentity DEF BootLoad
    <3> QED BY <3>2, <3>3, NoneAssumption DEF ActiveInv
  <2> QED BY <2>1, <2>2
<1>5. CASE IdWriteB
  <2>1. \/ UNCHANGED <<activeId, bootstrapOnly>>
        \/ activeId' = op.id
    BY <1>5 DEF IdWriteB
  <2>2. CASE UNCHANGED <<activeId, bootstrapOnly>>
    <3>1. ~(RecoverRemove \/ ResetRemove) /\ markerActive' = markerActive
      BY <1>5 DEF IdWriteB, RecoverRemove, ResetRemove
    <3> QED BY <1>2, <2>2, <3>1
  <2>3. CASE activeId' = op.id
    <3>1. op.id \in NodeIds /\ nvm["identity_a"] = Record("valid", 1, op.id)
      BY <1>0, <1>5, IdWriteBStep
    <3>2. nvm["identity_b"].st # "valid"
      BY <1>0, <1>5, IdWriteBStep
    <3>3. DurableId = op.id
      BY <3>1, <3>2, AgreeingRecords DEF DurableId, IdentityStatus, IdentityRecord, Seen
    <3>4. ~(RecoverRemove \/ ResetRemove)
      BY <1>5 DEF IdWriteB, RecoverRemove, ResetRemove
    <3>5. DurableId' = op.id
      BY <1>0, <3>1, <3>3, <3>4, NoneAssumption, IdentityKept
    <3> QED BY <2>3, <3>1, <3>5, NoneAssumption DEF ActiveInv
  <2> QED BY <2>1, <2>2, <2>3
<1>6. CASE ConfigWrite \/ IdWriteA
  <2>1. UNCHANGED <<activeId, bootstrapOnly, markerActive>>
    BY <1>6 DEF ConfigWrite, IdWriteA
  <2>2. ~(RecoverRemove \/ ResetRemove)
    BY <1>6 DEF ConfigWrite, IdWriteA, RecoverRemove, ResetRemove
  <2> QED BY <1>2, <2>1, <2>2
<1>7. CASE MarkerWrite
  <2>1. UNCHANGED <<activeId, bootstrapOnly>> /\ (markerActive' \/ markerActive' = markerActive)
    BY <1>7 DEF MarkerWrite
  <2>2. ~(RecoverRemove \/ ResetRemove)
    BY <1>7 DEF MarkerWrite, RecoverRemove, ResetRemove
  <2> QED BY <1>2, <2>1, <2>2
<1>8. CASE ResetRemove
  <2>1. UNCHANGED <<activeId, bootstrapOnly, markerActive>> /\ markerActive
    BY <1>0, <1>8 DEF ResetRemove, FlowInv
  <2> QED BY <1>0, <2>1 DEF ActiveInv
<1>9. CASE ClearedWrite
  <2>1. UNCHANGED <<activeId, bootstrapOnly, markerActive>> /\ ~(RecoverRemove \/ ResetRemove)
    BY <1>9 DEF ClearedWrite, RecoverRemove, ResetRemove
  <2> QED BY <1>2, <2>1
<1>10. CASE Reboot \/ PowerLoss \/ LoopTail
  <2>1. bootstrapOnly'
    BY <1>10 DEF Reboot, PowerLoss, LoopTail, RamCleared
  <2> QED BY <1>1, <2>1
<1>11. CASE Quiesce \/ ChallengeClock \/ UNCHANGED vars
  <2>1. UNCHANGED <<activeId, bootstrapOnly, markerActive, nvm>>
    BY <1>11 DEF Quiesce, ChallengeClock
  <2> QED BY <1>0, <2>1, SameIdentity DEF ActiveInv
<1>12. CASE Command
  <2>1. ASSUME UNCHANGED <<activeId, bootstrapOnly, markerActive, nvm>> PROVE ActiveInv'
    BY <1>0, <2>1, SameIdentity DEF ActiveInv
  <2>2. ASSUME NEW id \in NodeIds, ProvAlreadyCommitted(id)
        PROVE  ActiveInv'
    <3>1. PICK rf \in ReadFaults(IdentityKeys) :
            Loaded(IdentityStatus(rf)) /\ IdentityRecord(rf).val = id
      BY <2>2 DEF ProvAlreadyCommitted
    <3>2. DurableId = id
      BY <1>0, <3>1, IdLoadFact
    <3>3. DurableId' = DurableId /\ activeId' = id
      BY <2>2, SameIdentity DEF ProvAlreadyCommitted
    <3> QED BY <3>2, <3>3, NoneAssumption DEF ActiveInv
  <2>3. ASSUME NEW id \in NodeIds, NEW cfg \in Configs, ProvBegin(id, cfg)
        PROVE  ActiveInv'
    BY <2>1, <2>3 DEF ProvBegin
  <2>4. ASSUME NEW id \in NodeIds, UsbProvisionIdentity(id)
        PROVE  ActiveInv'
    BY <2>1, <2>4 DEF UsbProvisionIdentity
  <2>5. ASSUME NEW cfg \in Configs,
               CfgSetBegin(cfg) \/ CfgBegin(cfg) \/ RuntimeOnly(cfg) \/ UsbRestoreConfiguration(cfg)
        PROVE  ActiveInv'
    BY <2>1, <2>5 DEF CfgSetBegin, CfgBegin, RuntimeOnly, UsbRestoreConfiguration
  <2>6. ASSUME NEW accepted \in BOOLEAN, UsbPrepare(accepted)
        PROVE  ActiveInv'
    BY <2>1, <2>6 DEF UsbPrepare
  <2>7. CASE UsbCancel \/ UsbConfirm
    BY <2>1, <2>7 DEF UsbCancel, UsbConfirm
  <2> QED BY <1>12, <2>2, <2>3, <2>4, <2>5, <2>6, <2>7 DEF Command
<1> QED BY <1>3, <1>4, <1>5, <1>6, <1>7, <1>8, <1>9, <1>10, <1>11, <1>12 DEF Next, NodeStep

-----------------------------------------------------------------------------
(* The theorems                                                            *)

\* The inductive invariant holds of a blank node.
LEMMA InitInv ==
  ASSUME Init
  PROVE  IInv
<1>1. \A k \in Keys : nvm[k] = AbsentRecord
  BY DEF Init
<1>2. AbsentRecord.st # "valid"
  BY DEF AbsentRecord, Record
<1>3. SlotInv
  BY <1>1, <1>2 DEF SlotInv, Keys
<1>4. FlowInv /\ ActiveInv
  BY DEF Init, FlowInv, ActiveInv
<1>5. nvm \in [Keys -> Records]
  BY RecordFact DEF Init
<1>6. op \in [cmd : Commands, id : NodeIds \cup {None}, cfg : Configs \cup {None}]
  BY DEF Init, NoOp, Commands
<1>7. recovery \in [ok : BOOLEAN, pending : BOOLEAN]
  BY RecoveryFact, Zenon DEF Init
<1>8. failed \in BOOLEAN /\ busy \in BOOLEAN /\ markerActive \in BOOLEAN
      /\ bootstrapOnly \in BOOLEAN /\ quiet \in BOOLEAN /\ provCommitted \in BOOLEAN
  BY Zenon DEF Init
<1>9. TypeOK
  BY <1>5, <1>6, <1>7, <1>8, ConfigAssumption, FaultAssumption DEF Init, TypeOK, PcValues
<1> QED BY <1>3, <1>4, <1>9 DEF IInv

\* The inductive invariant holds in every reachable state.
THEOREM Invariance == Spec => []IInv
<1>1. Init => IInv
  BY InitInv
<1>2. IInv /\ [Next]_vars => IInv'
  BY TypeStep, SlotStep, FlowStep, ActiveStep DEF IInv
<1> QED BY <1>1, <1>2, PTL DEF Spec

\* Every variable of the firmware model has its type.
THEOREM TypeCorrectness == Spec => []TypeOK
<1>1. IInv => TypeOK
  BY DEF IInv
<1> QED BY <1>1, Invariance, PTL

\* Neither store ever holds two records of one generation, so load() never
\* refuses both of them: the parity of a configuration generation is fixed by
\* its slot, whatever the modulus the generations wrap at.
THEOREM ConflictFreedom == Spec => []NoGenerationConflict
<1>1. ASSUME TypeOK, SlotInv
      PROVE  NoGenerationConflict
  <2>1. \A k : Seen(k, {}) = nvm[k]
    BY DEF Seen
  <2> QED BY <1>1, <2>1 DEF NoGenerationConflict, IdentityStatus, ConfigStatus, LoadStatus,
                          SlotInv
<1> QED BY <1>1, Invariance, PTL DEF IInv

\* A node sends telemetry only under the identity that is in its store.
THEOREM IdentityOfTelemetry == Spec => []PublishesDurableIdentity
<1>1. IInv => PublishesDurableIdentity
  BY DEF IInv, ActiveInv, PublishesDurableIdentity, Publishing, Busy
<1> QED BY <1>1, Invariance, PTL

\* The marker goes in one step only, of a boot that read every key as absent.
LEMMA MarkerClears ==
  ASSUME [Next]_vars, marker # "absent", marker' = "absent"
  PROVE  /\ BootLoad /\ nvm' = nvm
         /\ \A k \in Keys : nvm[k].st = "absent"
<1>1. BootLoad
  <2> USE DEF vars, nvmVars
  <2>1. CASE NodeStep
    BY <2>1, MarkerWritesFact
       DEF NodeStep, Boot, RecoverRemove, RecoverVerify, ConfigWrite, IdWriteA, IdWriteB,
           MarkerWrite, ResetRemove, ClearedWrite, Reboot, LoopTail
  <2>2. CASE Command
    BY <2>2
       DEF Command, ProvBegin, ProvAlreadyCommitted, UsbProvisionIdentity, CfgSetBegin,
           CfgBegin, RuntimeOnly, UsbRestoreConfiguration, UsbPrepare, UsbCancel, UsbConfirm
  <2> QED BY <2>1, <2>2 DEF Next, ChallengeClock, PowerLoss, Quiesce
<1>2. nvm' = nvm
  BY <1>1 DEF BootLoad
<1>3. \E ready : CompleteRecovery(ready)
  BY <1>1 DEF BootLoad
<1>4. \E rf : KeysAbsent(rf)
  BY <1>3 DEF CompleteRecovery
<1> QED BY <1>1, <1>2, <1>4, KeysAbsentFact

\* The reset marker is cleared only when every resettable key is absent.
THEOREM MarkerDiscipline == Spec => MarkerOutlivesKeys
<1>1. [Next]_vars =>
        [marker # "absent" /\ marker' = "absent" => \A k \in Keys : nvm'[k].st = "absent"]_vars
  BY MarkerClears
<1> QED BY <1>1, PTL DEF Spec, MarkerOutlivesKeys

\* An identity that loads is not replaced or lost before a reset marker is in
\* the store.
THEOREM IdentityIsPermanent == Spec => IdentityWrittenOnce
<1>1. ASSUME IInv, [Next]_vars, DurableId # None, DurableId' # DurableId
      PROVE  marker # "absent"
  <2>1. RecoverRemove \/ ResetRemove
    BY <1>1, IdentityKept DEF IInv
  <2> QED BY <1>1, <2>1 DEF IInv, FlowInv, RecoverRemove, ResetRemove
<1>2. IInv /\ [Next]_vars =>
        [DurableId # None /\ DurableId' # DurableId => marker # "absent"]_vars
  BY <1>1
<1> QED BY <1>2, Invariance, PTL DEF Spec, IdentityWrittenOnce

\* The generation after g has the other parity, also where it wraps: this is
\* where the modulus has to be even.
LEMMA ParityFlips ==
  ASSUME NEW g \in Gens
  PROVE  NextGeneration(g) % 2 = 1 <=> g % 2 = 0
<1>1. g \in Nat /\ GenModulus \in Nat /\ GenModulus % 2 = 0 /\ GenModulus >= 4
  BY GenAssumption DEF Gens
<1>2. CASE g = GenModulus - 1
  BY <1>1, <1>2 DEF NextGeneration
<1>3. CASE g # GenModulus - 1
  BY <1>1, <1>3 DEF NextGeneration
<1> QED BY <1>2, <1>3

\* As long as both slots can be read, write() never touches the slot that
\* holds the record load() would return.
THEOREM ActiveSlotIsRetained == Spec => ActiveSlotRetained
<1>1. ASSUME IInv, [Next]_vars, pc = "config_write", "read" \notin faults,
             NEW key \in ConfigKeys, Loaded(ConfigStatus({})), nvm[key] = ConfigRecord({})
      PROVE  nvm'[key] = nvm[key]
  <2>0. TypeOK /\ SlotInv
    BY <1>1 DEF IInv
  <2>1. CASE ~StoreStep
    BY <1>1, <2>1, OtherSteps
  <2>2. CASE StoreStep
    <3> DEFINE gen == NextGeneration(ConfigRecord({}).gen)
               target == ConfigTarget(gen)
    <3>1. ConfigWrite
      BY <1>1, <2>2 DEF StoreStep, RecoverRemove, ResetRemove, IdWriteA, IdWriteB
    <3>2. \A objects : ReadFaults(objects) = {{}}
      BY <1>1 DEF ReadFaults, Faulty
    <3>3. WriteGeneration({}) = gen
      BY <1>1 DEF WriteGeneration
    <3>4. ConfigWriteTo(target, gen)
      BY <1>1, <3>1, <3>2, <3>3 DEF ConfigWrite
    <3>5. PICK rec : nvm' = [nvm EXCEPT ![target] = rec]
      BY <3>4 DEF ConfigWriteTo
    <3>6. target # key
      <4>1. ConfigRecord({}).gen \in Gens
        BY <1>1, <2>0, ConfigLoadFact
      <4>2. nvm[key].st = "valid"
        BY <1>1, LoadFact DEF ConfigStatus, ConfigRecord
      <4>3. IF key = "configuration_a" THEN nvm[key].gen % 2 = 1 ELSE nvm[key].gen % 2 = 0
        BY <1>1, <2>0, <4>2 DEF SlotInv, ConfigKeys
      <4>4. gen % 2 = 1 <=> nvm[key].gen % 2 = 0
        BY <1>1, <4>1, ParityFlips
      <4>5. CASE key = "configuration_a"
        <5>1. gen % 2 # 1
          BY <4>3, <4>4, <4>5
        <5> QED BY <4>5, <5>1 DEF ConfigTarget
      <4>6. CASE key = "configuration_b"
        <5>1. gen % 2 = 1
          BY <4>3, <4>4, <4>6
        <5> QED BY <4>6, <5>1 DEF ConfigTarget
      <4> QED BY <4>5, <4>6 DEF ConfigKeys
    <3> QED BY <2>0, <3>5, <3>6 DEF TypeOK, Keys, ConfigKeys
  <2> QED BY <2>1, <2>2
<1>2. IInv /\ [Next]_vars =>
        [pc = "config_write" /\ "read" \notin faults =>
           \A k \in ConfigKeys :
             Loaded(ConfigStatus({})) /\ nvm[k] = ConfigRecord({}) => nvm'[k] = nvm[k]]_vars
  BY <1>1
<1> QED BY <1>2, Invariance, PTL DEF Spec, ActiveSlotRetained

-----------------------------------------------------------------------------
(* What a configuration write leaves for the next load                     *)

\* A generation is older than the one after it, also where they wrap.
LEMMA NextIsNewer ==
  ASSUME NEW g \in Gens
  PROVE  /\ GenerationNewer(NextGeneration(g), g)
         /\ ~GenerationNewer(g, NextGeneration(g))
         /\ NextGeneration(g) # g
  BY GenAssumption DEF Gens, NextGeneration, GenerationNewer, GenerationDistance

\* What a load without faults returns.
LEMMA DurableFact ==
  /\ ConfigStatus({}) = LoadStatus(nvm["configuration_a"], nvm["configuration_b"])
  /\ ConfigRecord({}) = LoadRecord(nvm["configuration_a"], nvm["configuration_b"])
  /\ ConfigStatus({})' = LoadStatus(nvm'["configuration_a"], nvm'["configuration_b"])
  /\ ConfigRecord({})' = LoadRecord(nvm'["configuration_a"], nvm'["configuration_b"])
  BY DEF ConfigStatus, ConfigRecord, Seen

\* Slots whose generations differ in parity load as soon as one is valid.
LEMMA ConfigLoads ==
  ASSUME SlotInv
  PROVE  /\ Loaded(ConfigStatus({})) <=>
              nvm["configuration_a"].st = "valid" \/ nvm["configuration_b"].st = "valid"
         /\ Loaded(ConfigStatus({})) => DurableConfig \in Configs
<1>1. Loaded(ConfigStatus({})) <=>
        nvm["configuration_a"].st = "valid" \/ nvm["configuration_b"].st = "valid"
  BY DurableFact DEF LoadStatus, Loaded, SlotInv
<1>2. Loaded(ConfigStatus({})) => DurableConfig \in Configs
  BY DurableFact, LoadFact DEF DurableConfig, SlotInv
<1> QED BY <1>1, <1>2

\* DurableConfig depends on the two configuration records only.
LEMMA SameConfig ==
  ASSUME nvm'["configuration_a"] = nvm["configuration_a"],
         nvm'["configuration_b"] = nvm["configuration_b"]
  PROVE  DurableConfig' = DurableConfig /\ Loaded(ConfigStatus({}))' = Loaded(ConfigStatus({}))
<1>1. ConfigStatus({})' = ConfigStatus({}) /\ ConfigRecord({})' = ConfigRecord({})
  BY DurableFact
<1> QED BY <1>1 DEF DurableConfig, Loaded

\* A record that follows the one in the other slot is what load() returns.
LEMMA SuccessorLoads ==
  ASSUME NEW a, NEW b, NEW g \in Gens,
         \/ /\ a.st = "valid" /\ a.gen = NextGeneration(g)
            /\ b.st = "valid" => b.gen = g
         \/ /\ b.st = "valid" /\ b.gen = NextGeneration(g)
            /\ a.st = "valid" => a.gen = g
  PROVE  /\ Loaded(LoadStatus(a, b))
         /\ \/ LoadRecord(a, b) = a /\ a.st = "valid" /\ a.gen = NextGeneration(g)
            \/ LoadRecord(a, b) = b /\ b.st = "valid" /\ b.gen = NextGeneration(g)
<1>1. /\ GenerationNewer(NextGeneration(g), g) /\ ~GenerationNewer(g, NextGeneration(g))
      /\ NextGeneration(g) # g
  BY NextIsNewer
<1>2. Loaded(LoadStatus(a, b))
  BY <1>1 DEF LoadStatus, Loaded
<1> QED BY <1>1, <1>2 DEF LoadRecord

\* The outcomes of write(): nothing is written; the new record is, and the next
\* load returns it; or a torn one, beside the record that write() had read.
LEMMA ConfigOutcome ==
  ASSUME TypeOK, SlotInv, FlowInv, ConfigWrite
  PROVE  \/ nvm' = nvm /\ ConfigNotWritten
         \/ /\ ConfigWritten \/ ConfigNotWritten
            /\ Loaded(ConfigStatus({}))' /\ DurableConfig' = op.cfg
         \/ /\ "torn" \in faults /\ ConfigNotWritten
            /\ Loaded(ConfigStatus({})) => Loaded(ConfigStatus({}))'
            /\ "read" \notin faults /\ Loaded(ConfigStatus({})) => DurableConfig' = DurableConfig
<1>0. op.cfg \in Configs
  BY DEF ConfigWrite, FlowInv
<1>1. PICK rf \in ReadFaults(ConfigKeys) :
        \/ nvm' = nvm /\ ConfigNotWritten
        \/ /\ Loaded(ConfigStatus(rf)) \/ ConfigStatus(rf) = "not_found"
           /\ ConfigWriteTo(ConfigTarget(WriteGeneration(rf)), WriteGeneration(rf))
  BY DEF ConfigWrite
<1> DEFINE gen == WriteGeneration(rf)
           key == ConfigTarget(gen)
           other == IF key = "configuration_a" THEN "configuration_b" ELSE "configuration_a"
<1>2. "read" \notin faults => rf = {}
  BY DEF ReadFaults, Faulty
<1> SUFFICES ASSUME ConfigWriteTo(key, gen), Loaded(ConfigStatus(rf)) \/ ConfigStatus(rf) = "not_found"
             PROVE  \/ nvm' = nvm /\ ConfigNotWritten
                    \/ /\ ConfigWritten \/ ConfigNotWritten
                       /\ Loaded(ConfigStatus({}))' /\ DurableConfig' = op.cfg
                    \/ /\ "torn" \in faults /\ ConfigNotWritten
                       /\ Loaded(ConfigStatus({})) => Loaded(ConfigStatus({}))'
                       /\ "read" \notin faults /\ Loaded(ConfigStatus({})) =>
                            DurableConfig' = DurableConfig
  BY <1>1
\* The slot that is not written holds the record write() read, if there was one.
<1>3. \E g \in Gens :
        /\ gen = NextGeneration(g)
        /\ nvm[other].st = "valid" => nvm[other].gen = g
        /\ IF Loaded(ConfigStatus(rf)) THEN nvm[other] = ConfigRecord(rf) /\ nvm[other].st = "valid"
           ELSE nvm["configuration_a"].st = "absent" /\ nvm["configuration_b"].st = "absent"
  <2>1. CASE Loaded(ConfigStatus(rf))
    <3> DEFINE g == ConfigRecord(rf).gen
    <3>1. g \in Gens /\ gen = NextGeneration(g)
      BY <2>1, ConfigLoadFact DEF WriteGeneration
    <3>2. PICK k \in ConfigKeys : ConfigRecord(rf) = nvm[k] /\ nvm[k].st = "valid"
      BY <2>1, LoadFact, SeenFact DEF ConfigStatus, ConfigRecord, ConfigKeys
    <3>3. IF k = "configuration_a" THEN g % 2 = 1 ELSE g % 2 = 0
      BY <3>2 DEF SlotInv, ConfigKeys
    <3>4. gen % 2 = 1 <=> g % 2 = 0
      BY <3>1, ParityFlips
    <3>5. k = other
      <4> HIDE DEF gen, g
      <4>1. CASE k = "configuration_a"
        BY <3>3, <3>4, <4>1 DEF ConfigTarget
      <4>2. CASE k = "configuration_b"
        <5>1. gen % 2 = 1
          BY <3>3, <3>4, <4>2
        <5> QED BY <4>2, <5>1 DEF ConfigTarget
      <4> QED BY <4>1, <4>2 DEF ConfigKeys
    <3> QED BY <2>1, <3>1, <3>2, <3>5
  <2>2. CASE ~Loaded(ConfigStatus(rf))
    <3>1. ConfigStatus(rf) = "not_found"
      BY <2>2
    <3>2. nvm["configuration_a"].st = "absent" /\ nvm["configuration_b"].st = "absent"
      BY <3>1, SeenFact DEF ConfigStatus, LoadStatus
    <3>3. 0 \in Gens /\ gen = NextGeneration(0)
      BY <2>2, GenAssumption, GenerationFact DEF WriteGeneration, NextGeneration
    <3> QED BY <2>2, <3>2, <3>3
  <2> QED BY <2>1, <2>2
<1>4. PICK w \in WriteResults(nvm[key], Record("valid", gen, op.cfg), TornRecord) :
        /\ nvm' = [nvm EXCEPT ![key] = w.rec]
        /\ (w.ok /\ w.rec.st = "valid" /\ w.rec.gen = gen /\ ConfigWritten) \/ ConfigNotWritten
  BY DEF ConfigWriteTo
<1>5. /\ key \in ConfigKeys /\ other \in ConfigKeys /\ key # other
      /\ ConfigKeys = {key, other}
  BY DEF ConfigTarget, ConfigKeys
<1> HIDE DEF key, other, gen
<1>6. nvm'[key] = w.rec /\ nvm'[other] = nvm[other]
  BY <1>4, <1>5 DEF TypeOK, Keys, ConfigKeys
<1>7. CASE w.rec = Record("valid", gen, op.cfg)
  <2>1. PICK g \in Gens : gen = NextGeneration(g) /\ (nvm[other].st = "valid" => nvm[other].gen = g)
    BY <1>3
  <2>2. nvm'[key].st = "valid" /\ nvm'[key].gen = gen /\ nvm'[key].val = op.cfg
    BY <1>6, <1>7 DEF Record
  <2>3. /\ Loaded(ConfigStatus({}))'
        /\ ConfigRecord({})'.st = "valid" /\ ConfigRecord({})'.gen = gen
        /\ ConfigRecord({})' = nvm'[key] \/ ConfigRecord({})' = nvm'[other]
    <3>1. CASE key = "configuration_a" /\ other = "configuration_b"
      BY <1>6, <2>1, <2>2, <3>1, SuccessorLoads, DurableFact DEF Loaded
    <3>2. CASE key = "configuration_b" /\ other = "configuration_a"
      BY <1>6, <2>1, <2>2, <3>2, SuccessorLoads, DurableFact DEF Loaded
    <3> QED BY <1>5, <3>1, <3>2 DEF ConfigKeys
  <2>4. NextGeneration(g) # g
    BY NextIsNewer
  <2>5. DurableConfig' = op.cfg
    BY <1>6, <2>1, <2>2, <2>3, <2>4 DEF DurableConfig
  <2> QED BY <1>4, <2>3, <2>5
<1>8. CASE w.rec = nvm[key] /\ w.rec # Record("valid", gen, op.cfg)
  <2>1. w.ok = FALSE \/ w.rec = TornRecord
    <3>1. \/ w = [ok |-> TRUE, rec |-> Record("valid", gen, op.cfg)]
          \/ w = [ok |-> FALSE, rec |-> nvm[key]]
          \/ w = [ok |-> TRUE, rec |-> TornRecord] \/ w = [ok |-> FALSE, rec |-> TornRecord]
      BY Zenon DEF WriteResults
    <3> QED BY <1>8, <3>1, SMT
  <2>2. TornRecord.st # "valid"
    BY DEF TornRecord, Record
  <2>3. ConfigNotWritten
    BY <1>4, <2>1, <2>2
  <2>4. nvm' = nvm
    BY <1>4, <1>5, <1>8 DEF TypeOK, Keys, ConfigKeys
  <2> QED BY <2>3, <2>4
<1>9. CASE w.rec = TornRecord /\ w.rec # nvm[key]
  <2>1. TornRecord.st # "valid"
    BY DEF TornRecord, Record
  <2>2. ConfigNotWritten
    BY <1>4, <1>9, <2>1
  <2>3. "torn" \in faults
    <3>1. TornRecord # Record("valid", gen, op.cfg)
      BY DEF TornRecord, Record
    <3>2. ASSUME ~Faulty("torn")
          PROVE  w.rec = nvm[key] \/ w.rec = Record("valid", gen, op.cfg)
      <4>1. w = [ok |-> TRUE, rec |-> Record("valid", gen, op.cfg)] \/ w = [ok |-> FALSE, rec |-> nvm[key]]
        BY <3>2, Zenon DEF WriteResults
      <4> QED BY <4>1
    <3> QED BY <1>9, <3>1, <3>2 DEF Faulty
  <2>4. SlotInv'
    <3>1. \A k \in Keys : nvm'[k] = nvm[k] \/ nvm'[k] = TornRecord
      BY <1>4, <1>5, <1>9 DEF TypeOK
    <3>2. \A k \in IdentityKeys : nvm'[k] = nvm[k]
      BY <1>4, <1>5 DEF TypeOK, Keys, IdentityKeys, ConfigKeys
    <3> QED BY <2>1, <3>1, <3>2 DEF SlotInv, Keys, IdentityKeys
  <2>5. Loaded(ConfigStatus({})) => Loaded(ConfigStatus({}))'
    <3>1. ASSUME Loaded(ConfigStatus({})) PROVE nvm[other].st = "valid"
      BY <1>3, <3>1, ConfigLoads
    <3>2. nvm'[other].st = "valid" => Loaded(ConfigStatus({}))'
      BY <1>5, <2>4, DurableFact DEF LoadStatus, Loaded, SlotInv, ConfigKeys
    <3> QED BY <1>6, <3>1, <3>2
  <2>6. ASSUME "read" \notin faults, Loaded(ConfigStatus({})) PROVE DurableConfig' = DurableConfig
    <3>1. nvm[other] = ConfigRecord({}) /\ nvm[other].st = "valid" /\ Loaded(ConfigStatus({}))'
      BY <1>2, <1>3, <2>5, <2>6
    <3>2. ConfigRecord({})' = nvm'[other]
      BY <1>5, <1>6, <1>9, <2>1, <3>1, DurableFact DEF LoadRecord, ConfigKeys
    <3> QED BY <1>6, <2>6, <3>1, <3>2 DEF DurableConfig
  <2> QED BY <2>2, <2>3, <2>5, <2>6
<1> QED BY <1>7, <1>8, <1>9, WriteResultsFact

\* Outside of deletions and of write() no step touches a configuration.
LEMMA ConfigKept ==
  ASSUME TypeOK, SlotInv, FlowInv, [Next]_vars, marker = "absent", ~ConfigWrite
  PROVE  /\ DurableConfig' = DurableConfig
         /\ Loaded(ConfigStatus({}))' = Loaded(ConfigStatus({}))
<1>1. \A k \in ConfigKeys : nvm'[k] = nvm[k]
  <2>1. ~(RecoverRemove \/ ResetRemove)
    BY DEF FlowInv, RecoverRemove, ResetRemove
  <2>2. CASE IdWriteA
    BY <2>2, IdWriteAStep DEF ConfigKeys, Keys
  <2>3. CASE IdWriteB
    BY <2>3, IdWriteBStep DEF ConfigKeys, Keys
  <2>4. CASE ~StoreStep
    BY <2>4, OtherSteps
  <2> QED BY <2>1, <2>2, <2>3, <2>4 DEF StoreStep
<1> QED BY <1>1, SameConfig DEF ConfigKeys

\* The history variables change in write(), in provision() and when the marker
\* is cleared, and the faults of a behaviour do not change.
LEMMA HistoryKept ==
  ASSUME [Next]_vars
  PROVE  /\ faults' = faults
         /\ ~ConfigWrite /\ marker = "absent" => survivors' = survivors
         /\ ~IdWriteA /\ marker = "absent" => provCommitted' = provCommitted
         /\ marker # "absent" /\ marker' = "absent" => survivors' = {} /\ provCommitted' = FALSE
<1> USE DEF vars, nvmVars, ramVars, flowVars, envVars, ghostVars
<1>1. ASSUME marker # "absent", marker' = "absent"
      PROVE  survivors' = {} /\ provCommitted' = FALSE
  BY <1>1, MarkerClears DEF BootLoad, ForgetWhenCleared
<1>2. CASE NodeStep
  BY <1>1, <1>2
     DEF NodeStep, Boot, RecoverRemove, RecoverVerify, BootLoad, ForgetWhenCleared, ConfigWrite,
         IdWriteA, IdWriteB, MarkerWrite, ResetRemove, ClearedWrite, Reboot, LoopTail
<1>3. CASE Command
  BY <1>1, <1>3
     DEF Command, ProvBegin, ProvAlreadyCommitted, UsbProvisionIdentity, CfgSetBegin,
         CfgBegin, RuntimeOnly, UsbRestoreConfiguration, UsbPrepare, UsbCancel, UsbConfirm
<1> QED BY <1>1, <1>2, <1>3 DEF Next, ChallengeClock, PowerLoss, Quiesce

\* One write() keeps what its callers may rely on.
LEMMA AckedStep ==
  ASSUME IInv, AckedConfigSurvives, [Next]_vars
  PROVE  AckedConfigSurvives'
<1>0. TypeOK /\ SlotInv /\ FlowInv
  BY DEF IInv
<1> SUFFICES ASSUME ~({"read", "torn"} \subseteq faults'), marker' = "absent", survivors' # {}
             PROVE  DurableConfig' \in survivors'
  BY DEF AckedConfigSurvives
<1>1. marker = "absent" /\ faults' = faults
  BY HistoryKept
<1>2. CASE ~ConfigWrite
  BY <1>0, <1>1, <1>2, HistoryKept, ConfigKept DEF AckedConfigSurvives
<1>3. CASE ConfigWrite
  <2>1. CASE (ConfigWritten \/ ConfigNotWritten) /\ DurableConfig' = op.cfg
    BY <1>0, <1>3, <2>1, ConfigOutcome DEF ConfigWritten, ConfigNotWritten
  <2>2. CASE ConfigNotWritten
    <3>1. survivors # {} /\ survivors' = survivors \cup {op.cfg}
      BY <2>2 DEF ConfigNotWritten
    <3>2. DurableConfig \in survivors /\ DurableConfig \in Configs
      BY <1>0, <1>1, <3>1 DEF AckedConfigSurvives, TypeOK
    <3>3. Loaded(ConfigStatus({}))
      BY <3>2, NoneAssumption DEF DurableConfig
    <3>4. DurableConfig' = DurableConfig \/ DurableConfig' = op.cfg
      <4>1. CASE nvm' = nvm
        BY <4>1, SameConfig
      <4>2. CASE nvm' # nvm
        BY <1>0, <1>1, <1>3, <3>3, <4>2, ConfigOutcome
      <4> QED BY <4>1, <4>2
    <3> QED BY <3>1, <3>2, <3>4
  <2> QED BY <1>0, <1>3, <2>1, <2>2, ConfigOutcome
<1> QED BY <1>2, <1>3

\* A configuration acknowledged to a caller is what every later load returns,
\* until a later write() or a reset: through one kind of fault and any losses
\* of power.
THEOREM AckedConfigIsDurable == Spec => []AckedConfigSurvives
<1>1. Init => AckedConfigSurvives
  BY DEF Init, AckedConfigSurvives
<1>2. IInv /\ AckedConfigSurvives /\ [Next]_vars => AckedConfigSurvives'
  BY AckedStep
<1> QED BY <1>1, <1>2, Invariance, PTL DEF Spec

-----------------------------------------------------------------------------
(* What an identity commits                                                *)

\* PROV has its configuration in the store before it writes an identity, and
\* nothing takes the last configuration away while there is no marker.
ProvInv ==
  marker = "absent" /\ (provCommitted \/ (pc = "id_write_a" /\ op.cmd = "prov")) =>
    Loaded(ConfigStatus({}))

\* Where PROV comes to its first identity record.
LEMMA ReachIdWrite ==
  ASSUME [Next]_vars, pc' = "id_write_a", op'.cmd = "prov"
  PROVE  \/ pc = "id_write_a" /\ op.cmd = "prov" /\ ~ConfigWrite
         \/ ConfigWrite /\ ConfigWritten
<1> USE DEF vars, nvmVars, ramVars, flowVars, envVars, ghostVars
<1>1. CASE ConfigWrite
  BY <1>1 DEF ConfigWrite, ConfigWriteTo, ConfigNotWritten, EndOp
<1>2. CASE NodeStep /\ ~ConfigWrite
  BY <1>2
     DEF NodeStep, Boot, RecoverRemove, RecoverVerify, RecoverFailed, RecoverPending, BootLoad,
         IdWriteA, IdWriteB, MarkerWrite, ResetRemove, ClearedWrite, Reboot, RamCleared,
         LoopTail, EndOp
<1>3. CASE Command
  BY <1>3
     DEF Command, ProvBegin, ProvAlreadyCommitted, UsbProvisionIdentity, CfgSetBegin, Begin,
         CfgBegin, RuntimeOnly, UsbRestoreConfiguration, UsbPrepare, UsbCancel, UsbConfirm
<1>4. CASE ChallengeClock \/ PowerLoss \/ Quiesce \/ UNCHANGED vars
  BY <1>4 DEF ChallengeClock, PowerLoss, Quiesce, RamCleared, ConfigWrite
<1> QED BY <1>1, <1>2, <1>3, <1>4 DEF Next

\* A configuration in the store stays in the store while no marker is.
LEMMA ProvStep ==
  ASSUME IInv, ProvInv, [Next]_vars
  PROVE  ProvInv'
<1>0. TypeOK /\ SlotInv /\ FlowInv
  BY DEF IInv
<1> SUFFICES ASSUME marker' = "absent", provCommitted' \/ (pc' = "id_write_a" /\ op'.cmd = "prov")
             PROVE  Loaded(ConfigStatus({}))'
  BY DEF ProvInv
<1>1. ASSUME marker = "absent", Loaded(ConfigStatus({}))
      PROVE  Loaded(ConfigStatus({}))'
  <2>1. CASE nvm' = nvm
    BY <1>1, <2>1, SameConfig
  <2>2. CASE ~ConfigWrite
    BY <1>0, <1>1, <2>2, ConfigKept
  <2>3. CASE nvm' # nvm /\ ConfigWrite
    BY <1>0, <1>1, <2>3, ConfigOutcome
  <2> QED BY <2>1, <2>2, <2>3
<1>2. CASE marker # "absent"
  <2>1. provCommitted' = FALSE /\ BootLoad
    BY <1>2, HistoryKept, MarkerClears
  <2> QED BY <2>1 DEF BootLoad
<1>3. CASE marker = "absent" /\ pc' = "id_write_a" /\ op'.cmd = "prov"
  <2>1. CASE pc = "id_write_a" /\ op.cmd = "prov"
    BY <1>1, <1>3, <2>1 DEF ProvInv
  <2>2. CASE ConfigWrite /\ ConfigWritten
    <3>1. ~ConfigNotWritten
      BY <1>3, <2>2 DEF ConfigNotWritten, EndOp
    <3> QED BY <1>0, <2>2, <3>1, ConfigOutcome
  <2> QED BY <1>3, <2>1, <2>2, ReachIdWrite
<1>4. CASE marker = "absent" /\ provCommitted'
  <2>1. CASE IdWriteA
    <3>1. provCommitted \/ op.cmd = "prov"
      BY <1>4, <2>1 DEF IdWriteA
    <3> QED BY <1>1, <1>4, <2>1, <3>1 DEF IdWriteA, ProvInv
  <2>2. CASE ~IdWriteA
    BY <1>1, <1>4, <2>2, HistoryKept DEF ProvInv
  <2> QED BY <2>1, <2>2
<1> QED BY <1>2, <1>3, <1>4

\* An identity written by PROV stands for a configuration that loads, whatever
\* fails or loses power afterwards.
THEOREM IdentityCommitsConfiguration == Spec => []ProvCommitsConfiguration
<1>1. Init => ProvInv
  BY DEF Init, ProvInv
<1>2. IInv /\ ProvInv /\ [Next]_vars => ProvInv'
  BY ProvStep
<1>3. IInv /\ ProvInv => ProvCommitsConfiguration
  BY ConfigLoads, NoneAssumption DEF IInv, ProvInv, ProvCommitsConfiguration
<1> QED BY <1>1, <1>2, <1>3, Invariance, PTL DEF Spec
=============================================================================
