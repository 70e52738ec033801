----------------------- MODULE ResetReregisterProofs -----------------------
(***************************************************************************)
(* Proofs about ResetReregister, for any set of identities, any number of  *)
(* workflows and of USB resets. Most actions change one entry of one       *)
(* table; a lemma per table says what a step may do to it, and the         *)
(* invariants follow from those.                                           *)
(***************************************************************************)
EXTENDS ResetReregister, TLAPS

DevType == [state : {"none", "active", "removed"}, hw : BOOLEAN,
            reset : {"not_requested", "reset_pending", "reset_failed", "complete"}]
WfType == [state : States, src : NodeIds \cup {None}, port : BOOLEAN,
           backup : BOOLEAN, choice : {"restore", "new", None},
           target : NodeIds \cup {None}, addr : BOOLEAN, provisioned : BOOLEAN]
ResetType == [state : {"unused", "queued", "preparing", "rebooting", "physical_complete", "failed",
                       "partial_failure", "settled"},
              own : Ops \cup {None}, src : NodeIds \cup {None},
              follower : {"none", "started", "polling", "waiting", "removing", "done"}]
ProvType == [pc : {"idle", "ble", "written", "registering", "finishing"},
             target : NodeIds \cup {None}, choice : {"restore", "new", None}, resume : BOOLEAN]

-----------------------------------------------------------------------------
(* The inductive invariant                                                 *)

\* The identities the sensor has had: those it lost, and the one it has.
Had == held \cup erased

\* A record stands for an identity the sensor had, and a workflow for a record.
RecordInv ==
  /\ \A d \in NodeIds : dev[d].state # "none" => d \in Had
  /\ \A o \in Ops : wf[o].state # "none" => wf[o].src \in NodeIds /\ dev[wf[o].src].state # "none"

\* What a workflow that has come this far has behind it.
WorkflowInv ==
  /\ \A o \in Ops : confirm[o] # "none" => wf[o].state # "none" /\ wf[o].backup
  /\ \A o \in Ops : wf[o].target # None => wf[o].state # "none"
  /\ \A o \in Ops : prov[o].pc # "idle" =>
       wf[o].state # "none" /\ prov[o].target \in NodeIds
  /\ \A o \in Ops : prov[o].pc \in {"written", "registering", "finishing"} => prov[o].target \in Had

\* A reset is for the identity its workflow backed up, or for that of a token;
\* it is past its confirmation only where the sensor had that identity, and
\* complete only where the identity has gone.
ResetInv ==
  /\ \A k \in ResetIds : resets[k].own # None =>
       /\ wf[resets[k].own].state # "none" /\ wf[resets[k].own].backup
       /\ wf[resets[k].own].src = resets[k].src
  /\ \A k \in ResetIds : resets[k].state \notin {"unused", "settled"} => resets[k].src \in NodeIds
  /\ \A k \in ResetIds : resets[k].state \in {"preparing", "rebooting"} => resets[k].src \in Had
  /\ \A k \in ResetIds : resets[k].state \in {"physical_complete", "partial_failure"} =>
       resets[k].src \in erased

IInv == TypeOK /\ RecordInv /\ WorkflowInv /\ ResetInv /\ UniqueActiveHardware

-----------------------------------------------------------------------------
(* The sensor                                                              *)

\* The types of the tables, by the names above.
LEMMA TypeFact ==
  ASSUME TypeOK
  PROVE  /\ dev \in [NodeIds -> DevType] /\ wf \in [Ops -> WfType]
         /\ resets \in [ResetIds -> ResetType] /\ prov \in [Ops -> ProvType]
         /\ confirm \in [Ops -> {"none", "bound", "other_port"}] /\ token \in NodeIds \cup {None}
  BY DEF TypeOK, DevType, WfType, ResetType, ProvType

\* The steps that do not touch the sensor.
LEMMA NodeOthers ==
  ASSUME [Next]_vars, ~Sensor, \A k \in ResetIds : ~UsbRun(k), \A o \in Ops : ~ProvisionWrite(o)
  PROVE  UNCHANGED <<nodeVars, erased>>
<1> USE DEF vars, nodeVars
<1>1. CASE \E o \in Ops : BeforeReset(o)
  BY <1>1 DEF BeforeReset, SelectUsb, Backup, PrepareReset, ExecuteReset, CancelReset, ReconcileReset
<1>2. CASE \E o \in Ops : AfterReset(o)
  BY <1>2 DEF AfterReset, Registration, EditRegistration, MatchBle, VerifyNetwork, ProvisionStart,
              ProvisionDone, ProvisionFails, ProvisionRegister, ProvisionFinish
<1>3. CASE \E k \in ResetIds : Usb(k) \/ Follow(k)
  BY <1>3 DEF Usb, Follow, UsbAnswer, UsbVerify, UsbTimeout, MonitorReport, MonitorEnd,
              MonitorReady, Finalize
<1>4. CASE \E os \in SUBSET Ops, d \in NodeIds : Start(os, d)
  BY <1>4 DEF Start
<1>5. CASE \E d \in NodeIds : AssociateUsb(d) \/ IssueToken(d) \/ ExecuteLifecycle(d)
  BY <1>5 DEF AssociateUsb, IssueToken, ExecuteLifecycle
<1>6. CASE DropToken \/ ExecuteFactoryReset \/ Restart \/ UNCHANGED vars
  BY <1>6 DEF DropToken, ExecuteFactoryReset, Restart
<1> QED BY <1>1, <1>2, <1>3, <1>4, <1>5, <1>6 DEF Next

\* The sensor has none or one identity, and what it had is remembered.
LEMMA NodeEffect ==
  ASSUME IInv, [Next]_vars
  PROVE  /\ NodeTypeOK' /\ erased' \subseteq NodeIds
         /\ Had \subseteq Had' /\ erased \subseteq erased'
<1> USE DEF nodeVars, NodeTypeOK, Had
<1>0. NodeTypeOK /\ erased \subseteq NodeIds /\ WorkflowInv
  BY DEF IInv, TypeOK
<1>1. CASE SensorErases
  BY <1>0, <1>1 DEF SensorErases, NodeErase
<1>2. CASE SensorRecovers
  BY <1>0, <1>2 DEF SensorRecovers, NodeFinishReset
<1>3. ASSUME NEW k \in ResetIds, UsbRun(k)
      PROVE  /\ NodeTypeOK' /\ erased' \subseteq NodeIds
             /\ Had \subseteq Had' /\ erased \subseteq erased'
  BY <1>0, <1>3 DEF UsbRun, NodeBeginReset
<1>4. ASSUME NEW o \in Ops, ProvisionWrite(o)
      PROVE  /\ NodeTypeOK' /\ erased' \subseteq NodeIds
             /\ Had \subseteq Had' /\ erased \subseteq erased'
  <2>1. prov[o].target \in NodeIds
    BY <1>0, <1>4 DEF ProvisionWrite, WorkflowInv
  <2> QED BY <1>0, <1>4, <2>1 DEF ProvisionWrite, NodeProvision
<1>5. CASE UNCHANGED <<nodeVars, erased>>
  BY <1>0, <1>5
<1> QED BY <1>1, <1>2, <1>3, <1>4, <1>5, NodeOthers DEF Sensor

-----------------------------------------------------------------------------
(* The registry                                                            *)

\* What a step may make of the record of d: it is not forgotten, it is new only
\* for an identity the sensor had, it becomes an active record of the hardware
\* only where no other is, and its reset is complete only once d was erased.
DevChange(d, r) ==
  /\ r \in DevType /\ dev' = [dev EXCEPT ![d] = r]
  /\ dev[d].state # "none" => r.state # "none"
  /\ r.state # "none" => dev[d].state # "none" \/ d \in Had
  /\ r.state = "active" /\ r.hw => (Active(d) /\ dev[d].hw) \/ ~TriggerAborts(d)
  /\ r.reset = "complete" =>
       dev[d].reset = "complete" \/ d \in erased \/ \E o \in Ops : prov[o].pc = "finishing"

\* The steps that do not touch the registry.
LEMMA DevOthers ==
  ASSUME [Next]_vars,
         \A o \in Ops : ~(ExecuteReset(o) \/ ReconcileReset(o) \/ ProvisionRegister(o)
                            \/ ProvisionFinish(o)),
         \A k \in ResetIds : ~(MonitorEnd(k) \/ Finalize(k)),
         \A d \in NodeIds : ~(AssociateUsb(d) \/ IssueToken(d) \/ ExecuteLifecycle(d)),
         ~ExecuteFactoryReset
  PROVE  dev' = dev
<1> USE DEF vars, dbVars
<1>1. CASE \E o \in Ops : BeforeReset(o)
  BY <1>1 DEF BeforeReset, SelectUsb, Backup, PrepareReset, CancelReset
<1>2. CASE \E o \in Ops : AfterReset(o)
  BY <1>2 DEF AfterReset, Registration, EditRegistration, MatchBle, VerifyNetwork, ProvisionStart,
              ProvisionWrite, ProvisionDone, ProvisionFails
<1>3. CASE \E k \in ResetIds : Usb(k) \/ Follow(k)
  BY <1>3 DEF Usb, Follow, UsbRun, UsbAnswer, UsbVerify, UsbTimeout, MonitorReport, MonitorReady
<1>4. CASE \E os \in SUBSET Ops, d \in NodeIds : Start(os, d)
  BY <1>4 DEF Start
<1>5. CASE Sensor \/ DropToken \/ Restart \/ UNCHANGED vars
  BY <1>5 DEF Sensor, SensorErases, SensorRecovers, DropToken, Restart
<1> QED BY <1>1, <1>2, <1>3, <1>4, <1>5 DEF Next

\* Another reset status.
LEMMA StatusFact ==
  ASSUME TypeOK, NEW d \in NodeIds,
         NEW status \in {"not_requested", "reset_pending", "reset_failed", "complete"},
         status = "complete" => d \in erased,
         \/ dev' = [dev EXCEPT ![d].reset = status]
         \/ dev' = [dev EXCEPT ![d] = Removed(@, status)]
  PROVE  \E r : DevChange(d, r)
<1>0. dev \in [NodeIds -> DevType] /\ dev[d] \in DevType
  BY TypeFact
<1>1. CASE dev' = [dev EXCEPT ![d].reset = status]
  <2> DEFINE r == [dev[d] EXCEPT !.reset = status]
  <2>1. r \in DevType
    BY <1>0 DEF DevType
  <2>2. r.state = dev[d].state /\ r.hw = dev[d].hw /\ r.reset = status
    BY <1>0 DEF DevType
  <2>3. dev' = [dev EXCEPT ![d] = r]
    BY <1>0, <1>1
  <2> HIDE DEF r
  <2> QED BY <2>1, <2>2, <2>3 DEF DevChange, Active
<1>2. CASE dev' = [dev EXCEPT ![d] = Removed(@, status)]
  <2> DEFINE r == Removed(dev[d], status)
  <2>1. r \in DevType
    BY <1>0 DEF DevType, Removed
  <2>2. /\ r.state = IF dev[d].state = "active" THEN "removed" ELSE dev[d].state
        /\ r.hw = dev[d].hw /\ r.reset = status
    BY <1>0 DEF DevType, Removed
  <2>3. dev' = [dev EXCEPT ![d] = r]
    BY <1>0, <1>2
  <2> HIDE DEF r
  <2> QED BY <2>1, <2>2, <2>3 DEF DevChange, Active
<1> QED BY <1>1, <1>2

\* The hardware id is recorded.
LEMMA HardwareFact ==
  ASSUME TypeOK, NEW d \in NodeIds, dev[d].hw \/ ~TriggerAborts(d),
         dev' = [dev EXCEPT ![d].hw = TRUE]
  PROVE  \E r : DevChange(d, r)
<1>0. dev \in [NodeIds -> DevType] /\ dev[d] \in DevType
  BY TypeFact
<1> DEFINE r == [dev[d] EXCEPT !.hw = TRUE]
<1>1. r \in DevType /\ r.state = dev[d].state /\ r.reset = dev[d].reset
  BY <1>0 DEF DevType
<1>2. dev' = [dev EXCEPT ![d] = r]
  BY <1>0
<1> HIDE DEF r
<1> QED BY <1>1, <1>2 DEF DevChange, Active

\* A record is active again unless its hardware is recorded elsewhere.
LEMMA RestoreFact ==
  ASSUME TypeOK, RecordInv, NEW d \in NodeIds, dev[d].state # "none", ~RestoreRefused(d),
         dev' = [dev EXCEPT ![d] = Restored(@)]
  PROVE  \E r : DevChange(d, r)
<1>0. dev \in [NodeIds -> DevType] /\ dev[d] \in DevType
  BY TypeFact
<1> DEFINE r == Restored(dev[d])
<1>1. r \in DevType /\ r.state = "active" /\ r.reset = dev[d].reset /\ r.hw = dev[d].hw
  BY <1>0 DEF DevType, Restored
<1>2. dev' = [dev EXCEPT ![d] = r]
  BY <1>0
<1>3. dev[d].hw => ~TriggerAborts(d)
  BY DEF RestoreRefused, HardwareElsewhere, TriggerAborts, Active
<1> HIDE DEF r
<1> QED BY <1>1, <1>2, <1>3 DEF DevChange, Active

\* Every step changes at most one record, and only so.
LEMMA DevEffect ==
  ASSUME IInv, [Next]_vars
  PROVE  dev' = dev \/ \E d \in NodeIds : \E r : DevChange(d, r)
<1> DEFINE Goal == dev' = dev \/ \E d \in NodeIds : \E r : DevChange(d, r)
<1> SUFFICES Goal
  OBVIOUS
<1>0. TypeOK /\ RecordInv /\ WorkflowInv /\ ResetInv
  BY DEF IInv
<1>1. dev \in [NodeIds -> DevType] /\ \A o \in Ops : wf[o].state # "none" => wf[o].src \in NodeIds
  BY <1>0, TypeFact DEF RecordInv
<1>2. ASSUME NEW o \in Ops, ExecuteReset(o) PROVE Goal
  <2>1. wf[o].src \in NodeIds
    BY <1>0, <1>1, <1>2 DEF ExecuteReset, WorkflowInv
  <2>2. dev' = dev \/ dev' = [dev EXCEPT ![wf[o].src].reset = "reset_pending"]
    BY <1>2 DEF ExecuteReset, dbVars
  <2> QED BY <1>0, <2>1, <2>2, StatusFact
<1>3. ASSUME NEW o \in Ops, ReconcileReset(o) PROVE Goal
  <2>1. wf[o].src \in NodeIds /\ dev[wf[o].src].state # "none"
    BY <1>0, <1>3 DEF ReconcileReset, RecordInv
  <2>2. CASE dev' = [dev EXCEPT ![wf[o].src].reset = "not_requested"]
    BY <1>0, <2>1, <2>2, StatusFact
  <2>3. CASE held = {} /\ dev' = [dev EXCEPT ![wf[o].src] = Removed(@, "complete")]
    <3>1. wf[o].src \in erased
      BY <1>0, <2>1, <2>3 DEF RecordInv, Had
    <3> QED BY <1>0, <2>1, <2>3, <3>1, StatusFact
  <2> QED BY <1>3, <2>2, <2>3 DEF ReconcileReset
<1>4. ASSUME NEW o \in Ops, ProvisionRegister(o) PROVE Goal
  <2> DEFINE t == prov[o].target
  <2>1. wf[o].src \in NodeIds /\ dev[wf[o].src].state # "none" /\ t \in NodeIds /\ t \in Had
    BY <1>0, <1>4 DEF ProvisionRegister, RecordInv, WorkflowInv
  <2>2. CASE ~RestoreRefused(wf[o].src) /\ dev' = [dev EXCEPT ![wf[o].src] = Restored(@)]
    BY <1>0, <2>1, <2>2, RestoreFact
  <2>3. CASE dev' = [dev EXCEPT ![t] = Restored(Absent)] /\ dev[t].state = "none"
    <3> DEFINE r == Restored(Absent)
    <3>1. r \in DevType /\ r.state = "active" /\ r.hw = FALSE /\ r.reset = "not_requested"
      BY DEF Restored, Absent, DevType
    <3> HIDE DEF r
    <3>2. DevChange(t, r)
      BY <2>1, <2>3, <3>1 DEF DevChange, r
    <3> QED BY <2>1, <3>2
  <2> QED BY <1>4, <2>2, <2>3 DEF ProvisionRegister, dbVars
<1>5. ASSUME NEW o \in Ops, ProvisionFinish(o) PROVE Goal
  <2> DEFINE new == prov[o].choice = "new"
             d == IF new THEN prov[o].target ELSE wf[o].src
             r == [dev[d] EXCEPT !.hw = @ \/ new, !.reset = "complete"]
  <2>1. prov[o].pc = "finishing" /\ d \in NodeIds
    BY <1>0, <1>1, <1>5 DEF ProvisionFinish, WorkflowInv
  <2>2. dev' = dev \/ (~(new /\ TriggerAborts(d)) /\ dev' = [dev EXCEPT ![d].hw = @ \/ new, ![d].reset = "complete"])
    BY <1>5 DEF ProvisionFinish
  <2>3. CASE ~(new /\ TriggerAborts(d)) /\ dev' = [dev EXCEPT ![d].hw = @ \/ new, ![d].reset = "complete"]
    <3>0. dev[d] \in DevType
      BY <1>1, <2>1
    <3>1. dev' = [dev EXCEPT ![d] = r]
      BY <1>1, <2>1, <2>3
    <3>2. /\ r.state = dev[d].state /\ r.reset = "complete" /\ r.hw = (dev[d].hw \/ new)
      BY <3>0 DEF DevType
    <3>3. r \in DevType
      <4>1. (dev[d].hw \/ new) \in BOOLEAN
        OBVIOUS
      <4> QED BY <3>0, <4>1 DEF DevType
    <3> HIDE DEF r, d
    <3>4. DevChange(d, r)
      BY <2>1, <2>3, <3>1, <3>2, <3>3 DEF DevChange, Active
    <3> QED BY <2>1, <3>4
  <2> QED BY <2>2, <2>3
<1>6. ASSUME NEW k \in ResetIds, MonitorEnd(k) PROVE Goal
  <2>1. CASE dev' # dev
    <3>1. /\ resets[k].state = "physical_complete"
          /\ dev' = [dev EXCEPT ![resets[k].src] = Removed(@, "complete")]
      BY <1>6, <2>1 DEF MonitorEnd
    <3>2. resets[k].src \in NodeIds /\ resets[k].src \in erased
      BY <1>0, <3>1 DEF ResetInv
    <3> QED BY <1>0, <3>1, <3>2, StatusFact
  <2> QED BY <2>1
<1>7. ASSUME NEW k \in ResetIds, Finalize(k) PROVE Goal
  <2>1. CASE resets[k].state = "failed" /\ dev' = [dev EXCEPT ![resets[k].src].reset = "reset_failed"]
    <3>1. resets[k].src \in NodeIds
      BY <1>0, <2>1 DEF ResetInv
    <3> QED BY <1>0, <2>1, <3>1, StatusFact
  <2>2. CASE /\ resets[k].state \in {"physical_complete", "partial_failure"}
             /\ dev' = [dev EXCEPT ![resets[k].src] = Removed(@, "complete")]
    <3>1. resets[k].src \in NodeIds /\ resets[k].src \in erased
      BY <1>0, <2>2 DEF ResetInv
    <3> QED BY <1>0, <2>2, <3>1, StatusFact
  <2> QED BY <1>7, <2>1, <2>2 DEF Finalize
<1>8. ASSUME NEW d \in NodeIds, AssociateUsb(d) \/ IssueToken(d) PROVE Goal
  <2>1. ~HardwareElsewhere(d) => ~TriggerAborts(d)
    BY DEF HardwareElsewhere, TriggerAborts, Active
  <2>2. (dev[d].hw \/ ~TriggerAborts(d)) /\ dev' = [dev EXCEPT ![d].hw = TRUE]
    BY <1>8, <2>1 DEF AssociateUsb, IssueToken
  <2> QED BY <1>0, <2>2, HardwareFact
<1>9. ASSUME NEW d \in NodeIds, ExecuteLifecycle(d) PROVE Goal
  <2>1. CASE dev' = [dev EXCEPT ![d] = Removed(@, @.reset)]
    <3> DEFINE r == Removed(dev[d], dev[d].reset)
    <3>0. dev[d] \in DevType
      BY <1>1
    <3>1. r \in DevType
      BY <3>0 DEF DevType, Removed
    <3>2. /\ r.state = IF dev[d].state = "active" THEN "removed" ELSE dev[d].state
          /\ r.hw = dev[d].hw /\ r.reset = dev[d].reset
      BY <3>0 DEF DevType, Removed
    <3>3. dev' = [dev EXCEPT ![d] = r]
      BY <1>1, <2>1
    <3> HIDE DEF r
    <3>4. DevChange(d, r)
      BY <3>1, <3>2, <3>3 DEF DevChange, Active
    <3> QED BY <3>4
  <2>2. CASE ~RestoreRefused(d) /\ dev' = [dev EXCEPT ![d] = Restored(@)]
    BY <1>0, <1>9, <2>2, RestoreFact DEF ExecuteLifecycle
  <2> QED BY <1>9, <2>1, <2>2 DEF ExecuteLifecycle
<1>10. ASSUME ExecuteFactoryReset PROVE Goal
  <2>1. token \in NodeIds
    BY <1>0, <1>10, TypeFact DEF ExecuteFactoryReset
  <2>2. \E status \in {"reset_pending", "reset_failed"} : dev' = [dev EXCEPT ![token].reset = status]
    BY <1>10 DEF ExecuteFactoryReset
  <2> QED BY <1>0, <2>1, <2>2, StatusFact
<1> QED BY <1>2, <1>3, <1>4, <1>5, <1>6, <1>7, <1>8, <1>9, <1>10, DevOthers

-----------------------------------------------------------------------------
(* The workflows                                                           *)

\* What a step may make of the open workflow o: it keeps its sensor and its
\* backup.
WfChange(o, x) ==
  /\ x \in WfType /\ wf' = [wf EXCEPT ![o] = x]
  /\ wf[o].state # "none" /\ x.state # "none" /\ x.src = wf[o].src
  /\ wf[o].backup => x.backup

\* The steps that do not touch a workflow.
LEMMA WfOthers ==
  ASSUME [Next]_vars,
         \A os \in SUBSET Ops, d \in NodeIds : ~Start(os, d),
         \A o \in Ops : ~(BeforeReset(o) \/ AfterReset(o)),
         \A k \in ResetIds : ~(MonitorReport(k) \/ MonitorEnd(k) \/ MonitorReady(k))
  PROVE  wf' = wf
<1> USE DEF vars, dbVars
<1>1. CASE \E k \in ResetIds : Usb(k) \/ Follow(k)
  BY <1>1 DEF Usb, Follow, UsbRun, UsbAnswer, UsbVerify, UsbTimeout, Finalize
<1>2. CASE \E d \in NodeIds : AssociateUsb(d) \/ IssueToken(d) \/ ExecuteLifecycle(d)
  BY <1>2 DEF AssociateUsb, IssueToken, ExecuteLifecycle
<1>3. CASE Sensor \/ DropToken \/ ExecuteFactoryReset \/ Restart \/ UNCHANGED vars
  BY <1>3 DEF Sensor, SensorErases, SensorRecovers, DropToken, ExecuteFactoryReset, Restart
<1> QED BY <1>1, <1>2, <1>3 DEF Next

\* transition().
LEMMA MoveFact ==
  ASSUME TypeOK, NEW o \in Ops, NEW st \in States \ {"none"},
         wf[o].state # "none", Move(o, st)
  PROVE  \E x : WfChange(o, x)
<1>0. wf \in [Ops -> WfType] /\ wf[o] \in WfType
  BY TypeFact
<1> DEFINE x == [wf[o] EXCEPT !.state = st]
<1>1. x \in WfType
  BY <1>0 DEF WfType
<1>2. /\ x.state = st /\ x.src = wf[o].src /\ x.backup = wf[o].backup
  BY <1>0 DEF WfType
<1>3. wf' = [wf EXCEPT ![o] = x]
  BY <1>0 DEF Move
<1> HIDE DEF x
<1> QED BY <1>1, <1>2, <1>3 DEF WfChange

\* A workflow whose task or request is under way has been started.
LEMMA OpenFact ==
  ASSUME IInv
  PROVE  /\ \A o \in Ops : confirm[o] # "none" \/ wf[o].target # None \/ prov[o].pc # "idle" =>
              wf[o].state # "none"
         /\ \A k \in ResetIds : resets[k].own # None =>
              resets[k].own \in Ops /\ wf[resets[k].own].state # "none"
<1>1. \A k \in ResetIds : resets[k].own # None => resets[k].own \in Ops
  BY TypeFact DEF IInv, ResetType
<1> QED BY <1>1 DEF IInv, WorkflowInv, ResetInv

\* The requests up to the reset change one workflow that was started.
LEMMA WfBefore ==
  ASSUME IInv, NEW o \in Ops, BeforeReset(o)
  PROVE  wf' = wf \/ \E x : WfChange(o, x)
<1>0. TypeOK /\ WorkflowInv /\ wf \in [Ops -> WfType] /\ wf[o] \in WfType
  BY TypeFact DEF IInv
<1>1. wf[o].state # "none"
  BY OpenFact
     DEF BeforeReset, SelectUsb, Backup, PrepareReset, ExecuteReset, CancelReset, ReconcileReset
<1>2. CASE SelectUsb(o)
  <2> DEFINE x == [wf[o] EXCEPT !.port = TRUE, !.state = "physical_identity_verified"]
  <2>1. x \in WfType
    BY <1>0 DEF WfType, States
  <2>2. /\ x.state # "none" /\ x.src = wf[o].src /\ x.backup = wf[o].backup
    BY <1>0 DEF WfType
  <2>3. wf' = [wf EXCEPT ![o] = x]
    BY <1>0, <1>2 DEF SelectUsb
  <2> HIDE DEF x
  <2> QED BY <1>1, <2>1, <2>2, <2>3 DEF WfChange
<1>3. CASE Backup(o)
  <2> DEFINE x == [wf[o] EXCEPT !.backup = TRUE, !.state = "configuration_backup_ready"]
  <2>1. x \in WfType
    BY <1>0 DEF WfType, States
  <2>2. /\ x.state # "none" /\ x.src = wf[o].src /\ x.backup
    BY <1>0 DEF WfType
  <2>3. wf' = [wf EXCEPT ![o] = x]
    BY <1>0, <1>3 DEF Backup
  <2> HIDE DEF x
  <2> QED BY <1>1, <2>1, <2>2, <2>3 DEF WfChange
<1>4. CASE PrepareReset(o) \/ ExecuteReset(o) \/ CancelReset(o) \/ ReconcileReset(o)
  <2>1. \/ wf' = wf
        \/ \E st \in {"reset_confirmation_required", "reset_in_progress",
                       "configuration_backup_ready", "unprovisioned_ready_for_registration"} : Move(o, st)
    BY <1>4 DEF PrepareReset, ExecuteReset, CancelReset, ReconcileReset, dbVars
  <2>2. {"reset_confirmation_required", "reset_in_progress", "configuration_backup_ready",
         "unprovisioned_ready_for_registration"} \subseteq States \ {"none"}
    BY DEF States
  <2> QED BY <1>0, <1>1, <2>1, <2>2, MoveFact
<1> QED BY <1>2, <1>3, <1>4 DEF BeforeReset

\* So do those of the registration, and the coroutine of provision().
LEMMA WfAfter ==
  ASSUME IInv, NEW o \in Ops, AfterReset(o)
  PROVE  wf' = wf \/ \E x : WfChange(o, x)
<1>0. TypeOK /\ WorkflowInv /\ wf \in [Ops -> WfType] /\ wf[o] \in WfType
  BY TypeFact DEF IInv
<1>1. wf' = wf \/ wf[o].state # "none"
  BY OpenFact
     DEF AfterReset, Registration, EditRegistration, MatchBle, VerifyNetwork, ProvisionStart,
         ProvisionWrite, ProvisionDone, ProvisionFails, ProvisionRegister, ProvisionFinish, dbVars
<1> SUFFICES ASSUME wf[o].state # "none" PROVE wf' = wf \/ \E x : WfChange(o, x)
  BY <1>1
<1>2. ASSUME NEW choice \in {"restore", "new"}, NEW t \in NodeIds, Registration(o, choice, t)
      PROVE  \E x : WfChange(o, x)
  <2> DEFINE x == [wf[o] EXCEPT !.choice = choice, !.target = t,
                                !.state = "searching_for_reset_sensor_ble"]
  <2>1. x \in WfType
    BY <1>0 DEF WfType, States
  <2>2. x.state # "none" /\ x.src = wf[o].src /\ x.backup = wf[o].backup
    BY <1>0 DEF WfType
  <2>3. wf' = [wf EXCEPT ![o] = x]
    BY <1>0, <1>2 DEF Registration
  <2> HIDE DEF x
  <2> QED BY <2>1, <2>2, <2>3 DEF WfChange
<1>3. CASE EditRegistration(o)
  <2> DEFINE x == [wf[o] EXCEPT !.choice = None, !.target = None, !.addr = FALSE,
                                !.state = "registration_details_required"]
  <2>1. x \in WfType
    BY <1>0 DEF WfType, States
  <2>2. x.state # "none" /\ x.src = wf[o].src /\ x.backup = wf[o].backup
    BY <1>0 DEF WfType
  <2>3. wf' = [wf EXCEPT ![o] = x]
    BY <1>0, <1>3 DEF EditRegistration
  <2> HIDE DEF x
  <2> QED BY <2>1, <2>2, <2>3 DEF WfChange
<1>4. CASE wf' = [wf EXCEPT ![o].addr = TRUE, ![o].state = "ble_identity_matched"]
  <2> DEFINE x == [wf[o] EXCEPT !.addr = TRUE, !.state = "ble_identity_matched"]
  <2>1. x \in WfType
    BY <1>0 DEF WfType, States
  <2>2. /\ x.state # "none" /\ x.src = wf[o].src /\ x.backup = wf[o].backup
    BY <1>0 DEF WfType
  <2>3. wf' = [wf EXCEPT ![o] = x]
    BY <1>0, <1>4
  <2> HIDE DEF x
  <2> QED BY <2>1, <2>2, <2>3 DEF WfChange
<1>5. CASE ProvisionDone(o)
  <2> DEFINE x == [wf[o] EXCEPT !.provisioned = TRUE, !.state = "gateway_registration_in_progress"]
  <2>1. x \in WfType
    BY <1>0 DEF WfType, States
  <2>2. /\ x.state # "none" /\ x.src = wf[o].src /\ x.backup = wf[o].backup
    BY <1>0 DEF WfType
  <2>3. wf' = [wf EXCEPT ![o] = x]
    BY <1>0, <1>5 DEF ProvisionDone
  <2> HIDE DEF x
  <2> QED BY <2>1, <2>2, <2>3 DEF WfChange
<1>6. CASE \E st \in {"searching_for_reset_sensor_ble", "complete", "recoverable_error",
                      "network_verification_in_progress", "provisioning_in_progress"} : Move(o, st)
  <2>1. {"searching_for_reset_sensor_ble", "complete", "recoverable_error",
         "network_verification_in_progress", "provisioning_in_progress"} \subseteq States \ {"none"}
    BY DEF States
  <2> QED BY <1>0, <1>6, <2>1, MoveFact
<1>7. CASE MatchBle(o) \/ VerifyNetwork(o) \/ ProvisionStart(o) \/ ProvisionWrite(o) \/ ProvisionFails(o)
  BY <1>4, <1>6, <1>7
     DEF MatchBle, VerifyNetwork, ProvisionStart, ProvisionWrite, ProvisionFails, dbVars
<1>8. CASE ProvisionRegister(o) \/ ProvisionFinish(o)
  BY <1>6, <1>8 DEF ProvisionRegister, ProvisionFinish, dbVars
<1> QED BY <1>2, <1>3, <1>5, <1>7, <1>8 DEF AfterReset

\* Every step changes at most one workflow, and only so, or starts some.
LEMMA WfEffect ==
  ASSUME IInv, [Next]_vars
  PROVE  \/ wf' = wf
         \/ \E o \in Ops : \E x : WfChange(o, x)
         \/ \E os \in SUBSET Ops, d \in NodeIds : Start(os, d)
<1>1. ASSUME NEW k \in ResetIds, MonitorReport(k) \/ MonitorEnd(k) \/ MonitorReady(k)
      PROVE  \E o \in Ops : \E x : WfChange(o, x)
  <2>0. TypeOK /\ WorkflowInv
    BY DEF IInv
  <2>1. resets[k].own \in Ops /\ wf[resets[k].own].state # "none"
    BY <1>1, OpenFact DEF MonitorReport, MonitorEnd, MonitorReady
  <2>2. \E st \in {"waiting_for_usb_reenumeration", "reset_in_progress", "recoverable_error",
                   "post_reset_verification", "unprovisioned_ready_for_registration"} :
          Move(resets[k].own, st)
    BY <1>1 DEF MonitorReport, MonitorEnd, MonitorReady
  <2>3. {"waiting_for_usb_reenumeration", "reset_in_progress", "recoverable_error",
         "post_reset_verification", "unprovisioned_ready_for_registration"} \subseteq States \ {"none"}
    BY DEF States
  <2> QED BY <2>0, <2>1, <2>2, <2>3, MoveFact
<1> QED BY <1>1, WfBefore, WfAfter, WfOthers

\* What that means for every workflow.
LEMMA WfKept ==
  ASSUME IInv, [Next]_vars
  PROVE  /\ wf' \in [Ops -> WfType]
         /\ \A o \in Ops : wf[o].state # "none" =>
              wf'[o].state # "none" /\ wf'[o].src = wf[o].src /\ (wf[o].backup => wf'[o].backup)
         /\ \A o \in Ops : wf'[o].state # "none" /\ wf[o].state = "none" =>
              wf'[o].src \in NodeIds /\ dev[wf'[o].src].state # "none"
         /\ \A o \in Ops : wf'[o].target # None => wf'[o].state # "none"
<1>0. TypeOK /\ WorkflowInv /\ wf \in [Ops -> WfType]
  BY TypeFact DEF IInv
<1>1. CASE wf' = wf
  BY <1>0, <1>1 DEF WorkflowInv
<1>2. CASE \E o \in Ops : \E x : WfChange(o, x)
  <2>1. PICK o \in Ops : \E x : WfChange(o, x)
    BY <1>2
  <2>2. PICK x : WfChange(o, x)
    BY <2>1
  <2>3. wf' \in [Ops -> WfType] /\ \A p \in Ops : wf'[p] = IF p = o THEN x ELSE wf[p]
    BY <1>0, <2>2 DEF WfChange
  <2> QED BY <1>0, <2>2, <2>3 DEF WfChange, WorkflowInv
<1>3. CASE \E os \in SUBSET Ops, d \in NodeIds : Start(os, d)
  <2>1. PICK os \in SUBSET Ops, d \in NodeIds : Start(os, d)
    BY <1>3
  <2> DEFINE x == [Unstarted EXCEPT !.state = "usb_connection_required", !.src = d]
  <2>2. x \in WfType /\ x.state = "usb_connection_required" /\ x.src = d /\ x.target = None
    BY DEF Unstarted, WfType, States
  <2>3. wf' = [o \in Ops |-> IF o \in os THEN x ELSE wf[o]]
    BY <2>1 DEF Start
  <2> HIDE DEF x
  <2>4. wf' \in [Ops -> WfType] /\ \A p \in Ops : wf'[p] = IF p \in os THEN x ELSE wf[p]
    BY <1>0, <2>2, <2>3
  <2>5. (\A o \in os : wf[o].state = "none") /\ dev[d].state # "none"
    BY <2>1 DEF Start, Active
  <2> QED BY <1>0, <2>2, <2>4, <2>5 DEF WorkflowInv
<1> QED BY <1>1, <1>2, <1>3, WfEffect

-----------------------------------------------------------------------------
(* The USB resets                                                          *)

\* What a step may make of the reset operation k.
ResetChange(k, x) ==
  /\ x \in ResetType /\ resets' = [resets EXCEPT ![k] = x]
  /\ x.own # None => \/ x.own = resets[k].own /\ x.src = resets[k].src
                     \/ wf[x.own].state # "none" /\ wf[x.own].backup /\ wf[x.own].src = x.src
  /\ x.state \notin {"unused", "settled"} => x.src \in NodeIds
  /\ x.state \in {"preparing", "rebooting"} => x.src \in Had
  /\ x.state \in {"physical_complete", "partial_failure"} => x.src \in erased

\* The steps that do not touch a reset operation.
LEMMA ResetOthers ==
  ASSUME [Next]_vars, ~Restart, ~ExecuteFactoryReset,
         \A o \in Ops : ~ExecuteReset(o), \A k \in ResetIds : ~(Usb(k) \/ Follow(k))
  PROVE  resets' = resets
<1> USE DEF vars, memVars
<1>1. CASE \E o \in Ops : BeforeReset(o)
  BY <1>1 DEF BeforeReset, SelectUsb, Backup, PrepareReset, CancelReset, ReconcileReset
<1>2. CASE \E o \in Ops : AfterReset(o)
  BY <1>2 DEF AfterReset, Registration, EditRegistration, MatchBle, VerifyNetwork, ProvisionStart,
              ProvisionWrite, ProvisionDone, ProvisionFails, ProvisionRegister, ProvisionFinish
<1>3. CASE \E os \in SUBSET Ops, d \in NodeIds : Start(os, d)
  BY <1>3 DEF Start
<1>4. CASE \E d \in NodeIds : AssociateUsb(d) \/ IssueToken(d) \/ ExecuteLifecycle(d)
  BY <1>4 DEF AssociateUsb, IssueToken, ExecuteLifecycle
<1>5. CASE Sensor \/ DropToken \/ UNCHANGED vars
  BY <1>5 DEF Sensor, SensorErases, SensorRecovers, DropToken
<1> QED BY <1>1, <1>2, <1>3, <1>4, <1>5 DEF Next

\* launch(), of an owner's workflow or of a token.
LEMMA LaunchFact ==
  ASSUME TypeOK, CanLaunch, NEW o \in Ops \cup {None}, NEW d \in NodeIds, Launch(o, d),
         o # None => wf[o].state # "none" /\ wf[o].backup /\ wf[o].src = d
  PROVE  \E k \in ResetIds : \E x : ResetChange(k, x)
<1> DEFINE k == CHOOSE k \in ResetIds : resets[k].state = "unused"
           x == [state |-> "queued", own |-> o, src |-> d, follower |-> "started"]
<1>1. k \in ResetIds
  BY DEF CanLaunch
<1>2. x \in ResetType /\ x.state = "queued" /\ x.own = o /\ x.src = d
  BY DEF ResetType
<1>3. resets' = [resets EXCEPT ![k] = x]
  BY DEF Launch
<1> HIDE DEF k, x
<1>4. ResetChange(k, x)
  BY <1>2, <1>3 DEF ResetChange
<1> QED BY <1>1, <1>4

\* _run: the sensor carries the identity it is asked to erase, and the read-back
\* finds it gone.
LEMMA UsbEffect ==
  ASSUME IInv, NEW k \in ResetIds, Usb(k)
  PROVE  \E x : ResetChange(k, x)
<1>0. resets \in [ResetIds -> ResetType] /\ resets[k] \in ResetType /\ ResetInv
  BY TypeFact DEF IInv
<1>1. PICK st \in {"failed", "preparing", "rebooting", "physical_complete"} :
        resets' = [resets EXCEPT ![k].state = st]
  BY DEF Usb, UsbRun, UsbAnswer, UsbVerify, UsbTimeout
<1> DEFINE x == [resets[k] EXCEPT !.state = st]
<1>2. x \in ResetType /\ x.state = st /\ x.own = resets[k].own /\ x.src = resets[k].src
  BY <1>0 DEF ResetType
<1>3. resets' = [resets EXCEPT ![k] = x] /\ resets'[k].state = st
  BY <1>0, <1>1
<1>4. x.src \in NodeIds
  <2>1. resets[k].state \in {"queued", "preparing", "rebooting"}
    BY DEF Usb, UsbRun, UsbAnswer, UsbVerify, UsbTimeout
  <2> QED BY <1>0, <1>2, <2>1 DEF ResetInv
<1>5. st \in {"preparing", "rebooting"} => x.src \in Had
  <2>1. CASE UsbRun(k) /\ st \in {"preparing", "rebooting"}
    <3>1. held = {resets[k].src}
      BY <1>0, <1>3, <2>1 DEF UsbRun, ResetType
    <3> QED BY <1>2, <3>1 DEF Had
  <2>2. CASE UsbAnswer(k)
    BY <1>0, <1>2, <2>2 DEF UsbAnswer, ResetInv
  <2>3. CASE UsbVerify(k) \/ UsbTimeout(k)
    BY <1>0, <1>2, <2>3 DEF UsbVerify, UsbTimeout, ResetInv
  <2> QED BY <2>1, <2>2, <2>3 DEF Usb
<1>6. st = "physical_complete" => x.src \in erased
  <2>1. ASSUME st = "physical_complete" PROVE UsbVerify(k) /\ held = {}
    BY <1>0, <1>3, <2>1 DEF Usb, UsbRun, UsbAnswer, UsbVerify, UsbTimeout, ResetType
  <2>2. UsbVerify(k) => resets[k].src \in Had
    BY <1>0 DEF UsbVerify, ResetInv
  <2> QED BY <1>2, <2>1, <2>2 DEF Had
<1> HIDE DEF x
<1>7. ResetChange(k, x)
  BY <1>2, <1>3, <1>4, <1>5, <1>6 DEF ResetChange
<1> QED BY <1>7

\* The task that follows an operation settles it or leaves its identity alone.
LEMMA FollowEffect ==
  ASSUME IInv, NEW k \in ResetIds, Follow(k)
  PROVE  \E x : ResetChange(k, x)
<1>0. resets \in [ResetIds -> ResetType] /\ resets[k] \in ResetType /\ ResetInv
  BY TypeFact DEF IInv
<1>1. CASE resets' = [resets EXCEPT ![k] = Settled]
  <2>1. Settled \in ResetType /\ Settled.state = "settled" /\ Settled.own = None
    BY DEF Settled, NoReset, ResetType
  <2>2. ResetChange(k, Settled)
    BY <1>1, <2>1 DEF ResetChange
  <2> QED BY <2>2
<1>2. ASSUME NEW f \in {"waiting", "polling", "removing"}, resets' = [resets EXCEPT ![k].follower = f]
      PROVE  \E x : ResetChange(k, x)
  <2> DEFINE x == [resets[k] EXCEPT !.follower = f]
  <2>1. x \in ResetType /\ x.state = resets[k].state /\ x.own = resets[k].own /\ x.src = resets[k].src
    BY <1>0 DEF ResetType
  <2>2. resets' = [resets EXCEPT ![k] = x]
    BY <1>0, <1>2
  <2> HIDE DEF x
  <2>3. ResetChange(k, x)
    BY <1>0, <2>1, <2>2 DEF ResetChange, ResetInv
  <2> QED BY <2>3
<1>3. CASE /\ resets[k].state \in {"physical_complete", "partial_failure"}
           /\ resets' = [resets EXCEPT ![k].state = "partial_failure", ![k].follower = "done"]
  <2> DEFINE x == [resets[k] EXCEPT !.state = "partial_failure", !.follower = "done"]
  <2>1. x \in ResetType /\ x.state = "partial_failure" /\ x.own = resets[k].own /\ x.src = resets[k].src
    BY <1>0 DEF ResetType
  <2>2. resets' = [resets EXCEPT ![k] = x]
    BY <1>0, <1>3
  <2> HIDE DEF x
  <2>3. ResetChange(k, x)
    BY <1>0, <1>3, <2>1, <2>2 DEF ResetChange, ResetInv
  <2> QED BY <2>3
<1>4. CASE MonitorReport(k)
  BY <1>2, <1>4 DEF MonitorReport
<1>5. CASE MonitorEnd(k)
  BY <1>1, <1>2, <1>5 DEF MonitorEnd
<1>6. CASE MonitorReady(k)
  BY <1>1, <1>6 DEF MonitorReady
<1>7. CASE Finalize(k)
  BY <1>1, <1>3, <1>7 DEF Finalize
<1> QED BY <1>4, <1>5, <1>6, <1>7 DEF Follow

\* Every step changes at most one operation, and only so, or forgets them all.
LEMMA ResetEffect ==
  ASSUME IInv, [Next]_vars
  PROVE  resets' = resets \/ Restart \/ \E k \in ResetIds : \E x : ResetChange(k, x)
<1>0. TypeOK /\ RecordInv /\ WorkflowInv
  BY DEF IInv
<1>1. ASSUME NEW o \in Ops, ExecuteReset(o)
      PROVE  resets' = resets \/ \E k \in ResetIds : \E x : ResetChange(k, x)
  <2>1. wf[o].state # "none" /\ wf[o].backup /\ wf[o].src \in NodeIds
    BY <1>0, <1>1 DEF ExecuteReset, WorkflowInv, RecordInv
  <2>2. resets' = resets \/ (CanLaunch /\ Launch(o, wf[o].src))
    BY <1>1 DEF ExecuteReset
  <2> QED BY <1>0, <2>1, <2>2, LaunchFact
<1>2. CASE ExecuteFactoryReset
  <2>1. token \in NodeIds /\ (resets' = resets \/ (CanLaunch /\ Launch(None, token)))
    BY <1>0, <1>2, TypeFact DEF ExecuteFactoryReset
  <2> QED BY <1>0, <2>1, LaunchFact
<1> QED BY <1>1, <1>2, UsbEffect, FollowEffect, ResetOthers

-----------------------------------------------------------------------------
(* The provisioning coroutines, confirmations and tokens                   *)

\* What a step may make of provision() of o.
ProvChange(o, x) ==
  /\ x \in ProvType /\ prov' = [prov EXCEPT ![o] = x]
  /\ x.pc # "idle" => wf[o].state # "none" /\ x.target \in NodeIds
  /\ x.pc \in {"written", "registering", "finishing"} => x.target \in Had'

\* The steps that do not touch provision().
LEMMA ProvOthers ==
  ASSUME [Next]_vars, ~Restart,
         \A o \in Ops : ~(ProvisionStart(o) \/ ProvisionWrite(o) \/ ProvisionDone(o)
                            \/ ProvisionFails(o) \/ ProvisionRegister(o) \/ ProvisionFinish(o))
  PROVE  prov' = prov
<1> USE DEF vars, memVars
<1>1. CASE \E o \in Ops : BeforeReset(o)
  BY <1>1 DEF BeforeReset, SelectUsb, Backup, PrepareReset, ExecuteReset, CancelReset, ReconcileReset
<1>2. CASE \E o \in Ops : AfterReset(o)
  BY <1>2 DEF AfterReset, Registration, EditRegistration, MatchBle, VerifyNetwork
<1>3. CASE \E k \in ResetIds : Usb(k) \/ Follow(k)
  BY <1>3 DEF Usb, Follow, UsbRun, UsbAnswer, UsbVerify, UsbTimeout, MonitorReport, MonitorEnd,
              MonitorReady, Finalize
<1>4. CASE \E os \in SUBSET Ops, d \in NodeIds : Start(os, d)
  BY <1>4 DEF Start
<1>5. CASE \E d \in NodeIds : AssociateUsb(d) \/ IssueToken(d) \/ ExecuteLifecycle(d)
  BY <1>5 DEF AssociateUsb, IssueToken, ExecuteLifecycle
<1>6. CASE Sensor \/ DropToken \/ ExecuteFactoryReset \/ UNCHANGED vars
  BY <1>6 DEF Sensor, SensorErases, SensorRecovers, DropToken, ExecuteFactoryReset
<1> QED BY <1>1, <1>2, <1>3, <1>4, <1>5, <1>6 DEF Next

\* An idle coroutine.
LEMMA IdleFact ==
  Idle \in ProvType /\ Idle.pc = "idle"
  BY DEF Idle, ProvType

\* Every step changes at most one coroutine, and only so, or ends them all.
LEMMA ProvEffect ==
  ASSUME IInv, [Next]_vars
  PROVE  prov' = prov \/ Restart \/ \E o \in Ops : \E x : ProvChange(o, x)
<1>0. TypeOK /\ WorkflowInv /\ prov \in [Ops -> ProvType] /\ wf \in [Ops -> WfType]
  BY TypeFact DEF IInv
<1>1. ASSUME NEW o \in Ops, prov' = [prov EXCEPT ![o] = Idle] PROVE \E x : ProvChange(o, x)
  <2>1. ProvChange(o, Idle)
    BY <1>1, IdleFact DEF ProvChange
  <2> QED BY <2>1
<1>2. ASSUME NEW o \in Ops, prov[o].pc # "idle",
             NEW at \in {"written", "registering", "finishing"}, prov' = [prov EXCEPT ![o].pc = at],
             prov[o].target \in Had'
      PROVE  \E x : ProvChange(o, x)
  <2> DEFINE x == [prov[o] EXCEPT !.pc = at]
  <2>1. x \in ProvType /\ x.pc = at /\ x.target = prov[o].target
    BY <1>0 DEF ProvType
  <2>2. prov' = [prov EXCEPT ![o] = x]
    BY <1>0, <1>2
  <2> HIDE DEF x
  <2>3. ProvChange(o, x)
    BY <1>0, <1>2, <2>1, <2>2 DEF ProvChange, WorkflowInv
  <2> QED BY <2>3
<1>3. ASSUME NEW o \in Ops, ProvisionStart(o) PROVE prov' = prov \/ \E x : ProvChange(o, x)
  <2> DEFINE x == [pc |-> "ble", target |-> wf[o].target, choice |-> wf[o].choice,
                   resume |-> wf[o].provisioned]
  <2>1. wf[o].state # "none" /\ wf[o].target \in NodeIds
    BY <1>0, <1>3 DEF ProvisionStart, WorkflowInv, WfType
  <2>2. x \in ProvType
    <3>1. wf[o].target \in NodeIds \cup {None} /\ wf[o].choice \in {"restore", "new", None}
          /\ wf[o].provisioned \in BOOLEAN
      BY <1>0 DEF WfType
    <3> QED BY <3>1 DEF ProvType
  <2>3. prov' = prov \/ prov' = [prov EXCEPT ![o] = x]
    BY <1>3 DEF ProvisionStart
  <2>4. x.pc = "ble" /\ x.target = wf[o].target
    OBVIOUS
  <2> HIDE DEF x
  <2> QED BY <2>1, <2>2, <2>3, <2>4 DEF ProvChange
<1>4. ASSUME NEW o \in Ops, ProvisionWrite(o) PROVE \E x : ProvChange(o, x)
  <2>1. prov[o].target \in Had' /\ prov[o].pc # "idle"
    BY <1>4 DEF ProvisionWrite, NodeProvision, Had
  <2>2. prov' = [prov EXCEPT ![o].pc = "written"]
    BY <1>4 DEF ProvisionWrite
  <2> QED BY <1>2, <2>1, <2>2
<1>5. ASSUME NEW o \in Ops, ProvisionDone(o) PROVE \E x : ProvChange(o, x)
  <2>1. prov[o].target \in Had' /\ prov[o].pc # "idle"
    BY <1>5, NodeEffect DEF ProvisionDone, Had
  <2>2. prov' = [prov EXCEPT ![o].pc = "registering"]
    BY <1>5 DEF ProvisionDone
  <2> QED BY <1>2, <2>1, <2>2
<1>6. ASSUME NEW o \in Ops, ProvisionRegister(o) PROVE \E x : ProvChange(o, x)
  <2>1. prov[o].target \in Had' /\ prov[o].pc # "idle"
    BY <1>0, <1>6, NodeEffect DEF ProvisionRegister, WorkflowInv
  <2>2. prov' = [prov EXCEPT ![o].pc = "finishing"] \/ prov' = [prov EXCEPT ![o] = Idle]
    BY <1>6 DEF ProvisionRegister
  <2> QED BY <1>1, <1>2, <2>1, <2>2
<1>7. ASSUME NEW o \in Ops, ProvisionFails(o) \/ ProvisionFinish(o) PROVE \E x : ProvChange(o, x)
  BY <1>1, <1>7 DEF ProvisionFails, ProvisionFinish
<1> QED BY <1>3, <1>4, <1>5, <1>6, <1>7, ProvOthers

\* A confirmation is prepared only behind a backup.
LEMMA ConfirmEffect ==
  ASSUME IInv, [Next]_vars
  PROVE  /\ confirm' \in [Ops -> {"none", "bound", "other_port"}] /\ token' \in NodeIds \cup {None}
         /\ \A o \in Ops : confirm'[o] # "none" =>
              confirm[o] # "none" \/ (wf[o].state # "none" /\ wf[o].backup)
<1> DEFINE Goal == /\ confirm' \in [Ops -> {"none", "bound", "other_port"}]
                   /\ token' \in NodeIds \cup {None}
                   /\ \A o \in Ops : confirm'[o] # "none" =>
                        confirm[o] # "none" \/ (wf[o].state # "none" /\ wf[o].backup)
<1> USE DEF vars, memVars
<1>0. confirm \in [Ops -> {"none", "bound", "other_port"}] /\ token \in NodeIds \cup {None}
  BY TypeFact DEF IInv
<1>1. CASE \E o \in Ops : BeforeReset(o)
  <2>1. PICK o \in Ops : BeforeReset(o)
    BY <1>1
  <2>2. token' = token
    BY <2>1 DEF BeforeReset, SelectUsb, Backup, PrepareReset, ExecuteReset, CancelReset, ReconcileReset
  <2>3. CASE SelectUsb(o)
    BY <1>0, <2>2, <2>3 DEF SelectUsb
  <2>4. CASE PrepareReset(o)
    BY <1>0, <2>2, <2>4 DEF PrepareReset
  <2>5. CASE Backup(o) \/ ExecuteReset(o) \/ CancelReset(o) \/ ReconcileReset(o)
    <3>1. confirm' = confirm \/ confirm' = [confirm EXCEPT ![o] = "none"]
      BY <2>5 DEF Backup, ExecuteReset, CancelReset, ReconcileReset
    <3> QED BY <1>0, <2>2, <3>1
  <2> QED BY <2>1, <2>3, <2>4, <2>5 DEF BeforeReset
<1>2. CASE \E o \in Ops : AfterReset(o)
  BY <1>0, <1>2
     DEF AfterReset, Registration, EditRegistration, MatchBle, VerifyNetwork, ProvisionStart,
         ProvisionWrite, ProvisionDone, ProvisionFails, ProvisionRegister, ProvisionFinish
<1>3. CASE \E k \in ResetIds : Usb(k) \/ Follow(k)
  BY <1>0, <1>3
     DEF Usb, Follow, UsbRun, UsbAnswer, UsbVerify, UsbTimeout, MonitorReport, MonitorEnd,
         MonitorReady, Finalize
<1>4. CASE \E os \in SUBSET Ops, d \in NodeIds : Start(os, d)
  BY <1>0, <1>4 DEF Start
<1>5. CASE \E d \in NodeIds : AssociateUsb(d) \/ IssueToken(d) \/ ExecuteLifecycle(d)
  BY <1>0, <1>5 DEF AssociateUsb, IssueToken, ExecuteLifecycle
<1>6. CASE Sensor \/ DropToken \/ ExecuteFactoryReset \/ Restart \/ UNCHANGED vars
  BY <1>0, <1>6 DEF Sensor, SensorErases, SensorRecovers, DropToken, ExecuteFactoryReset, Restart
<1> QED BY <1>1, <1>2, <1>3, <1>4, <1>5, <1>6 DEF Next

-----------------------------------------------------------------------------
(* The invariant is preserved                                              *)

\* The registry keeps its type, its records and one active record of the
\* hardware.
LEMMA DevKept ==
  ASSUME IInv, [Next]_vars
  PROVE  /\ dev' \in [NodeIds -> DevType] /\ UniqueActiveHardware'
         /\ \A d \in NodeIds : dev[d].state # "none" => dev'[d].state # "none"
         /\ \A d \in NodeIds : dev'[d].state # "none" => d \in Had
<1>0. dev \in [NodeIds -> DevType] /\ RecordInv /\ UniqueActiveHardware
  BY TypeFact DEF IInv
<1>1. CASE dev' = dev
  BY <1>0, <1>1 DEF RecordInv, UniqueActiveHardware, Active
<1>2. CASE \E d \in NodeIds : \E r : DevChange(d, r)
  <2>1. PICK d \in NodeIds : \E r : DevChange(d, r)
    BY <1>2
  <2>2. PICK r : DevChange(d, r)
    BY <2>1
  <2>3. dev' \in [NodeIds -> DevType] /\ \A e \in NodeIds : dev'[e] = IF e = d THEN r ELSE dev[e]
    BY <1>0, <2>2 DEF DevChange
  <2>4. UniqueActiveHardware'
    <3>1. ASSUME NEW e \in NodeIds, e # d, Active(d)', dev'[d].hw, Active(e)', dev'[e].hw
          PROVE  FALSE
      <4>1. r.state = "active" /\ r.hw /\ Active(e) /\ dev[e].hw
        BY <2>3, <3>1 DEF Active
      <4>2. TriggerAborts(d)
        BY <3>1, <4>1 DEF TriggerAborts
      <4>3. Active(d) /\ dev[d].hw
        BY <2>2, <4>1, <4>2 DEF DevChange
      <4> QED BY <1>0, <3>1, <4>1, <4>3 DEF UniqueActiveHardware
    <3>2. ASSUME NEW e \in NodeIds, NEW f \in NodeIds, e # f,
                 Active(e)', dev'[e].hw, Active(f)', dev'[f].hw
          PROVE  FALSE
      <4>1. CASE e # d /\ f # d
        BY <1>0, <2>3, <3>2, <4>1 DEF UniqueActiveHardware, Active
      <4>2. CASE e = d
        BY <3>1, <3>2, <4>2
      <4>3. CASE f = d
        BY <3>1, <3>2, <4>3
      <4> QED BY <4>1, <4>2, <4>3
    <3> QED BY <3>2 DEF UniqueActiveHardware
  <2> QED BY <1>0, <2>2, <2>3, <2>4 DEF DevChange, RecordInv
<1> QED BY <1>1, <1>2, DevEffect

\* The operations keep their type and what is known of them.
LEMMA ResetKept ==
  ASSUME IInv, [Next]_vars
  PROVE  resets' \in [ResetIds -> ResetType] /\ ResetInv'
<1>0. resets \in [ResetIds -> ResetType] /\ ResetInv
  BY TypeFact DEF IInv
<1>1. /\ resets' \in [ResetIds -> ResetType]
      /\ \A k \in ResetIds : resets'[k].own # None =>
           /\ wf[resets'[k].own].state # "none" /\ wf[resets'[k].own].backup
           /\ wf[resets'[k].own].src = resets'[k].src
      /\ \A k \in ResetIds : resets'[k].state \notin {"unused", "settled"} => resets'[k].src \in NodeIds
      /\ \A k \in ResetIds : resets'[k].state \in {"preparing", "rebooting"} => resets'[k].src \in Had
      /\ \A k \in ResetIds : resets'[k].state \in {"physical_complete", "partial_failure"} =>
           resets'[k].src \in erased
  <2>1. CASE resets' = resets
    BY <1>0, <2>1 DEF ResetInv
  <2>2. CASE Restart
    <3>1. /\ Settled \in ResetType /\ Settled.own = None /\ Settled.state = "settled"
          /\ NoReset \in ResetType /\ NoReset.own = None /\ NoReset.state = "unused"
      BY DEF Settled, NoReset, ResetType
    <3>2. resets' = [k \in ResetIds |-> IF resets[k].state = "unused" THEN NoReset ELSE Settled]
      BY <2>2 DEF Restart
    <3>3. /\ resets' \in [ResetIds -> ResetType]
          /\ \A k \in ResetIds : resets'[k].own = None /\ resets'[k].state \in {"unused", "settled"}
      BY <3>1, <3>2
    <3> QED BY <3>3
  <2>3. CASE \E k \in ResetIds : \E x : ResetChange(k, x)
    <3>1. PICK k \in ResetIds : \E x : ResetChange(k, x)
      BY <2>3
    <3>2. PICK x : ResetChange(k, x)
      BY <3>1
    <3>3. resets' \in [ResetIds -> ResetType] /\ \A j \in ResetIds : resets'[j] = IF j = k THEN x ELSE resets[j]
      BY <1>0, <3>2 DEF ResetChange
    <3>4. x.own # None => /\ wf[x.own].state # "none" /\ wf[x.own].backup /\ wf[x.own].src = x.src
      BY <1>0, <3>2 DEF ResetChange, ResetInv
    <3>5. /\ x.state \notin {"unused", "settled"} => x.src \in NodeIds
          /\ x.state \in {"preparing", "rebooting"} => x.src \in Had
          /\ x.state \in {"physical_complete", "partial_failure"} => x.src \in erased
      BY <3>2 DEF ResetChange
    <3> QED BY <1>0, <3>3, <3>4, <3>5 DEF ResetInv
  <2> QED BY <2>1, <2>2, <2>3, ResetEffect
<1>2. \A k \in ResetIds : resets'[k].own # None => resets'[k].own \in Ops
  BY <1>1 DEF ResetType
<1>3. /\ Had \subseteq Had' /\ erased \subseteq erased'
      /\ \A o \in Ops : wf[o].state # "none" =>
           wf'[o].state # "none" /\ wf'[o].src = wf[o].src /\ (wf[o].backup => wf'[o].backup)
  BY NodeEffect, WfKept
<1>4. ResetInv'
  BY <1>1, <1>2, <1>3 DEF ResetInv
<1> QED BY <1>1, <1>4

\* The coroutines and the confirmations keep theirs.
LEMMA WorkflowKept ==
  ASSUME IInv, [Next]_vars
  PROVE  prov' \in [Ops -> ProvType] /\ WorkflowInv'
<1>0. prov \in [Ops -> ProvType] /\ WorkflowInv
  BY TypeFact DEF IInv
<1>1. Had \subseteq Had'
  BY NodeEffect
<1>2. /\ prov' \in [Ops -> ProvType]
      /\ \A o \in Ops : prov'[o].pc # "idle" => wf[o].state # "none" /\ prov'[o].target \in NodeIds
      /\ \A o \in Ops : prov'[o].pc \in {"written", "registering", "finishing"} => prov'[o].target \in Had'
  <2>1. CASE prov' = prov
    BY <1>0, <1>1, <2>1 DEF WorkflowInv
  <2>2. CASE Restart
    <3>1. prov' = [o \in Ops |-> Idle]
      BY <2>2 DEF Restart
    <3> QED BY <3>1, IdleFact
  <2>3. CASE \E o \in Ops : \E x : ProvChange(o, x)
    <3>1. PICK o \in Ops : \E x : ProvChange(o, x)
      BY <2>3
    <3>2. PICK x : ProvChange(o, x)
      BY <3>1
    <3>3. prov' \in [Ops -> ProvType] /\ \A p \in Ops : prov'[p] = IF p = o THEN x ELSE prov[p]
      BY <1>0, <3>2 DEF ProvChange
    <3> QED BY <1>0, <1>1, <3>2, <3>3 DEF ProvChange, WorkflowInv
  <2> QED BY <2>1, <2>2, <2>3, ProvEffect
<1>3. WorkflowInv'
  BY <1>0, <1>2, WfKept, ConfirmEffect DEF WorkflowInv
<1> QED BY <1>2, <1>3

\* The inductive invariant holds at the start, for the sensor onboarded once.
LEMMA InitInv ==
  ASSUME Init
  PROVE  IInv
<1>1. Unstarted \in WfType /\ Unstarted.state = "none" /\ Unstarted.target = None
  BY DEF Unstarted, WfType, States
<1>2. NoReset \in ResetType /\ NoReset.state = "unused" /\ NoReset.own = None
  BY DEF NoReset, ResetType
<1> DEFINE first == [Absent EXCEPT !.state = "active"]
<1>3. Absent \in DevType /\ Absent.state = "none" /\ first \in DevType /\ first.state = "active"
  BY DEF Absent, DevType
<1> HIDE DEF first
<1>4. dev = [d \in NodeIds |-> IF d = FirstId THEN first ELSE Absent]
  BY DEF Init, first
<1>5. dev \in [NodeIds -> DevType] /\ \A d \in NodeIds : dev[d].state # "none" => d = FirstId
  BY <1>3, <1>4
<1>6. wf \in [Ops -> WfType] /\ \A o \in Ops : wf[o] = Unstarted
  BY <1>1 DEF Init
<1>7. resets \in [ResetIds -> ResetType] /\ \A k \in ResetIds : resets[k] = NoReset
  BY <1>2 DEF Init
<1>8. prov \in [Ops -> ProvType] /\ \A o \in Ops : prov[o] = Idle
  BY IdleFact DEF Init
<1>9. NodeTypeOK /\ erased \subseteq NodeIds
  BY FirstIdAssumption DEF Init, NodeTypeOK
<1>10. TypeOK
  BY <1>5, <1>6, <1>7, <1>8, <1>9 DEF TypeOK, DevType, WfType, ResetType, ProvType, Init
<1>11. RecordInv
  BY <1>1, <1>5, <1>6 DEF RecordInv, Init, Had
<1>12. WorkflowInv
  BY <1>1, <1>6, <1>8, IdleFact DEF WorkflowInv, Init
<1>13. ResetInv
  BY <1>2, <1>7 DEF ResetInv
<1>14. UniqueActiveHardware
  BY <1>5 DEF UniqueActiveHardware, Active
<1> QED BY <1>10, <1>11, <1>12, <1>13, <1>14 DEF IInv

\* Every step keeps the invariant.
LEMMA NextInv ==
  ASSUME IInv, [Next]_vars
  PROVE  IInv'
<1>1. TypeOK'
  BY NodeEffect, DevKept, WfKept, ConfirmEffect, ResetKept, WorkflowKept
     DEF TypeOK, DevType, WfType, ResetType, ProvType
<1>2. RecordInv'
  <2>1. \A o \in Ops : wf'[o].state # "none" => wf'[o].src \in NodeIds /\ dev[wf'[o].src].state # "none"
    BY WfKept DEF IInv, RecordInv
  <2> QED BY <2>1, DevKept, NodeEffect DEF RecordInv
<1> QED BY <1>1, <1>2, WorkflowKept, ResetKept, DevKept DEF IInv

-----------------------------------------------------------------------------
(* The theorems                                                            *)

\* The inductive invariant holds in every reachable state.
THEOREM Invariance == Spec => []IInv
<1>1. Init => IInv
  BY InitInv
<1>2. IInv /\ [Next]_vars => IInv'
  BY NextInv
<1> QED BY <1>1, <1>2, PTL DEF Spec

\* No task and no request ever puts a workflow into a state that transition()
\* does not know, whichever of them moved it last.
THEOREM TypeCorrectness == Spec => []TypeOK
<1>1. IInv => TypeOK
  BY DEF IInv
<1> QED BY <1>1, Invariance, PTL

\* One active registration per hardware id: the checks of restore() and of the
\* association, register() and the trigger leave no gap between them.
THEOREM OneActiveRecord == Spec => []UniqueActiveHardware
<1>1. IInv => UniqueActiveHardware
  BY DEF IInv
<1> QED BY <1>1, Invariance, PTL

\* No guided reset reaches the sensor without the backup of its own workflow.
THEOREM BackupComesFirst == Spec => []ResetBackedUp
<1>1. IInv => ResetBackedUp
  BY DEF IInv, ResetInv, ResetBackedUp
<1> QED BY <1>1, Invariance, PTL

\* A factory reset is recorded as complete only for an identity that was erased
\* from the sensor, or by provision() for the record it registered.
THEOREM CompletionIsReal == Spec => CompleteIsErased
<1>1. ASSUME IInv, [Next]_vars, NEW d \in NodeIds,
             dev[d].reset # "complete", dev'[d].reset = "complete"
      PROVE  d \in erased \/ \E o \in Ops : prov[o].pc = "finishing"
  <2>0. dev \in [NodeIds -> DevType]
    BY <1>1, TypeFact DEF IInv
  <2>1. PICK e \in NodeIds : \E r : DevChange(e, r)
    BY <1>1, DevEffect
  <2>2. PICK r : DevChange(e, r)
    BY <2>1
  <2>3. e = d /\ r.reset = "complete"
    BY <1>1, <2>0, <2>2 DEF DevChange
  <2> QED BY <1>1, <2>2, <2>3 DEF DevChange
<1>2. IInv /\ [Next]_vars =>
        [\A d \in NodeIds : dev[d].reset # "complete" /\ dev'[d].reset = "complete"
           => d \in erased \/ \E o \in Ops : prov[o].pc = "finishing"]_vars
  BY <1>1
<1> QED BY <1>2, Invariance, PTL DEF Spec, CompleteIsErased
=============================================================================
