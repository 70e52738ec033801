------------------------ MODULE InstallationsProofs ------------------------
(***************************************************************************)
(* Proofs about Installations, for any set of installations and            *)
(* configurations and any number of attempts.                              *)
(***************************************************************************)
EXTENDS Installations, TLAPS

-----------------------------------------------------------------------------
(* The inductive invariant                                                 *)

\* What the row of i will say of a column once the pending commit is made.
AfterTx(i) ==
  IF pending.inst = i /\ "tx" \in DOMAIN pending.columns
  THEN pending.columns["tx"] ELSE row[i].tx
AfterState(i) ==
  IF pending.inst = i /\ "state" \in DOMAIN pending.columns
  THEN pending.columns["state"] ELSE row[i].state

\* A change waiting to be committed is one of an installation that exists.
ChangeInv(change) ==
  /\ change = NoChange \/ (change.inst \in Installs /\ Exists(change.inst))
  /\ "state" \in DOMAIN change.columns => change.columns["state"] # "none"

\* A removal or a restore writes three columns of installations that exist.
BatchInv(columns, exists) ==
  /\ DOMAIN columns \subseteq {"state", "enabled", "archived"}
  /\ DOMAIN columns # {} => exists
  /\ "state" \in DOMAIN columns => columns["state"] \in {"active", "removed"}

\* No endpoint writes active_transaction_id or declares a result uncertain.
ShapeInv ==
  /\ ChangeInv(pending) /\ ChangeInv(request)
  /\ \A i \in Installs : BatchInv(batch[i], Exists(i))
  /\ "tx" \notin DOMAIN request.columns
  /\ "state" \in DOMAIN request.columns => request.columns["state"] # "reconciling"
  /\ \A i \in Installs : ~Exists(i) => row[i].tx = NoTx

\* Attempts are on record in the order of their ids, and nothing is known of an
\* id that has not been handed out.
RecordInv ==
  \A t \in Transactions : /\ t <= issued => attempt[t].state # "none"
                          /\ t > issued => attempt[t] = NoAttempt /\ verified[t] = None

\* The running apply() has its attempt on record, and has not acknowledged it
\* as long as it talks to the node.
JobInv ==
  /\ job.stage = "idle" => job = NoJob
  /\ job.stage # "idle" =>
       /\ job.inst \in Installs /\ Exists(job.inst)
       /\ job.tx \in Transactions /\ job.tx <= issued
       /\ attempt[job.tx].inst = job.inst /\ attempt[job.tx].cfg = job.cfg
  /\ job.stage = "device" => verified[job.tx] = None

\* A verify() holds an installation and one of its own attempts.
CheckInv ==
  \A v \in Verifiers : check[v] # NoCheck =>
    /\ check[v].inst \in Installs /\ Exists(check[v].inst)
    /\ check[v].tx \in Transactions
    /\ attempt[check[v].tx].inst = check[v].inst

\* TransactionIsOpen, now and once the pending commit is made.
OpenInv ==
  \A i \in Installs :
    /\ row[i].tx # NoTx => attempt[row[i].tx].inst = i
    /\ AfterTx(i) # NoTx =>
         /\ attempt[AfterTx(i)].inst = i
         /\ i \in cut \/ attempt[AfterTx(i)].state \in {"applying", "verifying", "reconciling"}

\* An attempt that a row shows as uncertain: no apply() works on it, and
\* nothing was acknowledged for it, so verify() cannot find it active.
Unsettled(t) ==
  /\ t \in Transactions
  /\ attempt[t].state \in {"reconciling", "failed"}
  /\ verified[t] = None
  /\ job.tx # t

UncertainInv ==
  \A i \in Installs :
    /\ row[i].state = "reconciling" => Unsettled(row[i].tx)
    /\ AfterState(i) = "reconciling" => Unsettled(AfterTx(i))

\* The columns that would show an installation as active, or let a failure do it.
Dormant(columns) ==
  /\ "enabled" \in DOMAIN columns => columns["enabled"] = FALSE
  /\ "state" \in DOMAIN columns => columns["state"] # "active"
  /\ "prev" \in DOMAIN columns => columns["prev"] = None

DormantInv ==
  \A i \in Installs : i \notin activated /\ i \notin waived =>
    /\ Dormant(row[i])
    /\ pending.inst = i => Dormant(pending.columns)
    /\ request.inst = i => Dormant(request.columns)
    /\ Dormant(batch[i])

IInv ==
  /\ TypeOK /\ ShapeInv /\ RecordInv /\ JobInv /\ CheckInv
  /\ OpenInv /\ UncertainInv /\ DormantInv
  /\ AcknowledgedIsOnNode /\ NodeConfigOnRecord

-----------------------------------------------------------------------------
(* Columns, changes and commits                                            *)

Columns == {"state", "cfg", "prev", "enabled", "tx", "archived"}

\* A row has exactly these columns.
LEMMA RowFact ==
  ASSUME NEW r \in Rows
  PROVE  /\ DOMAIN r = Columns /\ DOMAIN NoRow = Columns
         /\ r.state \in RowStates /\ r.cfg \in MaybeConfig /\ r.prev \in MaybeConfig
         /\ r.enabled \in BOOLEAN /\ r.tx \in MaybeTx /\ r.archived \in BOOLEAN
  BY DEF Rows, NoRow, Columns

\* No column changes in NoChange.
LEMMA NoChangeFact ==
  /\ NoChange.inst = None /\ DOMAIN NoChange.columns = {}
  /\ NoChange = [inst |-> NoChange.inst, columns |-> NoChange.columns]
  /\ ColumnsOK(NoChange.columns)
  BY DEF NoChange, ColumnsOK

\* Nor in NoBatch.
LEMMA NoBatchFact ==
  /\ NoBatch = [i \in Installs |-> NoBatch[i]]
  /\ \A i \in Installs : DOMAIN NoBatch[i] = {} /\ ColumnsOK(NoBatch[i])
  BY DEF NoBatch, ColumnsOK

\* A session commits the columns that differ, with their new values.
LEMMA ChangeFact ==
  ASSUME NEW i, NEW snap \in Rows, NEW new \in Rows
  PROVE  /\ Change(i, snap, new) =
              [inst |-> Change(i, snap, new).inst, columns |-> Change(i, snap, new).columns]
         /\ Change(i, snap, new).inst = i
         /\ ColumnsOK(Change(i, snap, new).columns)
         /\ \A c \in Columns :
              /\ c \in DOMAIN Change(i, snap, new).columns <=> new[c] # snap[c]
              /\ c \in DOMAIN Change(i, snap, new).columns =>
                   Change(i, snap, new).columns[c] = new[c]
<1> DEFINE columns == [c \in {d \in DOMAIN snap : new[d] # snap[d]} |-> new[c]]
<1>1. Change(i, snap, new) = [inst |-> i, columns |-> columns]
  BY DEF Change
<1>2. \A c \in Columns : /\ c \in DOMAIN columns <=> new[c] # snap[c]
                         /\ c \in DOMAIN columns => columns[c] = new[c]
  BY RowFact
<1>3. DOMAIN columns \subseteq DOMAIN NoRow
  BY RowFact
<1> HIDE DEF columns
<1>4. ColumnsOK(columns)
  BY <1>2, <1>3, RowFact DEF ColumnsOK, Columns
<1> QED BY <1>1, <1>2, <1>4

\* A commit leaves a row whose columns are the changed and the old ones.
LEMMA MergeFact ==
  ASSUME NEW r \in Rows, NEW columns, ColumnsOK(columns)
  PROVE  /\ Merge(r, columns) \in Rows
         /\ \A c \in Columns :
              Merge(r, columns)[c] = IF c \in DOMAIN columns THEN columns[c] ELSE r[c]
<1>1. \A c \in Columns :
        Merge(r, columns)[c] = IF c \in DOMAIN columns THEN columns[c] ELSE r[c]
  BY RowFact DEF Merge
<1>2. Merge(r, columns) =
        [state |-> Merge(r, columns).state, cfg |-> Merge(r, columns).cfg,
         prev |-> Merge(r, columns).prev, enabled |-> Merge(r, columns).enabled,
         tx |-> Merge(r, columns).tx, archived |-> Merge(r, columns).archived]
  BY RowFact DEF Merge, Columns
<1>3. Merge(r, columns) \in Rows
  BY <1>1, <1>2, RowFact DEF Rows, ColumnsOK, Columns
<1> QED BY <1>1, <1>3

-----------------------------------------------------------------------------
(* Every step preserves TypeOK                                             *)

\* A new draft is a row.
LEMMA DraftFact ==
  ASSUME NEW c \in Configs
  PROVE  [NoRow EXCEPT !.state = "draft", !.cfg = c] \in Rows
  BY DEF NoRow, Rows, RowStates, MaybeConfig, MaybeTx

\* A commit keeps the table of installations one of rows.
LEMMA CommitFact ==
  ASSUME TypeOK, NEW change, change.inst \in Installs, ColumnsOK(change.columns),
         Commit(change)
  PROVE  /\ row' \in [Installs -> Rows]
         /\ \A i \in Installs \ {change.inst} : row'[i] = row[i]
         /\ \A c \in Columns : row'[change.inst][c] =
              IF c \in DOMAIN change.columns THEN change.columns[c] ELSE row[change.inst][c]
<1>1. row[change.inst] \in Rows
  BY DEF TypeOK
<1>2. row'[change.inst] = Merge(row[change.inst], change.columns)
  BY DEF TypeOK, Commit
<1>3. \A i \in Installs \ {change.inst} : row'[i] = row[i]
  BY DEF TypeOK, Commit
<1>4. row' \in [Installs -> Rows]
  BY <1>1, MergeFact DEF TypeOK, Commit
<1> QED BY <1>1, <1>2, <1>3, <1>4, MergeFact

\* The first state is well typed.
LEMMA TypeInit == Init => TypeOK
<1> SUFFICES ASSUME Init PROVE TypeOK
  OBVIOUS
<1>1. NoRow \in Rows
  BY DEF NoRow, Rows, RowStates, MaybeConfig, MaybeTx
<1> QED
  BY <1>1, NoChangeFact, NoBatchFact, AttemptsAssumption
  DEF Init, TypeOK, NoAttempt, AttemptStates, MaybeInstall, MaybeConfig, MaybeTx, NoJob, NoCheck,
      NoCommand

\* Requests of worker threads and validate() keep every variable's type.
LEMMA TypeRequest ==
  ASSUME TypeOK, ShapeInv
  PROVE  /\ \A i \in Installs, c \in Configs : Create(i, c) => TypeOK'
         /\ \A i \in Installs, new \in Rows : RequestRead(i, new) /\ waived' \subseteq Installs
              => TypeOK'
         /\ RequestCommit => TypeOK'
         /\ LoopCommit => TypeOK'
         /\ \A i \in Installs, valid \in BOOLEAN : ValidateBegin(i, valid) => TypeOK'
<1> USE DEF dbVars, taskVars, nodeVars, histVars
<1>1. ASSUME NEW i \in Installs, NEW c \in Configs, Create(i, c) PROVE TypeOK'
  <2>1. row' \in [Installs -> Rows]
    BY <1>1, DraftFact DEF TypeOK, Create
  <2> QED BY <1>1, <2>1 DEF TypeOK, Create
<1>2. ASSUME NEW i \in Installs, NEW new \in Rows, RequestRead(i, new),
             waived' \subseteq Installs
      PROVE  TypeOK'
  <2>1. row[i] \in Rows
    BY DEF TypeOK
  <2>2. /\ request' = [inst |-> request'.inst, columns |-> request'.columns]
        /\ request'.inst \in MaybeInstall /\ ColumnsOK(request'.columns)
    BY <1>2, <2>1, ChangeFact DEF RequestRead, MaybeInstall
  <2> QED BY <1>2, <2>2 DEF TypeOK, RequestRead
<1>3. ASSUME RequestCommit PROVE TypeOK'
  <2>1. row' \in [Installs -> Rows]
    BY <1>3, CommitFact DEF RequestCommit, TypeOK, ShapeInv, ChangeInv
  <2> QED BY <1>3, <2>1, NoChangeFact DEF TypeOK, RequestCommit, MaybeInstall
<1>4. ASSUME LoopCommit PROVE TypeOK'
  <2>1. row' \in [Installs -> Rows]
    BY <1>4, CommitFact DEF LoopCommit, TypeOK, ShapeInv, ChangeInv
  <2> QED BY <1>4, <2>1, NoChangeFact DEF TypeOK, LoopCommit, MaybeInstall
<1>5. ASSUME NEW i \in Installs, NEW valid \in BOOLEAN, ValidateBegin(i, valid) PROVE TypeOK'
  <2> DEFINE r == row'[i]
             new == IF valid THEN [r EXCEPT !.state = "ready_to_apply"]
                             ELSE [r EXCEPT !.state = "failed", !.enabled = FALSE]
  <2>1. row[i] \in Rows
    BY DEF TypeOK
  <2>2. [row[i] EXCEPT !.state = "validating"] \in Rows
    BY <2>1 DEF Rows, RowStates
  <2>3. row' \in [Installs -> Rows] /\ r \in Rows
    BY <1>5, <2>2 DEF TypeOK, ValidateBegin
  <2>4. new \in Rows
    BY <2>3 DEF Rows, RowStates
  <2>5. pending' = Change(i, r, new)
    BY <1>5 DEF ValidateBegin
  <2> HIDE DEF r, new
  <2>6. /\ pending' = [inst |-> pending'.inst, columns |-> pending'.columns]
        /\ pending'.inst \in MaybeInstall /\ ColumnsOK(pending'.columns)
    BY <2>3, <2>4, <2>5, ChangeFact DEF MaybeInstall
  <2> QED BY <1>5, <2>3, <2>6 DEF TypeOK, ValidateBegin
<1> QED BY <1>1, <1>2, <1>3, <1>4, <1>5

\* Recording an attempt's state and leaving the row's change for the next step.
LEMMA DecideFact ==
  ASSUME TypeOK, NEW i \in Installs, NEW t \in Transactions, NEW state \in AttemptStates,
         NEW new \in Rows, Decide(i, t, state, new)
  PROVE  /\ row' = row /\ issued' = issued
         /\ attempt' \in [Transactions ->
                            [state : AttemptStates, inst : MaybeInstall, cfg : MaybeConfig]]
         /\ attempt'[t].state = state
         /\ \A u \in Transactions : /\ attempt'[u].inst = attempt[u].inst
                                    /\ attempt'[u].cfg = attempt[u].cfg
                                    /\ u # t => attempt'[u] = attempt[u]
         /\ pending' = [inst |-> pending'.inst, columns |-> pending'.columns]
         /\ pending'.inst = i /\ pending'.inst \in MaybeInstall
         /\ ColumnsOK(pending'.columns)
         /\ \A c \in Columns : /\ c \in DOMAIN pending'.columns <=> new[c] # row[i][c]
                               /\ c \in DOMAIN pending'.columns => pending'.columns[c] = new[c]
<1>1. row[i] \in Rows
  BY DEF TypeOK
<1>2. pending' = Change(i, row[i], new) /\ row' = row /\ issued' = issued
  BY DEF Decide
<1>3. /\ attempt' \in [Transactions ->
                         [state : AttemptStates, inst : MaybeInstall, cfg : MaybeConfig]]
      /\ attempt'[t].state = state
      /\ \A u \in Transactions : /\ attempt'[u].inst = attempt[u].inst
                                 /\ attempt'[u].cfg = attempt[u].cfg
                                 /\ u # t => attempt'[u] = attempt[u]
  BY DEF Decide, TypeOK
<1> QED BY <1>1, <1>2, <1>3, ChangeFact DEF MaybeInstall

\* What is left to do is done to an installation and an attempt of its own.
LEMMA TargetFact ==
  ASSUME TypeOK, JobInv, CheckInv
  PROVE  /\ job.stage # "idle" =>
              job.inst \in Installs /\ job.tx \in Transactions /\ row[job.inst] \in Rows
         /\ \A v \in Verifiers : check[v] # NoCheck =>
              /\ check[v].inst \in Installs /\ check[v].tx \in Transactions
              /\ row[check[v].inst] \in Rows
  BY DEF TypeOK, JobInv, CheckInv

\* The row that ApplyBegin, ApplyAck and VerifyActivate leave for the commit.
ApplyingRow(r, t) == [r EXCEPT !.state = "applying", !.tx = t, !.enabled = FALSE]
VerifyingRow(r) == [r EXCEPT !.state = "verifying"]
ActiveRow(r) ==
  [r EXCEPT !.prev = r.cfg, !.state = "active", !.enabled = TRUE, !.tx = NoTx]

\* The outcomes of an attempt: for each step that has one, which attempt of
\* which installation gets which state, and which row is to be committed.
LEMMA OutcomeFact ==
  ASSUME TypeOK, JobInv, CheckInv
  PROVE  /\ ApplyAck =>
              /\ job.inst \in Installs /\ job.tx \in Transactions
              /\ VerifyingRow(row[job.inst]) \in Rows
              /\ Decide(job.inst, job.tx, "verifying", VerifyingRow(row[job.inst]))
         /\ ApplyUncertain =>
              /\ job.inst \in Installs /\ job.tx \in Transactions
              /\ UncertainRow(row[job.inst], job.tx) \in Rows
              /\ Decide(job.inst, job.tx, "reconciling", UncertainRow(row[job.inst], job.tx))
         /\ ApplyReject =>
              /\ job.inst \in Installs /\ job.tx \in Transactions
              /\ FailedRow(row[job.inst]) \in Rows
              /\ Decide(job.inst, job.tx, "failed", FailedRow(row[job.inst]))
         /\ \A v \in Verifiers :
              /\ VerifyActivate(v) =>
                   /\ check[v].inst \in Installs /\ check[v].tx \in Transactions
                   /\ ActiveRow(row[check[v].inst]) \in Rows
                   /\ Decide(check[v].inst, check[v].tx, "active",
                             ActiveRow(row[check[v].inst]))
              /\ VerifyFail(v) =>
                   /\ check[v].inst \in Installs /\ check[v].tx \in Transactions
                   /\ FailedRow(row[check[v].inst]) \in Rows
                   /\ Decide(check[v].inst, check[v].tx, "failed",
                             FailedRow(row[check[v].inst]))
<1>1. \A r \in Rows, t \in Transactions :
        /\ VerifyingRow(r) \in Rows /\ ActiveRow(r) \in Rows
        /\ FailedRow(r) \in Rows /\ UncertainRow(r, t) \in Rows
  <2> SUFFICES ASSUME NEW r \in Rows, NEW t \in Transactions
               PROVE  /\ VerifyingRow(r) \in Rows /\ ActiveRow(r) \in Rows
                      /\ FailedRow(r) \in Rows /\ UncertainRow(r, t) \in Rows
    OBVIOUS
  <2> USE DEF Rows, RowStates, MaybeConfig, MaybeTx
  <2>1. VerifyingRow(r) \in Rows /\ ActiveRow(r) \in Rows
    BY DEF VerifyingRow, ActiveRow
  <2>2. FailedRow(r) \in Rows /\ UncertainRow(r, t) \in Rows
    BY DEF FailedRow, UncertainRow
  <2> QED BY <2>1, <2>2
<1>2. ASSUME ApplyAck \/ ApplyUncertain \/ ApplyReject
      PROVE  job.inst \in Installs /\ job.tx \in Transactions /\ row[job.inst] \in Rows
  BY <1>2, TargetFact DEF ApplyAck, ApplyUncertain, ApplyReject
<1>3. ASSUME NEW v \in Verifiers, VerifyActivate(v) \/ VerifyFail(v)
      PROVE  /\ check[v].inst \in Installs /\ check[v].tx \in Transactions
             /\ row[check[v].inst] \in Rows
  BY <1>3, TargetFact DEF VerifyActivate, VerifyFail
<1>4. ApplyAck => Decide(job.inst, job.tx, "verifying", VerifyingRow(row[job.inst]))
  BY DEF ApplyAck, VerifyingRow
<1>5. ApplyUncertain =>
        Decide(job.inst, job.tx, "reconciling", UncertainRow(row[job.inst], job.tx))
  BY DEF ApplyUncertain, Uncertain
<1>6. ApplyReject => Decide(job.inst, job.tx, "failed", FailedRow(row[job.inst]))
  BY DEF ApplyReject, Fail
<1>7. \A v \in Verifiers : VerifyActivate(v) =>
        Decide(check[v].inst, check[v].tx, "active", ActiveRow(row[check[v].inst]))
  BY DEF VerifyActivate, ActiveRow
<1>8. \A v \in Verifiers : VerifyFail(v) =>
        Decide(check[v].inst, check[v].tx, "failed", FailedRow(row[check[v].inst]))
  BY DEF VerifyFail, Fail
<1> QED BY <1>1, <1>2, <1>3, <1>4, <1>5, <1>6, <1>7, <1>8

\* ApplyBegin hands out the next id and records the attempt under it.
LEMMA BeginFact ==
  ASSUME TypeOK, NEW i \in Installs, ApplyBegin(i)
  PROVE  /\ row' = row /\ issued' = issued + 1 /\ issued' \in Transactions
         /\ attempt' \in [Transactions ->
                            [state : AttemptStates, inst : MaybeInstall, cfg : MaybeConfig]]
         /\ attempt'[issued'] = [state |-> "applying", inst |-> i, cfg |-> row[i].cfg]
         /\ \A u \in Transactions : u # issued' => attempt'[u] = attempt[u]
         /\ pending' = [inst |-> pending'.inst, columns |-> pending'.columns]
         /\ pending'.inst = i /\ pending'.inst \in MaybeInstall
         /\ ColumnsOK(pending'.columns)
         /\ \A c \in Columns :
              /\ c \in DOMAIN pending'.columns <=> ApplyingRow(row[i], issued')[c] # row[i][c]
              /\ c \in DOMAIN pending'.columns =>
                   pending'.columns[c] = ApplyingRow(row[i], issued')[c]
         /\ job' = [stage |-> "device", inst |-> i, tx |-> issued', cfg |-> row[i].cfg]
         /\ row[i].cfg \in MaybeConfig
<1>1. issued' = issued + 1 /\ issued' \in Transactions
  BY AttemptsAssumption DEF ApplyBegin, TypeOK, Transactions
<1>2. row[i] \in Rows /\ row[i].cfg \in MaybeConfig
  BY RowFact DEF TypeOK
<1>3. ApplyingRow(row[i], issued') \in Rows
  BY <1>1, <1>2 DEF ApplyingRow, Rows, RowStates, MaybeTx
<1>4. pending' = Change(i, row[i], ApplyingRow(row[i], issued'))
  BY <1>1 DEF ApplyBegin, ApplyingRow
<1>5. attempt' = [attempt EXCEPT ![issued'] = [state |-> "applying", inst |-> i, cfg |-> row[i].cfg]]
  BY <1>1 DEF ApplyBegin
<1>6. /\ attempt' \in [Transactions ->
                         [state : AttemptStates, inst : MaybeInstall, cfg : MaybeConfig]]
      /\ attempt'[issued'] = [state |-> "applying", inst |-> i, cfg |-> row[i].cfg]
      /\ \A u \in Transactions : u # issued' => attempt'[u] = attempt[u]
  BY <1>1, <1>2, <1>5 DEF TypeOK, AttemptStates, MaybeInstall
<1>7. row' = row /\ job' = [stage |-> "device", inst |-> i, tx |-> issued', cfg |-> row[i].cfg]
  BY <1>1 DEF ApplyBegin
<1> DEFINE new == ApplyingRow(row[i], issued')
<1> HIDE DEF new
<1>8. /\ pending' = [inst |-> pending'.inst, columns |-> pending'.columns]
      /\ pending'.inst = i /\ pending'.inst \in MaybeInstall
      /\ ColumnsOK(pending'.columns)
      /\ \A c \in Columns : /\ c \in DOMAIN pending'.columns <=> new[c] # row[i][c]
                            /\ c \in DOMAIN pending'.columns => pending'.columns[c] = new[c]
  <2>1. new \in Rows /\ pending' = Change(i, row[i], new)
    BY <1>3, <1>4 DEF new
  <2> QED BY <1>2, <2>1, ChangeFact DEF MaybeInstall
<1> QED BY <1>1, <1>2, <1>6, <1>7, <1>8 DEF new

\* The steps of apply() keep every variable's type.
LEMMA TypeApply ==
  ASSUME TypeOK, JobInv, CheckInv
  PROVE  /\ \A i \in Installs : ApplyBegin(i) => TypeOK'
         /\ ApplySend \/ ApplyAck \/ ApplyVerify \/ ApplyUncertain \/ ApplyReject \/ ApplyAbort
              => TypeOK'
<1> USE DEF dbVars, taskVars, nodeVars, histVars
<1>1. ASSUME NEW i \in Installs, ApplyBegin(i) PROVE TypeOK'
  <2>1. job' \in [stage : {"idle", "device", "acked", "verify"}, inst : MaybeInstall,
                  tx : MaybeTx, cfg : MaybeConfig]
    <3>1. /\ job' = [stage |-> "device", inst |-> i, tx |-> issued', cfg |-> row[i].cfg]
          /\ row[i].cfg \in MaybeConfig /\ issued' \in Transactions
      BY <1>1, BeginFact
    <3> QED BY <3>1 DEF MaybeInstall, MaybeTx
  <2>2. issued' \in 0 .. MaxAttempts
    <3>1. issued' \in Transactions
      BY <1>1, BeginFact
    <3> QED BY <3>1 DEF Transactions
  <2> QED BY <1>1, <2>1, <2>2, BeginFact DEF TypeOK, ApplyBegin
<1>2. NoJob \in [stage : {"idle", "device", "acked", "verify"}, inst : MaybeInstall,
                 tx : MaybeTx, cfg : MaybeConfig]
  BY DEF NoJob, MaybeInstall, MaybeTx, MaybeConfig
<1>3. ASSUME ApplySend PROVE TypeOK'
  BY <1>3 DEF ApplySend, SendProv, TypeOK
<1>4. ASSUME ApplyAck PROVE TypeOK'
  <2>1. verified' \in [Transactions -> MaybeConfig]
    BY <1>4 DEF ApplyAck, TypeOK
  <2>2. job' \in [stage : {"idle", "device", "acked", "verify"}, inst : MaybeInstall,
                  tx : MaybeTx, cfg : MaybeConfig]
    BY <1>4 DEF ApplyAck, TypeOK
  <2>3. PICK new \in Rows : job.inst \in Installs /\ job.tx \in Transactions
                              /\ Decide(job.inst, job.tx, "verifying", new)
    BY <1>4, OutcomeFact
  <2>4. "verifying" \in AttemptStates
    BY DEF AttemptStates
  <2> QED BY <1>4, <2>1, <2>2, <2>3, <2>4, DecideFact DEF TypeOK, ApplyAck
<1>5. ASSUME ApplyVerify PROVE TypeOK'
  <2>1. CASE row[job.inst].tx = NoTx
    BY <1>2, <1>5, <2>1 DEF ApplyVerify, TypeOK
  <2>2. CASE row[job.inst].tx # NoTx
    <3>1. row[job.inst] \in Rows /\ job.inst \in Installs
      BY <1>5, TargetFact DEF ApplyVerify
    <3>2. row[job.inst].tx \in MaybeTx /\ row[job.inst].cfg \in MaybeConfig
      BY <3>1, RowFact
    <3>3. check' \in [Verifiers -> [inst : MaybeInstall, tx : MaybeTx, requested : MaybeConfig]]
      BY <1>5, <2>2, <3>1, <3>2 DEF ApplyVerify, VerifyRead, TypeOK, MaybeInstall
    <3>4. job' \in [stage : {"idle", "device", "acked", "verify"}, inst : MaybeInstall,
                    tx : MaybeTx, cfg : MaybeConfig]
      BY <1>5, <2>2 DEF ApplyVerify, TypeOK
    <3> QED BY <1>5, <2>2, <3>3, <3>4 DEF ApplyVerify, TypeOK
  <2> QED BY <2>1, <2>2
<1>6. ASSUME ApplyUncertain PROVE TypeOK'
  <2>1. PICK new \in Rows : job.inst \in Installs /\ job.tx \in Transactions
                              /\ Decide(job.inst, job.tx, "reconciling", new)
    BY <1>6, OutcomeFact
  <2>2. "reconciling" \in AttemptStates
    BY DEF AttemptStates
  <2> QED BY <1>2, <1>6, <2>1, <2>2, DecideFact DEF TypeOK, ApplyUncertain
<1>7. ASSUME ApplyReject PROVE TypeOK'
  <2>1. PICK new \in Rows : job.inst \in Installs /\ job.tx \in Transactions
                              /\ Decide(job.inst, job.tx, "failed", new)
    BY <1>7, OutcomeFact
  <2>2. "failed" \in AttemptStates
    BY DEF AttemptStates
  <2> QED BY <1>2, <1>7, <2>1, <2>2, DecideFact DEF TypeOK, ApplyReject
<1>8. ASSUME ApplyAbort PROVE TypeOK'
  BY <1>2, <1>8 DEF ApplyAbort, TypeOK
<1> QED BY <1>1, <1>3, <1>4, <1>5, <1>6, <1>7, <1>8

\* The steps on the node's configuration and the commands to it.
NodeWrite ==
  \/ \E c \in Configs : ProvisionElsewhere(c) \/ Configure(c) \/ LocalConfigure(c)
  \/ NodeProvisions \/ NodeConfigures \/ CommandLost \/ NodeReset

\* What they do: the configuration stays, a PROV command gives one to a node
\* that has none, or another writer overrules the attempts so far; no command
\* of an attempt is sent.
LEMMA NodeWriteFact ==
  ASSUME TypeOK, NodeWrite
  PROVE  /\ UNCHANGED <<dbVars, taskVars, histVars>>
         /\ \/ UNCHANGED <<device, origin, touched>>
            \/ /\ device = None /\ inflight.kind = "PROV" /\ touched' = touched
               /\ device' = inflight.cfg /\ origin' = inflight.tx
            \/ /\ device' \in MaybeConfig /\ origin' = NoTx
               /\ touched' = touched \cup {t \in Transactions : verified[t] # None}
         /\ \/ inflight' = inflight
            \/ /\ inflight'.tx = NoTx
               /\ inflight' \in [kind : {"none", "PROV", "CFGSET"}, cfg : MaybeConfig, tx : MaybeTx]
<1> USE DEF MaybeConfig, MaybeTx, NoCommand
<1>1. ASSUME NEW c \in Configs, ProvisionElsewhere(c) \/ Configure(c)
      PROVE  /\ UNCHANGED <<dbVars, taskVars, histVars, device, origin, touched>>
             /\ inflight'.tx = NoTx
             /\ inflight' \in [kind : {"none", "PROV", "CFGSET"}, cfg : MaybeConfig, tx : MaybeTx]
  BY <1>1 DEF ProvisionElsewhere, Configure, SendProv
<1>2. ASSUME NEW c \in Configs, LocalConfigure(c)
      PROVE  /\ UNCHANGED <<dbVars, taskVars, histVars, inflight>>
             /\ device' = c /\ origin' = NoTx
             /\ touched' = touched \cup {t \in Transactions : verified[t] # None}
  BY <1>2 DEF LocalConfigure, Overrule
<1>3. ASSUME NodeReset
      PROVE  /\ UNCHANGED <<dbVars, taskVars, histVars, inflight>>
             /\ device' = None /\ origin' = NoTx
             /\ touched' = touched \cup {t \in Transactions : verified[t] # None}
  BY <1>3 DEF NodeReset, Overrule
<1>4. inflight.cfg \in MaybeConfig
  BY DEF TypeOK
<1>5. ASSUME NodeProvisions \/ NodeConfigures \/ CommandLost
      PROVE  /\ UNCHANGED <<dbVars, taskVars, histVars>>
             /\ \/ UNCHANGED <<device, origin, touched>>
                \/ /\ device = None /\ inflight.kind = "PROV" /\ touched' = touched
                   /\ device' = inflight.cfg /\ origin' = inflight.tx
                \/ /\ device' = inflight.cfg /\ origin' = NoTx
                   /\ touched' = touched \cup {t \in Transactions : verified[t] # None}
             /\ inflight' = NoCommand
  BY <1>5 DEF NodeProvisions, NodeConfigures, CommandLost, Overrule
<1>6. inflight' = NoCommand =>
        /\ inflight'.tx = NoTx
        /\ inflight' \in [kind : {"none", "PROV", "CFGSET"}, cfg : MaybeConfig, tx : MaybeTx]
  OBVIOUS
<1> QED BY <1>1, <1>2, <1>3, <1>4, <1>5, <1>6 DEF NodeWrite

\* verify(), the node and a restart keep every variable's type.
LEMMA TypeVerify ==
  ASSUME TypeOK, ShapeInv, JobInv, CheckInv
  PROVE  /\ \A i \in Installs : VerifyBegin(i) => TypeOK'
         /\ \A v \in Verifiers : VerifyActivate(v) \/ VerifyFail(v) => TypeOK'
         /\ NodeWrite \/ Restart => TypeOK'
<1> USE DEF dbVars, taskVars, nodeVars, histVars
<1>1. NoJob \in [stage : {"idle", "device", "acked", "verify"}, inst : MaybeInstall,
                 tx : MaybeTx, cfg : MaybeConfig]
  BY DEF NoJob, MaybeInstall, MaybeTx, MaybeConfig
<1>2. NoCheck \in [inst : MaybeInstall, tx : MaybeTx, requested : MaybeConfig]
  BY DEF NoCheck, MaybeInstall, MaybeTx, MaybeConfig
<1>3. ASSUME NEW i \in Installs, VerifyBegin(i) PROVE TypeOK'
  <2>1. row[i] \in Rows
    BY DEF TypeOK
  <2>2. row[i].tx \in MaybeTx /\ row[i].cfg \in MaybeConfig
    BY <2>1, RowFact
  <2>3. check' \in [Verifiers -> [inst : MaybeInstall, tx : MaybeTx, requested : MaybeConfig]]
    BY <1>3, <2>2 DEF VerifyBegin, VerifyRead, TypeOK, MaybeInstall
  <2> QED BY <1>3, <2>3 DEF VerifyBegin, TypeOK
<1>4. ASSUME NEW v \in Verifiers, VerifyActivate(v) \/ VerifyFail(v) PROVE TypeOK'
  <2>1. PICK i \in Installs, t \in Transactions, s \in AttemptStates, new \in Rows :
          Decide(i, t, s, new)
    BY <1>4, OutcomeFact DEF AttemptStates
  <2>2. check' \in [Verifiers -> [inst : MaybeInstall, tx : MaybeTx, requested : MaybeConfig]]
    BY <1>2, <1>4 DEF VerifyActivate, VerifyFail, VerifyDone, TypeOK
  <2>3. job' \in [stage : {"idle", "device", "acked", "verify"}, inst : MaybeInstall,
                  tx : MaybeTx, cfg : MaybeConfig]
    BY <1>1, <1>4 DEF VerifyActivate, VerifyFail, VerifyDone, TypeOK
  <2>4. activated' \subseteq Installs
    <3>1. VerifyActivate(v) => check[v].inst \in Installs /\ activated' = activated \cup {check[v].inst}
      BY OutcomeFact DEF VerifyActivate
    <3>2. VerifyFail(v) => activated' = activated
      BY DEF VerifyFail
    <3> QED BY <1>4, <3>1, <3>2 DEF TypeOK
  <2>5. UNCHANGED <<batch, request, verified, nodeVars, waived, cut>>
    BY <1>4 DEF VerifyActivate, VerifyFail, VerifyDone
  <2> QED BY <2>1, <2>2, <2>3, <2>4, <2>5, DecideFact DEF TypeOK
<1>5. ASSUME NodeWrite PROVE TypeOK'
  <2>1. UNCHANGED <<dbVars, taskVars, histVars>>
    BY <1>5, NodeWriteFact
  <2>2. /\ device' \in MaybeConfig /\ origin' \in MaybeTx /\ touched' \subseteq Transactions
        /\ inflight' \in [kind : {"none", "PROV", "CFGSET"}, cfg : MaybeConfig, tx : MaybeTx]
    BY <1>5, NodeWriteFact DEF TypeOK, MaybeTx
  <2> QED BY <2>1, <2>2 DEF TypeOK
<1>6. ASSUME Restart PROVE TypeOK'
  <2>1. cut' \subseteq Installs
    BY <1>6, NoChangeFact DEF Restart, TypeOK, ShapeInv, ChangeInv
  <2>2. /\ check' \in [Verifiers -> [inst : MaybeInstall, tx : MaybeTx, requested : MaybeConfig]]
        /\ verified' \in [Transactions -> MaybeConfig]
    BY <1>2, <1>6 DEF Restart, MaybeConfig
  <2> QED BY <1>1, <1>6, <2>1, <2>2, NoChangeFact, NoBatchFact DEF Restart, TypeOK, MaybeInstall
<1> QED BY <1>3, <1>4, <1>5, <1>6

-----------------------------------------------------------------------------
(* Changes                                                                 *)

\* What the endpoints that change an existing installation have in common.
RequestStep == \E i \in Installs :
                 (\E c \in Configs : Patch(i, c)) \/ Disable(i) \/ Archive(i) \/ UpgradeProfile(i)

\* They leave active_transaction_id alone, set the state to ready_to_apply or
\* disabled if at all, and only upgrade-profile gives a dormant installation a
\* previous configuration.
LEMMA RequestFact ==
  ASSUME TypeOK, RequestStep
  PROVE  \E i \in Installs, new \in Rows :
           /\ RequestRead(i, new)
           /\ waived' = waived \/ waived' = waived \cup {i}
           /\ new.tx = row[i].tx
           /\ new.state \in {row[i].state, "ready_to_apply", "disabled"}
           /\ i \in waived' \/ (Dormant(row[i]) => Dormant(new))
<1>1. PICK i \in Installs :
        (\E c \in Configs : Patch(i, c)) \/ Disable(i) \/ Archive(i) \/ UpgradeProfile(i)
  BY DEF RequestStep
<1>2. row[i] \in Rows
  BY DEF TypeOK
<1> DEFINE Good(new) == /\ new \in Rows
                        /\ new.tx = row[i].tx
                        /\ new.state \in {row[i].state, "ready_to_apply", "disabled"}
<1>3. \A c \in Configs : Good(Patched(row[i], c))
                          /\ (Dormant(row[i]) => Dormant(Patched(row[i], c)))
  BY <1>2 DEF Rows, RowStates, MaybeConfig, Patched, Dormant
<1>4. /\ Good(Disabled(row[i])) /\ (Dormant(row[i]) => Dormant(Disabled(row[i])))
      /\ Good(Archived(row[i])) /\ (Dormant(row[i]) => Dormant(Archived(row[i])))
  BY <1>2 DEF Rows, RowStates, MaybeConfig, Disabled, Archived, Dormant
<1>5. Good(Upgraded(row[i]))
  BY <1>2 DEF Rows, RowStates, MaybeConfig, Upgraded
<1>6. ASSUME NEW c \in Configs, Patch(i, c)
      PROVE  RequestRead(i, Patched(row[i], c)) /\ waived' = waived
  BY <1>6 DEF Patch
<1>7. Disable(i) => RequestRead(i, Disabled(row[i])) /\ waived' = waived
  BY DEF Disable
<1>8. Archive(i) => RequestRead(i, Archived(row[i])) /\ waived' = waived
  BY DEF Archive
<1>9. UpgradeProfile(i) => RequestRead(i, Upgraded(row[i])) /\ waived' = waived \cup {i}
  BY DEF UpgradeProfile
<1>10. ASSUME NEW c \in Configs, Patch(i, c)
       PROVE  \E new \in Rows :
                /\ RequestRead(i, new) /\ waived' = waived
                /\ Good(new) /\ (Dormant(row[i]) => Dormant(new))
  BY <1>3, <1>6, <1>10
<1> HIDE DEF Good
<1>11. \E new : /\ RequestRead(i, new)
                /\ waived' = waived \/ waived' = waived \cup {i}
                /\ Good(new)
                /\ i \in waived' \/ (Dormant(row[i]) => Dormant(new))
  BY <1>1, <1>4, <1>5, <1>7, <1>8, <1>9, <1>10
<1> QED BY <1>11 DEF Good

\* The change such a request waits to commit.
LEMMA RequestChangeFact ==
  ASSUME TypeOK, NEW i \in Installs, NEW new \in Rows, RequestRead(i, new)
  PROVE  /\ request'.inst = i /\ request' # NoChange /\ row[i].state # "none"
         /\ \A c \in Columns : /\ c \in DOMAIN request'.columns <=> new[c] # row[i][c]
                               /\ c \in DOMAIN request'.columns => request'.columns[c] = new[c]
         /\ UNCHANGED <<row, attempt, issued, job, check, pending, batch, verified, nodeVars,
                        activated, cut>>
<1>1. row[i] \in Rows
  BY DEF TypeOK
<1>2. request' = Change(i, row[i], new) /\ row[i].state # "none"
  BY DEF RequestRead, Exists
<1>3. i # None
  BY NoneAssumption
<1> QED BY <1>1, <1>2, <1>3, ChangeFact, NoChangeFact DEF RequestRead, dbVars, nodeVars

\* The change validate() waits to commit.
LEMMA ValidateFact ==
  ASSUME TypeOK, NEW i \in Installs, NEW valid \in BOOLEAN, ValidateBegin(i, valid)
  PROVE  /\ row[i].state # "none" /\ row'[i].state = "validating"
         /\ \A c \in Columns \ {"state"} : row'[i][c] = row[i][c]
         /\ \A j \in Installs \ {i} : row'[j] = row[j]
         /\ pending'.inst = i
         /\ "state" \in DOMAIN pending'.columns
         /\ pending'.columns["state"] \in {"ready_to_apply", "failed"}
         /\ "tx" \notin DOMAIN pending'.columns
         /\ "prev" \notin DOMAIN pending'.columns
         /\ "enabled" \in DOMAIN pending'.columns => pending'.columns["enabled"] = FALSE
         /\ UNCHANGED <<attempt, issued, job, check, batch, request, verified, nodeVars,
                        activated, waived, cut>>
<1> DEFINE r == row'[i]
           new == IF valid THEN [r EXCEPT !.state = "ready_to_apply"]
                           ELSE [r EXCEPT !.state = "failed", !.enabled = FALSE]
<1>1. row[i] \in Rows
  BY DEF TypeOK
<1>2. r = [row[i] EXCEPT !.state = "validating"] /\ \A j \in Installs \ {i} : row'[j] = row[j]
  BY DEF TypeOK, ValidateBegin
<1>3. r \in Rows /\ r.state = "validating" /\ \A c \in Columns \ {"state"} : r[c] = row[i][c]
  BY <1>1, <1>2 DEF Rows, RowStates, Columns
<1>4. new \in Rows
  BY <1>3 DEF Rows, RowStates
<1>5. /\ new.state \in {"ready_to_apply", "failed"} /\ new.tx = r.tx /\ new.prev = r.prev
      /\ new.enabled # r.enabled => new.enabled = FALSE
  BY <1>3 DEF Rows
<1>6. pending' = Change(i, r, new)
  BY DEF ValidateBegin
<1>7. row[i].state # "none"
  BY DEF ValidateBegin, Live, Exists
<1> HIDE DEF r, new
<1>8. /\ pending'.inst = i
      /\ \A c \in Columns : /\ c \in DOMAIN pending'.columns <=> new[c] # r[c]
                            /\ c \in DOMAIN pending'.columns => pending'.columns[c] = new[c]
  BY <1>3, <1>4, <1>6, ChangeFact
<1>9. /\ "state" \in DOMAIN pending'.columns
      /\ pending'.columns["state"] \in {"ready_to_apply", "failed"}
      /\ "tx" \notin DOMAIN pending'.columns
      /\ "prev" \notin DOMAIN pending'.columns
      /\ "enabled" \in DOMAIN pending'.columns => pending'.columns["enabled"] = FALSE
  BY <1>3, <1>5, <1>8 DEF Columns
<1> QED
  BY <1>2, <1>3, <1>7, <1>8, <1>9 DEF ValidateBegin, nodeVars, histVars, r

\* The columns of the rows that coroutines commit.
LEMMA OutcomeRowFact ==
  ASSUME NEW r \in Rows, NEW t \in Transactions
  PROVE  /\ ApplyingRow(r, t).state = "applying" /\ ApplyingRow(r, t).tx = t
         /\ ApplyingRow(r, t).enabled = FALSE /\ ApplyingRow(r, t).prev = r.prev
         /\ VerifyingRow(r).state = "verifying" /\ VerifyingRow(r).tx = r.tx
         /\ VerifyingRow(r).enabled = r.enabled /\ VerifyingRow(r).prev = r.prev
         /\ ActiveRow(r).state = "active" /\ ActiveRow(r).tx = NoTx
         /\ FailedRow(r).state \in {"active", "failed"} /\ FailedRow(r).tx = NoTx
         /\ UncertainRow(r, t).state \in {"active", "reconciling"} /\ UncertainRow(r, t).tx = t
         /\ r.prev = None =>
              /\ FailedRow(r).state = "failed" /\ FailedRow(r).enabled = FALSE
              /\ FailedRow(r).prev = None
              /\ UncertainRow(r, t).state = "reconciling" /\ UncertainRow(r, t).enabled = FALSE
              /\ UncertainRow(r, t).prev = None
  BY DEF Rows, ApplyingRow, VerifyingRow, ActiveRow, FailedRow, UncertainRow

\* The steps that decide something about an attempt.
OutcomeStep ==
  \/ ApplyAck \/ ApplyUncertain \/ ApplyReject
  \/ \E v \in Verifiers : VerifyActivate(v) \/ VerifyFail(v)

\* What the next commit will make of an outcome, for every installation.
LEMMA OutcomePending ==
  ASSUME TypeOK, NEW i \in Installs, NEW t \in Transactions, NEW state \in AttemptStates,
         NEW new \in Rows, Decide(i, t, state, new)
  PROVE  /\ AfterTx(i)' = new.tx /\ AfterState(i)' = new.state
         /\ \A j \in Installs \ {i} : AfterTx(j)' = row[j].tx /\ AfterState(j)' = row[j].state
  BY DecideFact DEF AfterTx, AfterState, Columns

\* Nothing is pending when a coroutine gets its turn.
LEMMA FreeFact ==
  ASSUME TypeOK, pending = NoChange
  PROVE  \A i \in Installs : AfterTx(i) = row[i].tx /\ AfterState(i) = row[i].state
  BY NoChangeFact DEF AfterTx, AfterState

\* An attempt t of installation i gets a state, and row new is to be committed.
Outcome(i, t, state, new) ==
  /\ Decide(i, t, state, new)
  /\ Exists(i) /\ attempt[t].inst = i
  /\ \/ ApplyAck /\ i = job.inst /\ t = job.tx
        /\ state = "verifying" /\ new = VerifyingRow(row[i])
     \/ ApplyUncertain /\ i = job.inst /\ t = job.tx
        /\ state = "reconciling" /\ new = UncertainRow(row[i], t)
     \/ /\ ApplyReject \/ \E v \in Verifiers : VerifyFail(v)
        /\ state = "failed" /\ new = FailedRow(row[i])
     \/ /\ \E v \in Verifiers : VerifyActivate(v) /\ check[v].inst = i /\ check[v].tx = t
        /\ state = "active" /\ new = ActiveRow(row[i])

\* An outcome concerns an installation that exists and an attempt of its own,
\* and comes when nothing is pending.
LEMMA OutcomeTarget ==
  ASSUME TypeOK, JobInv, CheckInv, OutcomeStep
  PROVE  /\ pending = NoChange
         /\ UNCHANGED <<row, issued, batch, request, nodeVars, waived, cut>>
         /\ \E i \in Installs, t \in Transactions, state \in AttemptStates, new \in Rows :
              Outcome(i, t, state, new)
<1>1. pending = NoChange
  BY DEF OutcomeStep, ApplyAck, ApplyUncertain, ApplyReject, VerifyActivate, VerifyFail, LoopFree
<1>2. UNCHANGED <<row, issued, batch, request, nodeVars, waived, cut>>
  BY DEF OutcomeStep, ApplyAck, ApplyUncertain, ApplyReject, VerifyActivate, VerifyFail,
         VerifyDone, Fail, Uncertain, Decide, nodeVars, histVars
<1>3. {"verifying", "reconciling", "failed", "active"} \subseteq AttemptStates
  BY DEF AttemptStates
<1>4. ASSUME ApplyAck \/ ApplyUncertain \/ ApplyReject
      PROVE  Exists(job.inst) /\ attempt[job.tx].inst = job.inst
  BY <1>4 DEF ApplyAck, ApplyUncertain, ApplyReject, JobInv
<1>5. ASSUME NEW v \in Verifiers, VerifyActivate(v) \/ VerifyFail(v)
      PROVE  Exists(check[v].inst) /\ attempt[check[v].tx].inst = check[v].inst
  BY <1>5 DEF VerifyActivate, VerifyFail, CheckInv
<1>6. ApplyAck => /\ VerifyingRow(row[job.inst]) \in Rows
                  /\ job.inst \in Installs /\ job.tx \in Transactions
                  /\ Outcome(job.inst, job.tx, "verifying", VerifyingRow(row[job.inst]))
  BY <1>4, OutcomeFact DEF Outcome
<1>7. ApplyUncertain => /\ UncertainRow(row[job.inst], job.tx) \in Rows
                        /\ job.inst \in Installs /\ job.tx \in Transactions
                        /\ Outcome(job.inst, job.tx, "reconciling", UncertainRow(row[job.inst], job.tx))
  BY <1>4, OutcomeFact DEF Outcome
<1>8. ApplyReject => /\ FailedRow(row[job.inst]) \in Rows
                     /\ job.inst \in Installs /\ job.tx \in Transactions
                     /\ Outcome(job.inst, job.tx, "failed", FailedRow(row[job.inst]))
  BY <1>4, OutcomeFact DEF Outcome
<1>9. \A v \in Verifiers : VerifyActivate(v) =>
        /\ ActiveRow(row[check[v].inst]) \in Rows
        /\ check[v].inst \in Installs /\ check[v].tx \in Transactions
        /\ Outcome(check[v].inst, check[v].tx, "active", ActiveRow(row[check[v].inst]))
  BY <1>5, OutcomeFact DEF Outcome
<1>10. \A v \in Verifiers : VerifyFail(v) =>
        /\ FailedRow(row[check[v].inst]) \in Rows
        /\ check[v].inst \in Installs /\ check[v].tx \in Transactions
        /\ Outcome(check[v].inst, check[v].tx, "failed", FailedRow(row[check[v].inst]))
  BY <1>5, OutcomeFact DEF Outcome
<1>11. \E i \in Installs, t \in Transactions, state \in AttemptStates, new \in Rows :
         Outcome(i, t, state, new)
  BY <1>3, <1>6, <1>7, <1>8, <1>9, <1>10 DEF OutcomeStep
<1> QED BY <1>1, <1>2, <1>11

\* The steps that neither write a row or an attempt nor prepare such a write.
QuietStep ==
  \/ ApplyVerify \/ ApplyAbort \/ \E i \in Installs : VerifyBegin(i)
  \/ ApplySend \/ NodeWrite

\* The steps that load every installation to change it.
LoadStep == RemoveNode \/ RestoreNode

\* What they leave to commit: three columns, and a dormant installation stays
\* dormant unless it is restored.
LEMMA LoadFact ==
  ASSUME TypeOK, LoadStep
  PROVE  /\ UNCHANGED <<dbVars, job, check, pending, request, verified, nodeVars, activated, cut>>
         /\ waived \subseteq waived' /\ waived' \subseteq Installs
         /\ pending = NoChange
         /\ batch' = [i \in Installs |-> batch'[i]]
         /\ \A i \in Installs : /\ ColumnsOK(batch'[i]) /\ BatchInv(batch'[i], Exists(i))
                                /\ i \notin waived' => Dormant(batch'[i])
<1>1. PICK new : /\ LoadAll(new)
                 /\ \/ new = [i \in Installs |-> Removed(row[i])] /\ waived' = waived
                    \/ /\ new = [i \in Installs |-> Restored(row[i])]
                       /\ waived' = waived \cup {i \in Installs : Exists(i)}
  BY DEF LoadStep, RemoveNode, RestoreNode
<1>2. waived \subseteq waived' /\ waived' \subseteq Installs
  BY <1>1 DEF TypeOK
<1>3. /\ pending = NoChange
      /\ UNCHANGED <<dbVars, job, check, pending, request, verified, nodeVars, activated, cut>>
      /\ batch' = [i \in Installs |->
                     IF Exists(i) THEN Change(i, row[i], new[i]).columns ELSE <<>>]
  BY <1>1 DEF LoadAll, LoopFree
<1>4. ASSUME NEW i \in Installs
      PROVE  /\ ColumnsOK(batch'[i]) /\ BatchInv(batch'[i], Exists(i))
             /\ i \notin waived' => Dormant(batch'[i])
  <2>1. CASE ~Exists(i)
    <3>1. batch'[i] = <<>>
      BY <1>3, <2>1
    <3> QED BY <3>1 DEF ColumnsOK, BatchInv, Dormant
  <2>2. CASE Exists(i)
    <3>1. row[i] \in Rows /\ batch'[i] = Change(i, row[i], new[i]).columns
      BY <1>3, <2>2 DEF TypeOK
    <3>2. \/ new[i] = Removed(row[i])
          \/ new[i] = Restored(row[i]) /\ i \in waived'
      BY <1>1, <2>2
    <3>3. /\ new[i] \in Rows
          /\ new[i].cfg = row[i].cfg /\ new[i].prev = row[i].prev /\ new[i].tx = row[i].tx
          /\ new[i].state \in {"active", "removed"}
          /\ i \notin waived' => new[i].enabled = FALSE /\ new[i].state = "removed"
      BY <3>1, <3>2 DEF Rows, RowStates, Removed, Restored
    <3>4. /\ ColumnsOK(batch'[i])
          /\ \A c \in Columns : /\ c \in DOMAIN batch'[i] <=> new[i][c] # row[i][c]
                                /\ c \in DOMAIN batch'[i] => batch'[i][c] = new[i][c]
      BY <3>1, <3>3, ChangeFact
    <3>5. DOMAIN batch'[i] \subseteq Columns
      BY <3>1, <3>4, RowFact DEF ColumnsOK
    <3>6. BatchInv(batch'[i], Exists(i))
      BY <2>2, <3>3, <3>4, <3>5 DEF BatchInv, Columns
    <3>7. i \notin waived' => Dormant(batch'[i])
      BY <3>3, <3>4 DEF Dormant, Columns
    <3> QED BY <3>4, <3>6, <3>7
  <2> QED BY <2>1, <2>2
<1> QED BY <1>2, <1>3, <1>4

\* What the commit of all of them does.
LEMMA BatchFact ==
  ASSUME TypeOK, BatchCommit
  PROVE  /\ row' \in [Installs -> Rows] /\ batch' = NoBatch
         /\ \A i \in Installs, c \in Columns :
              row'[i][c] = IF c \in DOMAIN batch[i] THEN batch[i][c] ELSE row[i][c]
         /\ UNCHANGED <<attempt, issued, job, check, pending, request, verified, nodeVars, histVars>>
<1>1. \A i \in Installs : row[i] \in Rows /\ ColumnsOK(batch[i])
  BY DEF TypeOK
<1>2. row' = [i \in Installs |-> Merge(row[i], batch[i])]
  BY DEF BatchCommit
<1>3. \A i \in Installs : /\ Merge(row[i], batch[i]) \in Rows
                          /\ \A c \in Columns : Merge(row[i], batch[i])[c] =
                               IF c \in DOMAIN batch[i] THEN batch[i][c] ELSE row[i][c]
  BY <1>1, MergeFact
<1> QED BY <1>2, <1>3 DEF BatchCommit

\* The kinds of step.
LEMMA StepCases ==
  ASSUME [Next]_vars
  PROVE  \/ \E i \in Installs, c \in Configs : Create(i, c)
         \/ RequestStep \/ RequestCommit \/ LoopCommit \/ LoadStep \/ BatchCommit
         \/ \E i \in Installs, valid \in BOOLEAN : ValidateBegin(i, valid)
         \/ \E i \in Installs : ApplyBegin(i)
         \/ OutcomeStep \/ QuietStep \/ Restart \/ UNCHANGED vars
<1>1. {"apply", "api"} \subseteq Verifiers
  BY DEF Verifiers
<1> QED
  BY <1>1 DEF Next, Requests, ApplyStep, NodeStep, RequestStep, OutcomeStep, QuietStep, NodeWrite,
              LoadStep

\* What a quiet step leaves alone, and what it does to the running apply().
LEMMA QuietFact ==
  ASSUME TypeOK, QuietStep
  PROVE  /\ UNCHANGED <<row, attempt, issued, pending, batch, request, verified, activated,
                        waived, cut>>
         /\ \/ job' = job
            \/ job' = NoJob
            \/ job.stage = "acked" /\ job' = [job EXCEPT !.stage = "verify"]
<1> USE DEF dbVars, taskVars, nodeVars, histVars
<1> DEFINE same == UNCHANGED <<row, attempt, issued, pending, batch, request, verified,
                               activated, waived, cut>>
<1>1. (ApplyVerify => same) /\ (ApplyAbort => same) /\ \A i \in Installs : VerifyBegin(i) => same
  BY DEF ApplyVerify, ApplyAbort, VerifyBegin
<1>2. ApplySend \/ NodeWrite => same /\ job' = job
  BY NodeWriteFact DEF ApplySend
<1>3. \/ job' = job
      \/ job' = NoJob
      \/ job.stage = "acked" /\ job' = [job EXCEPT !.stage = "verify"]
  BY <1>2 DEF QuietStep, ApplyVerify, ApplyAbort, VerifyBegin
<1> QED BY <1>1, <1>2, <1>3 DEF QuietStep

\* What a restart leaves.
LEMMA RestartFact ==
  ASSUME TypeOK, Restart
  PROVE  /\ UNCHANGED <<row, attempt, issued, device, inflight, origin, activated, waived>>
         /\ job' = NoJob /\ pending' = NoChange /\ batch' = NoBatch /\ request' = NoChange
         /\ \A v \in Verifiers : check'[v] = NoCheck
         /\ \A t \in Transactions : verified'[t] = None
         /\ cut' = IF "tx" \in DOMAIN pending.columns THEN cut \cup {pending.inst} ELSE cut
  BY DEF Restart, dbVars

\* Type correctness is preserved by every step.
LEMMA TypeStep ==
  ASSUME TypeOK, ShapeInv, JobInv, CheckInv, [Next]_vars
  PROVE  TypeOK'
<1>1. ASSUME NEW i \in Installs, NEW c \in Configs, Create(i, c) PROVE TypeOK'
  BY <1>1, TypeRequest
<1>2. ASSUME RequestStep PROVE TypeOK'
  <2>1. PICK i \in Installs, new \in Rows :
          RequestRead(i, new) /\ (waived' = waived \/ waived' = waived \cup {i})
    BY <1>2, RequestFact
  <2>2. waived' \subseteq Installs
    BY <2>1 DEF TypeOK
  <2> QED BY <2>1, <2>2, TypeRequest
<1>3. RequestCommit \/ LoopCommit => TypeOK'
  BY TypeRequest
<1>4. ASSUME NEW i \in Installs, NEW valid \in BOOLEAN, ValidateBegin(i, valid) PROVE TypeOK'
  BY <1>4, TypeRequest
<1>5. ASSUME NEW i \in Installs, ApplyBegin(i) PROVE TypeOK'
  BY <1>5, TypeApply
<1>6. OutcomeStep => TypeOK'
  BY TypeApply, TypeVerify DEF OutcomeStep
<1>7. QuietStep => TypeOK'
  BY TypeApply, TypeVerify DEF QuietStep
<1>8. Restart => TypeOK'
  BY TypeVerify
<1>9. ASSUME UNCHANGED vars PROVE TypeOK'
  BY <1>9 DEF vars, dbVars, taskVars, nodeVars, histVars, TypeOK
<1>10. ASSUME LoadStep PROVE TypeOK'
  <2>1. /\ UNCHANGED <<dbVars, job, check, pending, request, verified, nodeVars, activated, cut>>
        /\ waived' \subseteq Installs
        /\ batch' = [i \in Installs |-> batch'[i]] /\ \A i \in Installs : ColumnsOK(batch'[i])
    BY <1>10, LoadFact
  <2> QED BY <2>1 DEF TypeOK, dbVars, nodeVars
<1>11. ASSUME BatchCommit PROVE TypeOK'
  <2>1. /\ row' \in [Installs -> Rows] /\ batch' = NoBatch
        /\ UNCHANGED <<attempt, issued, job, check, pending, request, verified, nodeVars, histVars>>
    BY <1>11, BatchFact
  <2> QED BY <2>1, NoBatchFact DEF TypeOK, nodeVars, histVars
<1> QED
  BY <1>1, <1>2, <1>3, <1>4, <1>5, <1>6, <1>7, <1>8, <1>9, <1>10, <1>11, StepCases

-----------------------------------------------------------------------------
(* Every step preserves the rest of the invariant                          *)

\* An installation is archived but never deleted.
LEMMA ExistsStep ==
  ASSUME TypeOK, ShapeInv, JobInv, CheckInv, [Next]_vars
  PROVE  \A i \in Installs : /\ Exists(i) => Exists(i)'
                             /\ ~Exists(i)' => row'[i].tx = NoTx
<1> USE DEF Exists
<1>1. ASSUME NEW i \in Installs, NEW c \in Configs, Create(i, c)
      PROVE  \A j \in Installs : /\ Exists(j) => Exists(j)'
                                 /\ ~Exists(j)' => row'[j].tx = NoTx
  BY <1>1 DEF Create, TypeOK, NoRow, ShapeInv
<1>2. ASSUME row' = row
      PROVE  \A j \in Installs : /\ Exists(j) => Exists(j)'
                                 /\ ~Exists(j)' => row'[j].tx = NoTx
  BY <1>2 DEF ShapeInv
<1>3. ASSUME NEW change, ChangeInv(change), change # NoChange, ColumnsOK(change.columns),
             Commit(change)
      PROVE  \A j \in Installs : /\ Exists(j) => Exists(j)'
                                 /\ ~Exists(j)' => row'[j].tx = NoTx
  <2>1. change.inst \in Installs /\ Exists(change.inst)
    BY <1>3 DEF ChangeInv
  <2>2. Exists(change.inst)'
    BY <1>3, <2>1, CommitFact DEF ChangeInv, Columns
  <2>3. \A j \in Installs \ {change.inst} : row'[j] = row[j]
    BY <1>3, <2>1, CommitFact
  <2> QED BY <2>2, <2>3 DEF ShapeInv
<1>4. ASSUME RequestCommit \/ LoopCommit
      PROVE  \A j \in Installs : /\ Exists(j) => Exists(j)'
                                 /\ ~Exists(j)' => row'[j].tx = NoTx
  BY <1>3, <1>4 DEF RequestCommit, LoopCommit, ShapeInv, TypeOK
<1>5. ASSUME NEW i \in Installs, NEW valid \in BOOLEAN, ValidateBegin(i, valid)
      PROVE  \A j \in Installs : /\ Exists(j) => Exists(j)'
                                 /\ ~Exists(j)' => row'[j].tx = NoTx
  <2>1. row'[i].state = "validating" /\ \A j \in Installs \ {i} : row'[j] = row[j]
    BY <1>5, ValidateFact
  <2> QED BY <2>1 DEF ShapeInv
<1>6. RequestStep => row' = row
  BY RequestFact, RequestChangeFact
<1>7. \A i \in Installs : ApplyBegin(i) => row' = row
  BY DEF ApplyBegin
<1>8. OutcomeStep => row' = row
  BY OutcomeTarget
<1>9. QuietStep \/ Restart => row' = row
  BY QuietFact, RestartFact
<1>10. UNCHANGED vars => row' = row
  BY DEF vars, dbVars
<1>11. LoadStep => row' = row
  BY LoadFact DEF dbVars
<1>12. ASSUME BatchCommit
       PROVE  \A j \in Installs : /\ Exists(j) => Exists(j)'
                                  /\ ~Exists(j)' => row'[j].tx = NoTx
  <2>1. \A j \in Installs : /\ row'[j].tx = row[j].tx
                            /\ row'[j].state \in {row[j].state, "active", "removed"}
    BY <1>12, BatchFact DEF ShapeInv, BatchInv, Columns
  <2> QED BY <2>1 DEF ShapeInv
<1> QED
  BY <1>1, <1>2, <1>4, <1>5, <1>6, <1>7, <1>8, <1>9, <1>10, <1>11, <1>12, StepCases

\* Nothing but a removal, a restore, its commit and a restart concerns batch.
LEMMA BatchKept ==
  ASSUME TypeOK, JobInv, CheckInv, [Next]_vars
  PROVE  batch' = batch \/ batch' = NoBatch \/ LoadStep
<1>1. ASSUME NEW i \in Installs, NEW c \in Configs, Create(i, c) PROVE batch' = batch
  BY <1>1 DEF Create, taskVars
<1>2. RequestStep => batch' = batch
  BY RequestFact, RequestChangeFact
<1>3. RequestCommit \/ LoopCommit => batch' = batch
  BY DEF RequestCommit, LoopCommit
<1>4. ASSUME NEW i \in Installs, NEW valid \in BOOLEAN, ValidateBegin(i, valid) PROVE batch' = batch
  BY <1>4 DEF ValidateBegin
<1>5. ASSUME NEW i \in Installs, ApplyBegin(i) PROVE batch' = batch
  BY <1>5 DEF ApplyBegin
<1>6. OutcomeStep \/ QuietStep => batch' = batch
  BY OutcomeTarget, QuietFact
<1>7. Restart \/ BatchCommit => batch' = NoBatch
  BY RestartFact, BatchFact
<1>8. UNCHANGED vars => batch' = batch
  BY DEF vars, taskVars
<1> QED BY <1>1, <1>2, <1>3, <1>4, <1>5, <1>6, <1>7, <1>8, StepCases

\* ShapeInv is preserved.
LEMMA ShapeStep ==
  ASSUME TypeOK, ShapeInv, JobInv, CheckInv, [Next]_vars
  PROVE  ShapeInv'
<1> DEFINE RequestOK(change) ==
      /\ "tx" \notin DOMAIN change.columns
      /\ "state" \in DOMAIN change.columns => change.columns["state"] # "reconciling"
<1>1. ChangeInv(NoChange)' /\ RequestOK(NoChange)
  BY NoChangeFact DEF ChangeInv
<1>2. ASSUME pending' = pending PROVE ChangeInv(pending)'
  BY <1>2, ExistsStep DEF ShapeInv, ChangeInv
<1>3. ASSUME request' = request PROVE ChangeInv(request)' /\ RequestOK(request)'
  BY <1>3, ExistsStep DEF ShapeInv, ChangeInv
<1>17. \A i \in Installs : BatchInv(batch'[i], Exists(i)')
  <2>1. ASSUME batch' = batch PROVE \A i \in Installs : BatchInv(batch'[i], Exists(i)')
    BY <2>1, ExistsStep DEF ShapeInv, BatchInv
  <2>2. ASSUME batch' = NoBatch PROVE \A i \in Installs : BatchInv(batch'[i], Exists(i)')
    BY <2>2, NoBatchFact DEF BatchInv
  <2>3. ASSUME LoadStep PROVE \A i \in Installs : BatchInv(batch'[i], Exists(i)')
    <3>1. \A i \in Installs : BatchInv(batch'[i], Exists(i))
      BY <2>3, LoadFact
    <3> QED BY <3>1, ExistsStep DEF BatchInv
  <2>4. batch' = batch \/ batch' = NoBatch \/ LoadStep
    BY BatchKept
  <2> QED BY <2>1, <2>2, <2>3, <2>4
<1>4. SUFFICES ChangeInv(pending)' /\ ChangeInv(request)' /\ RequestOK(request)'
  BY <1>17, ExistsStep DEF ShapeInv
<1> HIDE DEF RequestOK
<1>5. ASSUME NEW i \in Installs, NEW c \in Configs, Create(i, c)
      PROVE  pending' = pending /\ request' = request
  BY <1>5 DEF Create, taskVars
<1>6. ASSUME RequestStep
      PROVE  pending' = pending /\ ChangeInv(request)' /\ RequestOK(request)'
  <2>1. PICK i \in Installs, new \in Rows :
          /\ RequestRead(i, new) /\ new.tx = row[i].tx
          /\ new.state \in {row[i].state, "ready_to_apply", "disabled"}
    BY <1>6, RequestFact
  <2>2. /\ request'.inst = i /\ row[i].state # "none" /\ pending' = pending
        /\ \A c \in Columns : /\ c \in DOMAIN request'.columns <=> new[c] # row[i][c]
                              /\ c \in DOMAIN request'.columns => request'.columns[c] = new[c]
    BY <2>1, RequestChangeFact
  <2>3. /\ "tx" \notin DOMAIN request'.columns
        /\ "state" \in DOMAIN request'.columns =>
             request'.columns["state"] \in {"ready_to_apply", "disabled"}
    BY <2>1, <2>2 DEF Columns
  <2>4. Exists(i)'
    BY <2>2, ExistsStep DEF Exists
  <2> QED BY <2>2, <2>3, <2>4 DEF ChangeInv, RequestOK
<1>7. RequestCommit => pending' = pending /\ request' = NoChange
  BY DEF RequestCommit
<1>8. LoopCommit => pending' = NoChange /\ request' = request
  BY DEF LoopCommit
<1>9. ASSUME NEW i \in Installs, NEW valid \in BOOLEAN, ValidateBegin(i, valid)
      PROVE  ChangeInv(pending)' /\ request' = request
  <2>1. /\ pending'.inst = i /\ row'[i].state = "validating" /\ request' = request
        /\ pending'.columns["state"] \in {"ready_to_apply", "failed"}
    BY <1>9, ValidateFact
  <2> QED BY <2>1 DEF ChangeInv, Exists
<1>10. ASSUME NEW i \in Installs, ApplyBegin(i)
       PROVE  ChangeInv(pending)' /\ request' = request
  <2>0. /\ pending'.inst = i /\ row' = row /\ issued' \in Transactions
        /\ \A c \in Columns :
             /\ c \in DOMAIN pending'.columns <=> ApplyingRow(row[i], issued')[c] # row[i][c]
             /\ c \in DOMAIN pending'.columns =>
                  pending'.columns[c] = ApplyingRow(row[i], issued')[c]
    BY <1>10, BeginFact, Zenon
  <2>1. /\ pending'.inst = i /\ row' = row /\ issued' \in Transactions
        /\ \A c \in Columns : c \in DOMAIN pending'.columns =>
                                pending'.columns[c] = ApplyingRow(row[i], issued')[c]
    BY <2>0, Zenon
  <2>2. ApplyingRow(row[i], issued').state = "applying"
    <3>1. row[i] \in Rows
      BY DEF TypeOK
    <3> QED BY <2>1, <3>1 DEF ApplyingRow, Rows
  <2>3. Exists(i)' /\ request' = request
    BY <1>10, <2>1 DEF ApplyBegin, Live, Exists
  <2> QED BY <2>1, <2>2, <2>3 DEF ChangeInv, Columns
<1>11. ASSUME OutcomeStep
       PROVE  ChangeInv(pending)' /\ request' = request
  <2>1. PICK i \in Installs, t \in Transactions, state \in AttemptStates, new \in Rows :
          Outcome(i, t, state, new)
    BY <1>11, OutcomeTarget
  <2>2. new.state # "none"
    <3>1. row[i] \in Rows
      BY DEF TypeOK
    <3>2. \/ new = VerifyingRow(row[i]) \/ new = UncertainRow(row[i], t)
          \/ new = FailedRow(row[i]) \/ new = ActiveRow(row[i])
      BY <2>1 DEF Outcome
    <3> QED BY <3>1, <3>2, OutcomeRowFact
  <2>3. /\ pending'.inst = i
        /\ \A c \in Columns : c \in DOMAIN pending'.columns => pending'.columns[c] = new[c]
    BY <2>1, DecideFact DEF Outcome
  <2>4. Exists(i)' /\ request' = request
    BY <1>11, <2>1, ExistsStep, OutcomeTarget DEF Outcome
  <2> QED BY <2>2, <2>3, <2>4 DEF ChangeInv, Columns
<1>12. QuietStep => pending' = pending /\ request' = request
  BY QuietFact
<1>13. Restart => pending' = NoChange /\ request' = NoChange
  BY RestartFact
<1>14. UNCHANGED vars => pending' = pending /\ request' = request
  BY DEF vars, taskVars
<1>15. ASSUME pending' = NoChange PROVE ChangeInv(pending)'
  BY <1>1, <1>15 DEF ChangeInv
<1>16. ASSUME request' = NoChange PROVE ChangeInv(request)' /\ RequestOK(request)'
  BY <1>1, <1>16 DEF ChangeInv, RequestOK
<1>18. LoadStep \/ BatchCommit => pending' = pending /\ request' = request
  BY LoadFact, BatchFact
<1> QED
  BY <1>2, <1>3, <1>5, <1>6, <1>7, <1>8, <1>9, <1>10, <1>11, <1>12, <1>13, <1>14, <1>15, <1>16,
     <1>18, StepCases

\* Only an attempt that is on record belongs to an installation.
LEMMA OwnedFact ==
  ASSUME TypeOK, RecordInv, NEW t \in Transactions, attempt[t].inst \in Installs
  PROVE  t <= issued /\ attempt[t].state # "none"
<1>1. ~(t > issued)
  BY NoneAssumption DEF RecordInv, NoAttempt
<1>2. t <= issued
  BY <1>1 DEF TypeOK, Transactions
<1> QED BY <1>2 DEF RecordInv

\* An attempt on record keeps its installation and its configuration, and stays
\* on record; only ApplyBegin records a new one.
LEMMA AttemptStep ==
  ASSUME TypeOK, RecordInv, JobInv, CheckInv, [Next]_vars
  PROVE  /\ \A t \in Transactions : t <= issued =>
              /\ attempt'[t].inst = attempt[t].inst /\ attempt'[t].cfg = attempt[t].cfg
              /\ attempt'[t].state # "none"
         /\ \/ /\ issued' = issued
               /\ \A t \in Transactions : t > issued => attempt'[t] = attempt[t]
            \/ \E i \in Installs : ApplyBegin(i)
<1>1. ASSUME UNCHANGED <<attempt, issued>>
      PROVE  /\ \A t \in Transactions : t <= issued =>
                  /\ attempt'[t].inst = attempt[t].inst /\ attempt'[t].cfg = attempt[t].cfg
                  /\ attempt'[t].state # "none"
             /\ issued' = issued
             /\ \A t \in Transactions : t > issued => attempt'[t] = attempt[t]
  BY <1>1 DEF RecordInv
<1>2. ASSUME NEW i \in Installs, ApplyBegin(i)
      PROVE  \A t \in Transactions : t <= issued =>
                  /\ attempt'[t].inst = attempt[t].inst /\ attempt'[t].cfg = attempt[t].cfg
                  /\ attempt'[t].state # "none"
  <2>1. issued' = issued + 1 /\ \A u \in Transactions : u # issued' => attempt'[u] = attempt[u]
    BY <1>2, BeginFact
  <2>2. \A t \in Transactions : t <= issued => t # issued'
    BY <2>1 DEF TypeOK, Transactions
  <2> QED BY <2>1, <2>2 DEF RecordInv
<1>3. ASSUME OutcomeStep
      PROVE  /\ \A t \in Transactions : t <= issued =>
                  /\ attempt'[t].inst = attempt[t].inst /\ attempt'[t].cfg = attempt[t].cfg
                  /\ attempt'[t].state # "none"
             /\ issued' = issued
             /\ \A t \in Transactions : t > issued => attempt'[t] = attempt[t]
  <2>1. PICK i \in Installs, t \in Transactions, state \in AttemptStates, new \in Rows :
          Outcome(i, t, state, new)
    BY <1>3, OutcomeTarget
  <2>2. state # "none" /\ attempt[t].inst = i /\ Decide(i, t, state, new)
    BY <2>1 DEF Outcome
  <2>3. t <= issued
    BY <2>2, OwnedFact
  <2>4. ~(t > issued)
    BY <2>3 DEF TypeOK, Transactions
  <2>5. /\ issued' = issued /\ attempt'[t].state = state
        /\ \A u \in Transactions : /\ attempt'[u].inst = attempt[u].inst
                                   /\ attempt'[u].cfg = attempt[u].cfg
                                   /\ u # t => attempt'[u] = attempt[u]
    BY <2>2, DecideFact
  <2> QED BY <2>2, <2>4, <2>5 DEF RecordInv
<1>4. ASSUME NEW i \in Installs, NEW c \in Configs, Create(i, c) PROVE UNCHANGED <<attempt, issued>>
  BY <1>4 DEF Create
<1>5. RequestStep => UNCHANGED <<attempt, issued>>
  BY RequestFact, RequestChangeFact
<1>6. RequestCommit \/ LoopCommit => UNCHANGED <<attempt, issued>>
  BY DEF RequestCommit, LoopCommit
<1>7. ASSUME NEW i \in Installs, NEW valid \in BOOLEAN, ValidateBegin(i, valid)
      PROVE UNCHANGED <<attempt, issued>>
  BY <1>7 DEF ValidateBegin
<1>8. QuietStep \/ Restart => UNCHANGED <<attempt, issued>>
  BY QuietFact, RestartFact
<1>9. UNCHANGED vars => UNCHANGED <<attempt, issued>>
  BY DEF vars, dbVars
<1>10. LoadStep \/ BatchCommit => UNCHANGED <<attempt, issued>>
  BY LoadFact, BatchFact DEF dbVars
<1> QED
  BY <1>1, <1>2, <1>3, <1>4, <1>5, <1>6, <1>7, <1>8, <1>9, <1>10, StepCases

\* An acknowledgement is remembered for the attempt of the running apply() only.
LEMMA VerifiedStep ==
  ASSUME TypeOK, JobInv, CheckInv, [Next]_vars
  PROVE  \/ verified' = verified
         \/ Restart /\ \A t \in Transactions : verified'[t] = None
         \/ /\ ApplyAck /\ verified'[job.tx] = job.cfg
            /\ \A t \in Transactions : t # job.tx => verified'[t] = verified[t]
<1>1. ApplyAck => /\ verified'[job.tx] = job.cfg
                  /\ \A t \in Transactions : t # job.tx => verified'[t] = verified[t]
  BY OutcomeFact DEF ApplyAck, TypeOK
<1>2. OutcomeStep => ApplyAck \/ verified' = verified
  BY DEF OutcomeStep, ApplyUncertain, ApplyReject, VerifyActivate, VerifyFail, VerifyDone
<1>3. ASSUME NEW i \in Installs, NEW c \in Configs, Create(i, c) PROVE verified' = verified
  BY <1>3 DEF Create, taskVars
<1>4. RequestStep => verified' = verified
  BY RequestFact, RequestChangeFact
<1>5. RequestCommit \/ LoopCommit => verified' = verified
  BY DEF RequestCommit, LoopCommit
<1>6. ASSUME NEW i \in Installs, NEW valid \in BOOLEAN, ValidateBegin(i, valid)
      PROVE verified' = verified
  BY <1>6 DEF ValidateBegin
<1>7. ASSUME NEW i \in Installs, ApplyBegin(i) PROVE verified' = verified
  BY <1>7 DEF ApplyBegin
<1>8. QuietStep => verified' = verified
  BY QuietFact
<1>9. Restart => \A t \in Transactions : verified'[t] = None
  BY RestartFact
<1>10. UNCHANGED vars => verified' = verified
  BY DEF vars, taskVars
<1>11. LoadStep \/ BatchCommit => verified' = verified
  BY LoadFact, BatchFact
<1> QED
  BY <1>1, <1>2, <1>3, <1>4, <1>5, <1>6, <1>7, <1>8, <1>9, <1>10, <1>11, StepCases

\* RecordInv is preserved.
LEMMA RecordStep ==
  ASSUME TypeOK, RecordInv, JobInv, CheckInv, [Next]_vars
  PROVE  RecordInv'
<1>1. ASSUME NEW t \in Transactions, t > issued PROVE verified'[t] = None
  <2>1. verified[t] = None
    BY <1>1 DEF RecordInv
  <2>2. ApplyAck => t # job.tx
    BY <1>1 DEF ApplyAck, JobInv, TypeOK, Transactions
  <2> QED BY <2>1, <2>2, VerifiedStep
<1>2. CASE issued' = issued /\ \A t \in Transactions : t > issued => attempt'[t] = attempt[t]
  BY <1>1, <1>2, AttemptStep DEF RecordInv
<1>3. ASSUME NEW i \in Installs, ApplyBegin(i) PROVE RecordInv'
  <2>1. /\ issued' = issued + 1
        /\ attempt'[issued'] = [state |-> "applying", inst |-> i, cfg |-> row[i].cfg]
        /\ \A u \in Transactions : u # issued' => attempt'[u] = attempt[u]
    BY <1>3, BeginFact
  <2>2. \A t \in Transactions : /\ t <= issued' => t <= issued \/ t = issued'
                                /\ t > issued' => t > issued /\ t # issued'
    BY <2>1 DEF TypeOK, Transactions
  <2> QED BY <1>1, <2>1, <2>2 DEF RecordInv
<1> QED BY <1>2, <1>3, AttemptStep

\* The running apply() goes on, ends, or a new one begins.
LEMMA JobChange ==
  ASSUME TypeOK, JobInv, CheckInv, [Next]_vars
  PROVE  \/ job' = job /\ ~ApplyAck
         \/ job' = NoJob
         \/ job.stage # "idle" /\ job' = [job EXCEPT !.stage = "acked"]
         \/ job.stage # "idle" /\ job' = [job EXCEPT !.stage = "verify"]
         \/ \E i \in Installs : ApplyBegin(i)
<1>1. ApplyAck => job.stage # "idle" /\ job' = [job EXCEPT !.stage = "acked"]
  BY DEF ApplyAck
<1>2. OutcomeStep => ApplyAck \/ job' = NoJob \/ job' = job
  BY DEF OutcomeStep, ApplyUncertain, ApplyReject, VerifyActivate, VerifyFail, VerifyDone
<1>3. ASSUME NEW i \in Installs, NEW c \in Configs, Create(i, c) PROVE job' = job
  BY <1>3 DEF Create, taskVars
<1>4. RequestStep => job' = job
  BY RequestFact, RequestChangeFact
<1>5. RequestCommit \/ LoopCommit => job' = job
  BY DEF RequestCommit, LoopCommit
<1>6. ASSUME NEW i \in Installs, NEW valid \in BOOLEAN, ValidateBegin(i, valid) PROVE job' = job
  BY <1>6 DEF ValidateBegin
<1>7. QuietStep => \/ job' = job \/ job' = NoJob
                   \/ job.stage # "idle" /\ job' = [job EXCEPT !.stage = "verify"]
  BY QuietFact
<1>8. Restart => job' = NoJob
  BY RestartFact
<1>9. UNCHANGED vars => job' = job
  BY DEF vars, taskVars
<1>10. LoadStep \/ BatchCommit => job' = job
  BY LoadFact, BatchFact
<1> QED BY <1>1, <1>2, <1>3, <1>4, <1>5, <1>6, <1>7, <1>8, <1>9, <1>10, StepCases

\* JobInv is preserved.
LEMMA JobStep ==
  ASSUME TypeOK, ShapeInv, RecordInv, JobInv, CheckInv, [Next]_vars
  PROVE  JobInv'
<1>1. ASSUME job.stage # "idle", job'.inst = job.inst, job'.tx = job.tx, job'.cfg = job.cfg
      PROVE  /\ job'.inst \in Installs /\ row'[job'.inst].state # "none"
             /\ job'.tx \in Transactions /\ job'.tx <= issued'
             /\ attempt'[job'.tx].inst = job'.inst /\ attempt'[job'.tx].cfg = job'.cfg
  <2>1. issued' = issued \/ issued' = issued + 1
    BY AttemptStep, BeginFact
  <2>2. /\ job.inst \in Installs /\ Exists(job.inst) /\ job.tx \in Transactions
        /\ job.tx <= issued
        /\ attempt[job.tx].inst = job.inst /\ attempt[job.tx].cfg = job.cfg
    BY <1>1 DEF JobInv
  <2>3. job.tx <= issued'
    BY <2>1, <2>2 DEF TypeOK, Transactions
  <2>4. row'[job.inst].state # "none"
    BY <2>2, ExistsStep DEF Exists
  <2>5. attempt'[job.tx].inst = job.inst /\ attempt'[job.tx].cfg = job.cfg
    BY <2>2, AttemptStep
  <2> QED BY <1>1, <2>2, <2>3, <2>4, <2>5
<1>2. ASSUME job' = NoJob PROVE JobInv'
  BY <1>2 DEF JobInv, NoJob
<1>3. ASSUME job.stage # "idle", NEW s \in {"acked", "verify"}, job' = [job EXCEPT !.stage = s]
      PROVE  JobInv'
  <2>1. job'.stage = s /\ job'.inst = job.inst /\ job'.tx = job.tx /\ job'.cfg = job.cfg
    BY <1>3 DEF TypeOK
  <2> QED BY <1>1, <1>3, <2>1 DEF JobInv, Exists
<1>4. ASSUME job' = job, ~ApplyAck PROVE JobInv'
  <2>1. CASE job.stage = "idle"
    BY <1>4, <2>1 DEF JobInv, NoJob
  <2>2. CASE job.stage # "idle"
    <3>1. job'.stage = "device" => verified'[job'.tx] = None
      BY <1>4, <2>2, VerifiedStep DEF JobInv
    <3> QED BY <1>1, <1>4, <2>2, <3>1 DEF JobInv, Exists
  <2> QED BY <2>1, <2>2
<1>5. ASSUME NEW i \in Installs, ApplyBegin(i) PROVE JobInv'
  <2>1. /\ job' = [stage |-> "device", inst |-> i, tx |-> issued', cfg |-> row[i].cfg]
        /\ issued' \in Transactions /\ issued' = issued + 1 /\ row' = row
        /\ attempt'[issued'] = [state |-> "applying", inst |-> i, cfg |-> row[i].cfg]
    BY <1>5, BeginFact
  <2>2. verified'[issued'] = None
    BY <1>5, <2>1 DEF ApplyBegin, RecordInv, TypeOK
  <2>3. row'[i].state # "none"
    BY <1>5, <2>1 DEF ApplyBegin, Live, Exists
  <2>4. issued' <= issued'
    BY <2>1 DEF TypeOK
  <2> QED BY <2>1, <2>2, <2>3, <2>4 DEF JobInv, Exists
<1> QED BY <1>2, <1>3, <1>4, <1>5, JobChange

\* CheckInv is preserved.
LEMMA CheckStep ==
  ASSUME TypeOK, ShapeInv, RecordInv, JobInv, CheckInv, OpenInv, [Next]_vars
  PROVE  CheckInv'
<1>1. \A t \in Transactions, i \in Installs : attempt[t].inst = i => attempt'[t].inst = i
  BY OwnedFact, AttemptStep
<1>2. ASSUME NEW v \in Verifiers, check'[v] = check[v], check'[v] # NoCheck
      PROVE  /\ check'[v].inst \in Installs /\ row'[check'[v].inst].state # "none"
             /\ check'[v].tx \in Transactions
             /\ attempt'[check'[v].tx].inst = check'[v].inst
  BY <1>1, <1>2, ExistsStep DEF CheckInv, Exists
<1>3. ASSUME NEW v \in Verifiers, NEW i \in Installs, row[i].tx # NoTx,
             check'[v] = [inst |-> i, tx |-> row[i].tx, requested |-> row[i].cfg]
      PROVE  /\ check'[v].inst \in Installs /\ row'[check'[v].inst].state # "none"
             /\ check'[v].tx \in Transactions
             /\ attempt'[check'[v].tx].inst = check'[v].inst
  <2>1. row[i].tx \in Transactions
    BY <1>3, RowFact DEF TypeOK, MaybeTx
  <2>2. attempt[row[i].tx].inst = i
    BY <1>3 DEF OpenInv
  <2>3. row'[i].state # "none"
    BY <1>3, ExistsStep DEF ShapeInv, Exists
  <2> QED BY <1>1, <1>3, <2>1, <2>2, <2>3
<1> DEFINE Fine(v) ==
      \/ check'[v] = check[v] \/ check'[v] = NoCheck
      \/ \E i \in Installs : /\ row[i].tx # NoTx
                             /\ check'[v] = [inst |-> i, tx |-> row[i].tx, requested |-> row[i].cfg]
<1>4. SUFFICES \A v \in Verifiers : Fine(v)
  BY <1>2, <1>3 DEF CheckInv, Exists
<1>5. ApplyVerify => \A v \in Verifiers : Fine(v)
  BY TargetFact DEF ApplyVerify, VerifyRead, TypeOK
<1>6. ASSUME NEW i \in Installs, VerifyBegin(i) PROVE \A v \in Verifiers : Fine(v)
  BY <1>6 DEF VerifyBegin, VerifyRead, TypeOK
<1>7. ApplyAbort \/ ApplySend \/ NodeWrite \/ LoadStep \/ BatchCommit => check' = check
  BY NodeWriteFact, LoadFact, BatchFact DEF ApplyAbort, ApplySend, taskVars
<1>8. OutcomeStep => \A v \in Verifiers : Fine(v)
  BY DEF OutcomeStep, ApplyAck, ApplyUncertain, ApplyReject, VerifyActivate, VerifyFail,
         VerifyDone, TypeOK
<1>9. ASSUME NEW i \in Installs, NEW c \in Configs, Create(i, c) PROVE check' = check
  BY <1>9 DEF Create, taskVars
<1>10. RequestStep => check' = check
  BY RequestFact, RequestChangeFact
<1>11. RequestCommit \/ LoopCommit => check' = check
  BY DEF RequestCommit, LoopCommit
<1>12. ASSUME NEW i \in Installs, NEW valid \in BOOLEAN, ValidateBegin(i, valid) PROVE check' = check
  BY <1>12 DEF ValidateBegin
<1>13. ASSUME NEW i \in Installs, ApplyBegin(i) PROVE check' = check
  BY <1>13 DEF ApplyBegin
<1>14. Restart => \A v \in Verifiers : Fine(v)
  BY RestartFact
<1>15. UNCHANGED vars => check' = check
  BY DEF vars, taskVars
<1>16. check' = check => \A v \in Verifiers : Fine(v)
  OBVIOUS
<1> HIDE DEF Fine
<1> QED
  BY <1>5, <1>6, <1>7, <1>8, <1>9, <1>10, <1>11, <1>12, <1>13, <1>14, <1>15, <1>16, StepCases
  DEF QuietStep

\* The configuration of the node and the command on its way change only in
\* these steps; a restart forgets what was overruled.
LEMMA DeviceStep ==
  ASSUME TypeOK, JobInv, CheckInv, [Next]_vars
  PROVE  \/ UNCHANGED nodeVars
         \/ Restart /\ UNCHANGED <<device, inflight, origin>>
         \/ ApplySend \/ NodeWrite
<1>1. ApplyVerify \/ ApplyAbort => UNCHANGED nodeVars
  BY DEF ApplyVerify, ApplyAbort
<1>2. ASSUME NEW i \in Installs, VerifyBegin(i) \/ ApplyBegin(i) PROVE UNCHANGED nodeVars
  BY <1>2 DEF VerifyBegin, ApplyBegin
<1>3. OutcomeStep => UNCHANGED nodeVars
  BY OutcomeTarget
<1>4. ASSUME NEW i \in Installs, NEW c \in Configs, Create(i, c) PROVE UNCHANGED nodeVars
  BY <1>4 DEF Create
<1>5. RequestStep => UNCHANGED nodeVars
  BY RequestFact, RequestChangeFact
<1>6. RequestCommit \/ LoopCommit \/ LoadStep \/ BatchCommit => UNCHANGED nodeVars
  BY LoadFact, BatchFact DEF RequestCommit, LoopCommit
<1>7. ASSUME NEW i \in Installs, NEW valid \in BOOLEAN, ValidateBegin(i, valid)
      PROVE  UNCHANGED nodeVars
  BY <1>7 DEF ValidateBegin
<1>8. Restart => UNCHANGED <<device, inflight, origin>>
  BY RestartFact
<1>9. UNCHANGED vars => UNCHANGED nodeVars
  BY DEF vars
<1> QED
  BY <1>1, <1>2, <1>3, <1>4, <1>5, <1>6, <1>7, <1>8, <1>9, StepCases DEF QuietStep

\* AcknowledgedIsOnNode is preserved: a PROV command changes only a node that
\* has no configuration, and whoever erased or replaced an acknowledged one
\* has overruled it.
LEMMA AcknowledgedStep ==
  ASSUME TypeOK, RecordInv, JobInv, CheckInv, AcknowledgedIsOnNode, [Next]_vars
  PROVE  AcknowledgedIsOnNode'
<1> SUFFICES ASSUME NEW t \in Transactions, verified'[t] # None
             PROVE  /\ verified'[t] = attempt'[t].cfg
                    /\ verified'[t] = device' \/ t \in touched'
  BY DEF AcknowledgedIsOnNode
<1>1. CASE ApplyAck /\ t = job.tx
  <2>1. verified'[t] = job.cfg /\ device' = job.cfg
    BY <1>1, VerifiedStep DEF ApplyAck, Restart, TypeOK, nodeVars
  <2>2. job.tx <= issued /\ attempt[job.tx].cfg = job.cfg
    BY <1>1 DEF ApplyAck, JobInv
  <2> QED BY <1>1, <2>1, <2>2, AttemptStep
<1>2. CASE ~(ApplyAck /\ t = job.tx)
  <2>1. verified'[t] = verified[t] /\ ~Restart
    BY <1>2, VerifiedStep, RestartFact
  <2>2. /\ verified[t] = attempt[t].cfg
        /\ verified[t] = device \/ t \in touched
    BY <2>1 DEF AcknowledgedIsOnNode
  <2>3. verified[t] = device' \/ t \in touched'
    <3>1. CASE UNCHANGED nodeVars
      BY <2>2, <3>1 DEF nodeVars
    <3>2. CASE ApplySend
      BY <2>2, <3>2 DEF ApplySend
    <3>3. CASE NodeWrite
      <4>1. \/ UNCHANGED <<device, touched>>
            \/ device = None /\ touched' = touched
            \/ touched' = touched \cup {u \in Transactions : verified[u] # None}
        BY <3>3, NodeWriteFact
      <4> QED BY <2>1, <2>2, <4>1
    <3> QED BY <2>1, <3>1, <3>2, <3>3, DeviceStep
  <2>4. t <= issued
    BY <2>1 DEF RecordInv, TypeOK, Transactions
  <2> QED BY <2>1, <2>2, <2>3, <2>4, AttemptStep
<1> QED BY <1>1, <1>2

\* NodeConfigOnRecord is preserved: a command of apply() carries its attempt's
\* id and configuration, and an attempt on record stays there.
LEMMA OnRecordStep ==
  ASSUME TypeOK, RecordInv, JobInv, CheckInv, NodeConfigOnRecord, [Next]_vars
  PROVE  NodeConfigOnRecord'
<1> DEFINE Known(t, c) == attempt[t].state # "none" /\ attempt[t].cfg = c
           KnownNow(t, c) == attempt'[t].state # "none" /\ attempt'[t].cfg = c
<1>1. ASSUME NEW t \in Transactions, NEW c, Known(t, c) PROVE KnownNow(t, c)
  <2>1. t <= issued
    BY <1>1 DEF RecordInv, NoAttempt, TypeOK, Transactions
  <2> QED BY <1>1, <2>1, AttemptStep
<1>2. /\ inflight.tx # NoTx => inflight.tx \in Transactions /\ Known(inflight.tx, inflight.cfg)
      /\ origin # NoTx => origin \in Transactions /\ Known(origin, device)
  BY DEF NodeConfigOnRecord, TypeOK, MaybeTx
<1>3. ASSUME ApplySend
      PROVE  /\ UNCHANGED <<device, origin>>
             /\ inflight'.tx \in Transactions /\ Known(inflight'.tx, inflight'.cfg)
  <2>1. /\ UNCHANGED <<device, origin>>
        /\ inflight' = [kind |-> "PROV", cfg |-> job.cfg, tx |-> job.tx]
    BY <1>3 DEF ApplySend, SendProv
  <2>2. job.tx \in Transactions /\ job.tx <= issued /\ attempt[job.tx].cfg = job.cfg
    BY <1>3 DEF ApplySend, JobInv
  <2>3. attempt[job.tx].state # "none"
    BY <2>2 DEF RecordInv
  <2> QED BY <2>1, <2>2, <2>3
<1>4. ASSUME NodeWrite
      PROVE  /\ \/ UNCHANGED <<device, origin>>
                \/ device' = inflight.cfg /\ origin' = inflight.tx
                \/ origin' = NoTx
             /\ inflight' = inflight \/ inflight'.tx = NoTx
  BY <1>4, NodeWriteFact
<1> HIDE DEF Known, KnownNow
<1>5. /\ inflight'.tx # NoTx => KnownNow(inflight'.tx, inflight'.cfg)
      /\ origin' # NoTx => KnownNow(origin', device')
  <2>1. CASE UNCHANGED <<device, inflight, origin>>
    BY <1>1, <1>2, <2>1
  <2>2. CASE ApplySend
    BY <1>1, <1>2, <1>3, <2>2
  <2>3. CASE NodeWrite
    BY <1>1, <1>2, <1>4, <2>3
  <2> QED BY <2>1, <2>2, <2>3, DeviceStep DEF nodeVars
<1> QED BY <1>5 DEF NodeConfigOnRecord, KnownNow

\* What a step that neither begins an attempt nor decides one does to the
\* transaction and the state that a row shows, now and after the pending commit.
LEMMA ViewStep ==
  ASSUME TypeOK, ShapeInv, [Next]_vars, ~OutcomeStep, \A i \in Installs : ~ApplyBegin(i)
  PROVE  \A j \in Installs :
           /\ row'[j].tx \in {row[j].tx, AfterTx(j), NoTx}
           /\ \/ AfterTx(j)' \in {AfterTx(j), NoTx}
              \/ AfterTx(j)' = row[j].tx /\ j \in cut'
           /\ row'[j].state = "reconciling" =>
                \/ row[j].state = "reconciling" /\ row'[j].tx = row[j].tx
                \/ AfterState(j) = "reconciling" /\ row'[j].tx = AfterTx(j)
           /\ AfterState(j)' = "reconciling" =>
                \/ row[j].state = "reconciling" /\ AfterTx(j)' = row[j].tx
                \/ AfterState(j) = "reconciling" /\ AfterTx(j)' = AfterTx(j)
<1> DEFINE View(j) ==
           /\ row'[j].tx \in {row[j].tx, AfterTx(j), NoTx}
           /\ \/ AfterTx(j)' \in {AfterTx(j), NoTx}
              \/ AfterTx(j)' = row[j].tx /\ j \in cut'
           /\ row'[j].state = "reconciling" =>
                \/ row[j].state = "reconciling" /\ row'[j].tx = row[j].tx
                \/ AfterState(j) = "reconciling" /\ row'[j].tx = AfterTx(j)
           /\ AfterState(j)' = "reconciling" =>
                \/ row[j].state = "reconciling" /\ AfterTx(j)' = row[j].tx
                \/ AfterState(j) = "reconciling" /\ AfterTx(j)' = AfterTx(j)
<1> SUFFICES ASSUME NEW j \in Installs PROVE View(j)
  OBVIOUS
<1>1. ASSUME row'[j] = row[j], pending' = pending PROVE View(j)
  BY <1>1 DEF AfterTx, AfterState
<1>2. ASSUME NEW i \in Installs, NEW c \in Configs, Create(i, c) PROVE View(j)
  <2>1. CASE i # j
    BY <1>1, <1>2, <2>1 DEF Create, taskVars, TypeOK
  <2>2. CASE i = j
    <3>1. row'[j].tx = NoTx /\ row'[j].state = "draft" /\ pending' = pending
      BY <1>2, <2>2 DEF Create, taskVars, TypeOK, NoRow
    <3>2. pending.inst # j \/ DOMAIN pending.columns = {}
      BY <1>2, <2>2, NoChangeFact DEF Create, ShapeInv, ChangeInv
    <3>3. AfterTx(j)' = NoTx /\ AfterState(j)' = "draft"
      BY <3>1, <3>2 DEF AfterTx, AfterState
    <3> QED BY <3>1, <3>3
  <2> QED BY <2>1, <2>2
<1>3. RequestStep => row' = row /\ pending' = pending
  BY RequestFact, RequestChangeFact
<1>4. ASSUME RequestCommit PROVE View(j)
  <2>1. request.inst \in Installs /\ ColumnsOK(request.columns) /\ Commit(request)
          /\ pending' = pending
    BY <1>4 DEF RequestCommit, ShapeInv, ChangeInv, TypeOK
  <2>2. CASE request.inst # j
    BY <1>1, <2>1, <2>2, CommitFact
  <2>3. CASE request.inst = j
    <3>1. /\ row'[j].tx = row[j].tx
          /\ row'[j].state = "reconciling" => row[j].state = "reconciling"
      BY <2>1, <2>3, CommitFact DEF ShapeInv, Columns
    <3> QED BY <2>1, <3>1 DEF AfterTx, AfterState
  <2> QED BY <2>2, <2>3
<1>5. ASSUME LoopCommit PROVE View(j)
  <2>1. pending.inst \in Installs /\ ColumnsOK(pending.columns) /\ Commit(pending)
          /\ pending' = NoChange
    BY <1>5 DEF LoopCommit, ShapeInv, ChangeInv, TypeOK
  <2>2. row'[j].tx = AfterTx(j) /\ row'[j].state = AfterState(j)
    <3>1. CASE pending.inst # j
      BY <2>1, <3>1, CommitFact DEF AfterTx, AfterState
    <3>2. CASE pending.inst = j
      BY <2>1, <3>2, CommitFact DEF AfterTx, AfterState, Columns
    <3> QED BY <3>1, <3>2
  <2>3. AfterTx(j)' = row'[j].tx /\ AfterState(j)' = row'[j].state
    BY <2>1, NoChangeFact DEF AfterTx, AfterState
  <2> QED BY <2>2, <2>3
<1>6. ASSUME NEW i \in Installs, NEW valid \in BOOLEAN, ValidateBegin(i, valid) PROVE View(j)
  <2>1. AfterTx(j) = row[j].tx /\ AfterState(j) = row[j].state
    BY <1>6, FreeFact DEF ValidateBegin, LoopFree
  <2>2. CASE i # j
    <3>1. row'[j] = row[j] /\ pending'.inst # j
      BY <1>6, <2>2, ValidateFact
    <3>2. AfterTx(j)' = row[j].tx /\ AfterState(j)' = row[j].state
      BY <3>1 DEF AfterTx, AfterState
    <3> QED BY <2>1, <3>1, <3>2
  <2>3. CASE i = j
    <3>1. row'[j].tx = row[j].tx /\ row'[j].state = "validating"
      BY <1>6, <2>3, ValidateFact DEF Columns
    <3>2. AfterTx(j)' = row[j].tx /\ AfterState(j)' \in {"ready_to_apply", "failed"}
      BY <1>6, <2>3, <3>1, ValidateFact DEF AfterTx, AfterState
    <3> QED BY <2>1, <3>1, <3>2
  <2> QED BY <2>2, <2>3
<1>7. QuietStep => row' = row /\ pending' = pending
  BY QuietFact
<1>8. ASSUME Restart PROVE View(j)
  <2>1. row' = row /\ pending' = NoChange
        /\ cut' = IF "tx" \in DOMAIN pending.columns THEN cut \cup {pending.inst} ELSE cut
    BY <1>8, RestartFact
  <2>2. AfterTx(j)' = row[j].tx /\ AfterState(j)' = row[j].state
    BY <2>1, NoChangeFact DEF AfterTx, AfterState
  <2>3. AfterTx(j) = row[j].tx \/ j \in cut'
    BY <2>1 DEF AfterTx
  <2> QED BY <2>1, <2>2, <2>3
<1>9. UNCHANGED vars => row' = row /\ pending' = pending
  BY DEF vars, dbVars, taskVars
<1>10. row' = row /\ pending' = pending => View(j)
  BY <1>1
<1>11. LoadStep => row' = row /\ pending' = pending
  BY LoadFact DEF dbVars
<1>12. ASSUME BatchCommit PROVE View(j)
  <2>1. /\ row'[j].tx = row[j].tx /\ pending' = pending
        /\ row'[j].state = "reconciling" => row[j].state = "reconciling"
    BY <1>12, BatchFact DEF ShapeInv, BatchInv, Columns
  <2> QED BY <2>1 DEF AfterTx, AfterState
<1> HIDE DEF View
<1> QED
  BY <1>2, <1>3, <1>4, <1>5, <1>6, <1>7, <1>8, <1>9, <1>10, <1>11, <1>12, StepCases

\* The other steps leave every attempt as it is.
LEMMA PlainStep ==
  ASSUME TypeOK, [Next]_vars, ~OutcomeStep, \A i \in Installs : ~ApplyBegin(i)
  PROVE  attempt' = attempt /\ cut \subseteq cut'
<1>1. ASSUME NEW i \in Installs, NEW c \in Configs, Create(i, c)
      PROVE attempt' = attempt /\ cut' = cut
  BY <1>1 DEF Create, histVars
<1>2. RequestStep => attempt' = attempt /\ cut' = cut
  BY RequestFact, RequestChangeFact
<1>3. RequestCommit \/ LoopCommit => attempt' = attempt /\ cut' = cut
  BY DEF RequestCommit, LoopCommit, histVars
<1>4. ASSUME NEW i \in Installs, NEW valid \in BOOLEAN, ValidateBegin(i, valid)
      PROVE attempt' = attempt /\ cut' = cut
  BY <1>4 DEF ValidateBegin, histVars
<1>5. QuietStep => attempt' = attempt /\ cut' = cut
  BY QuietFact
<1>6. Restart => attempt' = attempt /\ cut \subseteq cut'
  BY RestartFact
<1>7. UNCHANGED vars => attempt' = attempt /\ cut' = cut
  BY DEF vars, dbVars, histVars
<1>8. LoadStep \/ BatchCommit => attempt' = attempt /\ cut' = cut
  BY LoadFact, BatchFact DEF dbVars, histVars
<1> QED BY <1>1, <1>2, <1>3, <1>4, <1>5, <1>6, <1>7, <1>8, StepCases

\* What ApplyBegin leaves for the commit.
LEMMA BeginPending ==
  ASSUME TypeOK, NEW i \in Installs, ApplyBegin(i)
  PROVE  /\ AfterTx(i)' = issued' /\ AfterState(i)' = "applying"
         /\ \A j \in Installs \ {i} : AfterTx(j)' = row[j].tx /\ AfterState(j)' = row[j].state
         /\ "prev" \notin DOMAIN pending'.columns
         /\ "enabled" \in DOMAIN pending'.columns => pending'.columns["enabled"] = FALSE
         /\ "state" \in DOMAIN pending'.columns => pending'.columns["state"] = "applying"
<1> DEFINE new == ApplyingRow(row[i], issued')
<1>1. /\ row' = row /\ issued' \in Transactions /\ pending'.inst = i
      /\ \A c \in Columns : /\ c \in DOMAIN pending'.columns <=> new[c] # row[i][c]
                            /\ c \in DOMAIN pending'.columns => pending'.columns[c] = new[c]
  BY BeginFact
<1>2. new.state = "applying" /\ new.tx = issued' /\ new.enabled = FALSE /\ new.prev = row[i].prev
  <2>1. row[i] \in Rows
    BY DEF TypeOK
  <2> QED BY <1>1, <2>1 DEF ApplyingRow, Rows
<1> HIDE DEF new
<1> QED BY <1>1, <1>2 DEF AfterTx, AfterState, Columns

\* OpenInv is preserved.
LEMMA OpenStep ==
  ASSUME TypeOK, ShapeInv, RecordInv, JobInv, CheckInv, OpenInv, [Next]_vars
  PROVE  OpenInv'
<1> SUFFICES ASSUME NEW j \in Installs
             PROVE  /\ row'[j].tx # NoTx => attempt'[row'[j].tx].inst = j
                    /\ AfterTx(j)' # NoTx =>
                         /\ attempt'[AfterTx(j)'].inst = j
                         /\ j \in cut' \/ attempt'[AfterTx(j)'].state
                                            \in {"applying", "verifying", "reconciling"}
  BY DEF OpenInv
<1>1. /\ row[j].tx # NoTx => row[j].tx \in Transactions /\ attempt[row[j].tx].inst = j
      /\ AfterTx(j) # NoTx => AfterTx(j) \in Transactions /\ attempt[AfterTx(j)].inst = j
  BY RowFact DEF OpenInv, TypeOK, AfterTx, ColumnsOK, MaybeTx
<1>2. \A t \in Transactions : attempt[t].inst = j => t <= issued /\ attempt'[t].inst = j
  BY OwnedFact, AttemptStep
<1>3. CASE OutcomeStep
  <2>1. PICK i \in Installs, t \in Transactions, state \in AttemptStates, new \in Rows :
          Outcome(i, t, state, new)
    BY <1>3, OutcomeTarget
  <2>2. /\ row' = row /\ pending = NoChange /\ cut' = cut
        /\ Decide(i, t, state, new) /\ attempt[t].inst = i
    BY <1>3, <2>1, OutcomeTarget DEF Outcome
  <2>3. AfterTx(j) = row[j].tx
    BY <2>2, FreeFact
  <2>4. /\ attempt'[t].state = state
        /\ \A u \in Transactions : u # t => attempt'[u] = attempt[u]
    BY <2>2, DecideFact
  <2>5. row'[j].tx # NoTx => attempt'[row'[j].tx].inst = j
    BY <1>1, <1>2, <2>2
  <2>6. CASE i # j
    <3>1. AfterTx(j)' = row[j].tx
      BY <2>2, <2>6, OutcomePending
    <3>2. row[j].tx # NoTx => row[j].tx # t
      BY <1>1, <2>2, <2>6
    <3> QED BY <1>1, <1>2, <2>2, <2>3, <2>4, <2>5, <3>1, <3>2 DEF OpenInv
  <2>7. CASE i = j
    <3>1. AfterTx(j)' = new.tx /\ row[j] \in Rows
      BY <2>2, <2>7, OutcomePending DEF TypeOK
    <3>2. \/ state = "verifying" /\ new.tx = row[j].tx
          \/ state = "reconciling" /\ new.tx = t
          \/ new.tx = NoTx
      <4>1. \/ state = "verifying" /\ new = VerifyingRow(row[j])
            \/ state = "reconciling" /\ new = UncertainRow(row[j], t)
            \/ new = FailedRow(row[j]) \/ new = ActiveRow(row[j])
        BY <2>1, <2>7 DEF Outcome
      <4>2. /\ VerifyingRow(row[j]).tx = row[j].tx /\ UncertainRow(row[j], t).tx = t
            /\ FailedRow(row[j]).tx = NoTx /\ ActiveRow(row[j]).tx = NoTx
        BY <3>1 DEF Rows, VerifyingRow, UncertainRow, FailedRow, ActiveRow
      <4> QED BY <4>1, <4>2
    <3> QED BY <1>1, <1>2, <2>2, <2>3, <2>4, <2>5, <2>7, <3>1, <3>2 DEF OpenInv
  <2> QED BY <2>6, <2>7
<1>4. ASSUME NEW i \in Installs, ApplyBegin(i)
      PROVE  /\ row'[j].tx # NoTx => attempt'[row'[j].tx].inst = j
             /\ AfterTx(j)' # NoTx =>
                  /\ attempt'[AfterTx(j)'].inst = j
                  /\ j \in cut' \/ attempt'[AfterTx(j)'].state
                                     \in {"applying", "verifying", "reconciling"}
  <2>1. /\ row' = row /\ issued' = issued + 1
        /\ attempt'[issued'] = [state |-> "applying", inst |-> i, cfg |-> row[i].cfg]
        /\ \A u \in Transactions : u # issued' => attempt'[u] = attempt[u]
    BY <1>4, BeginFact
  <2>2. AfterTx(j) = row[j].tx /\ cut' = cut
    BY <1>4, FreeFact DEF ApplyBegin, LoopFree, histVars
  <2>3. row[j].tx # NoTx => row[j].tx # issued'
    BY <1>1, <1>2, <2>1 DEF TypeOK, Transactions
  <2>4. row'[j].tx # NoTx => attempt'[row'[j].tx].inst = j
    BY <1>1, <1>2, <2>1
  <2>5. AfterTx(j)' = IF i = j THEN issued' ELSE row[j].tx
    BY <1>4, BeginPending
  <2> QED BY <1>1, <1>2, <2>1, <2>2, <2>3, <2>4, <2>5 DEF OpenInv
<1>5. CASE ~OutcomeStep /\ \A i \in Installs : ~ApplyBegin(i)
  <2>1. attempt' = attempt /\ cut \subseteq cut'
    BY <1>5, PlainStep
  <2>2. /\ row'[j].tx \in {row[j].tx, AfterTx(j), NoTx}
        /\ \/ AfterTx(j)' \in {AfterTx(j), NoTx}
           \/ AfterTx(j)' = row[j].tx /\ j \in cut'
    BY <1>5, ViewStep
  <2> QED BY <1>1, <2>1, <2>2 DEF OpenInv
<1> QED BY <1>3, <1>4, <1>5

\* An attempt that a row shows as uncertain is not taken up again.
LEMMA UnsettledStep ==
  ASSUME TypeOK, RecordInv, JobInv, CheckInv, [Next]_vars, NEW t \in Transactions, Unsettled(t)
  PROVE  /\ attempt'[t].state \in {"reconciling", "failed"}
         /\ verified'[t] = None
         /\ job'.tx # t
<1>1. t <= issued
  BY DEF Unsettled, RecordInv, NoAttempt, TypeOK, Transactions
<1>2. ApplyAck => t # job.tx
  BY DEF Unsettled
<1>3. verified'[t] = None
  BY <1>2, VerifiedStep DEF Unsettled
<1>4. t # NoTx
  BY DEF NoTx, Transactions
<1>5. ASSUME NEW i \in Installs, ApplyBegin(i)
      PROVE  job'.tx # t /\ attempt'[t] = attempt[t]
  <2>1. /\ issued' = issued + 1
        /\ job' = [stage |-> "device", inst |-> i, tx |-> issued', cfg |-> row[i].cfg]
        /\ \A u \in Transactions : u # issued' => attempt'[u] = attempt[u]
    BY <1>5, BeginFact
  <2>2. t # issued'
    BY <1>1, <2>1 DEF TypeOK, Transactions
  <2> QED BY <2>1, <2>2
<1>6. job'.tx # t
  <2>1. CASE \E i \in Installs : ApplyBegin(i)
    BY <1>5, <2>1
  <2>2. CASE job' = NoJob
    BY <1>4, <2>2 DEF NoJob
  <2>3. CASE job' = job \/ \E s \in {"acked", "verify"} : job' = [job EXCEPT !.stage = s]
    BY <2>3 DEF TypeOK, Unsettled
  <2> QED BY <2>1, <2>2, <2>3, JobChange
<1>7. ASSUME OutcomeStep PROVE attempt'[t].state \in {"reconciling", "failed"}
  <2>1. PICK i \in Installs, u \in Transactions, state \in AttemptStates, new \in Rows :
          Outcome(i, u, state, new)
    BY <1>7, OutcomeTarget
  <2>2. /\ attempt'[u].state = state
        /\ \A w \in Transactions : w # u => attempt'[w] = attempt[w]
    BY <2>1, DecideFact DEF Outcome
  <2>3. ASSUME u = t PROVE state \in {"reconciling", "failed"}
    <3>1. ~(ApplyAck /\ u = job.tx)
      BY <1>2, <2>3
    <3>2. ASSUME NEW v \in Verifiers, VerifyActivate(v), check[v].tx = u PROVE FALSE
      BY <2>3, <3>2 DEF VerifyActivate, ReadBackMatches, Unsettled
    <3> QED BY <2>1, <3>1, <3>2 DEF Outcome
  <2> QED BY <2>2, <2>3 DEF Unsettled
<1>8. ASSUME ~OutcomeStep, \A i \in Installs : ~ApplyBegin(i) PROVE attempt' = attempt
  BY <1>8, PlainStep
<1> QED BY <1>3, <1>5, <1>6, <1>7, <1>8 DEF Unsettled

\* UncertainInv is preserved.
LEMMA UncertainStep ==
  ASSUME TypeOK, ShapeInv, RecordInv, JobInv, CheckInv, UncertainInv, [Next]_vars
  PROVE  UncertainInv'
<1> DEFINE Still(t) == /\ t \in Transactions
                       /\ attempt'[t].state \in {"reconciling", "failed"}
                       /\ verified'[t] = None
                       /\ job'.tx # t
<1> SUFFICES ASSUME NEW j \in Installs
             PROVE  /\ row'[j].state = "reconciling" => Still(row'[j].tx)
                    /\ AfterState(j)' = "reconciling" => Still(AfterTx(j)')
  BY DEF UncertainInv, Unsettled
<1>1. \A t : Unsettled(t) => Still(t)
  <2>1. \A t : Unsettled(t) => t \in Transactions
    BY DEF Unsettled
  <2> QED BY <2>1, UnsettledStep
<1>2. /\ row[j].state = "reconciling" => Still(row[j].tx)
      /\ AfterState(j) = "reconciling" => Still(AfterTx(j))
  BY <1>1 DEF UncertainInv
<1>3. CASE OutcomeStep
  <2>1. PICK i \in Installs, t \in Transactions, state \in AttemptStates, new \in Rows :
          Outcome(i, t, state, new)
    BY <1>3, OutcomeTarget
  <2>2. row' = row /\ Decide(i, t, state, new)
    BY <1>3, <2>1, OutcomeTarget DEF Outcome
  <2>3. CASE i # j
    <3>1. AfterTx(j)' = row[j].tx /\ AfterState(j)' = row[j].state
      BY <2>2, <2>3, OutcomePending
    <3> QED BY <1>2, <2>2, <3>1
  <2>4. CASE i = j
    <3>1. AfterTx(j)' = new.tx /\ AfterState(j)' = new.state /\ row[j] \in Rows
      BY <2>2, <2>4, OutcomePending DEF TypeOK
    <3>2. ASSUME new.state = "reconciling"
          PROVE  /\ ApplyUncertain /\ t = job.tx /\ state = "reconciling"
                 /\ new = UncertainRow(row[j], t)
      <4>1. \/ new = VerifyingRow(row[j]) \/ new = FailedRow(row[j]) \/ new = ActiveRow(row[j])
            \/ /\ ApplyUncertain /\ t = job.tx /\ state = "reconciling"
               /\ new = UncertainRow(row[j], t)
        BY <2>1, <2>4 DEF Outcome
      <4>2. /\ VerifyingRow(row[j]).state # "reconciling"
            /\ FailedRow(row[j]).state # "reconciling" /\ ActiveRow(row[j]).state # "reconciling"
        BY <3>1 DEF Rows, VerifyingRow, FailedRow, ActiveRow
      <4> QED BY <3>2, <4>1, <4>2
    <3>3. ASSUME new.state = "reconciling" PROVE Still(new.tx)
      <4>1. UncertainRow(row[j], t).tx = t
        BY <3>1 DEF Rows, UncertainRow
      <4>2. verified[t] = None /\ verified' = verified /\ job' = NoJob
        BY <3>2, <3>3 DEF ApplyUncertain, JobInv
      <4>3. attempt'[t].state = "reconciling"
        BY <2>2, <3>2, <3>3, DecideFact
      <4>4. t # NoTx
        BY DEF NoTx, Transactions
      <4> QED BY <3>2, <3>3, <4>1, <4>2, <4>3, <4>4 DEF NoJob
    <3> HIDE DEF Still
    <3> QED BY <1>2, <2>2, <3>1, <3>3
  <2> QED BY <2>3, <2>4
<1>4. ASSUME NEW i \in Installs, ApplyBegin(i)
      PROVE  /\ row'[j].state = "reconciling" => Still(row'[j].tx)
             /\ AfterState(j)' = "reconciling" => Still(AfterTx(j)')
  <2>1. row' = row
    BY <1>4 DEF ApplyBegin
  <2>2. i # j => AfterTx(j)' = row[j].tx /\ AfterState(j)' = row[j].state
    BY <1>4, BeginPending
  <2>3. i = j => AfterState(j)' = "applying"
    BY <1>4, BeginPending
  <2> QED BY <1>2, <2>1, <2>2, <2>3
<1>5. CASE ~OutcomeStep /\ \A i \in Installs : ~ApplyBegin(i)
  <2>1. /\ row'[j].state = "reconciling" =>
             \/ row[j].state = "reconciling" /\ row'[j].tx = row[j].tx
             \/ AfterState(j) = "reconciling" /\ row'[j].tx = AfterTx(j)
        /\ AfterState(j)' = "reconciling" =>
             \/ row[j].state = "reconciling" /\ AfterTx(j)' = row[j].tx
             \/ AfterState(j) = "reconciling" /\ AfterTx(j)' = AfterTx(j)
    BY <1>5, ViewStep
  <2> HIDE DEF Still
  <2> QED BY <1>2, <2>1
<1> HIDE DEF Still
<1> QED BY <1>3, <1>4, <1>5

\* A commit of dormant columns leaves a dormant row dormant.
LEMMA DormantCommit ==
  ASSUME TypeOK, NEW change, change.inst \in Installs, ColumnsOK(change.columns),
         Commit(change), Dormant(row[change.inst]), Dormant(change.columns)
  PROVE  Dormant(row'[change.inst])
<1>1. DOMAIN row[change.inst] = Columns
  BY RowFact DEF TypeOK
<1>2. row[change.inst].enabled = FALSE /\ row[change.inst].state # "active"
        /\ row[change.inst].prev = None
  BY <1>1 DEF Dormant, Columns
<1>3. \A c \in Columns : row'[change.inst][c] =
        IF c \in DOMAIN change.columns THEN change.columns[c] ELSE row[change.inst][c]
  BY CommitFact
<1>4. /\ row'[change.inst].enabled = FALSE /\ row'[change.inst].state # "active"
      /\ row'[change.inst].prev = None
  BY <1>2, <1>3 DEF Dormant, Columns
<1> QED BY <1>4 DEF Dormant

\* DormantInv is preserved.
LEMMA DormantStep ==
  ASSUME TypeOK, ShapeInv, JobInv, CheckInv, DormantInv, [Next]_vars
  PROVE  DormantInv'
<1> DEFINE Good(j) == /\ Dormant(row'[j])
                      /\ pending'.inst = j => Dormant(pending'.columns)
                      /\ request'.inst = j => Dormant(request'.columns)
                      /\ Dormant(batch'[j])
<1> SUFFICES ASSUME NEW j \in Installs, j \notin activated', j \notin waived'
             PROVE  Good(j)
  BY DEF DormantInv, Dormant
<1>1. ASSUME j \notin activated, j \notin waived
      PROVE  /\ Dormant(row[j])
             /\ pending.inst = j => Dormant(pending.columns)
             /\ request.inst = j => Dormant(request.columns)
             /\ Dormant(batch[j])
  BY <1>1 DEF DormantInv
<1>2. j # NoChange.inst /\ row[j] \in Rows /\ DOMAIN row[j] = Columns
  BY NoneAssumption, NoChangeFact, RowFact DEF TypeOK
<1>13. Dormant(NoBatch[j])
  BY NoBatchFact DEF Dormant
<1>3. ASSUME UNCHANGED <<activated, waived, row>>, pending' \in {pending, NoChange},
             request' \in {request, NoChange}, batch' \in {batch, NoBatch}
      PROVE  Good(j)
  BY <1>1, <1>2, <1>3, <1>13
<1>4. ASSUME NEW i \in Installs, NEW c \in Configs, Create(i, c) PROVE Good(j)
  <2>1. UNCHANGED <<activated, waived, pending, batch, request>>
    BY <1>4 DEF Create, taskVars, histVars
  <2>2. i # j => row'[j] = row[j]
    BY <1>4 DEF Create, TypeOK
  <2>3. i = j => Dormant(row'[j])
    BY <1>4 DEF Create, TypeOK, NoRow, Dormant
  <2> QED BY <1>1, <2>1, <2>2, <2>3
<1>5. ASSUME RequestStep PROVE Good(j)
  <2>1. PICK i \in Installs, new \in Rows :
          /\ RequestRead(i, new)
          /\ waived' = waived \/ waived' = waived \cup {i}
          /\ i \in waived' \/ (Dormant(row[i]) => Dormant(new))
    BY <1>5, RequestFact
  <2>2. /\ request'.inst = i /\ UNCHANGED <<row, pending, batch, activated>>
        /\ \A c \in Columns : c \in DOMAIN request'.columns => request'.columns[c] = new[c]
    BY <2>1, RequestChangeFact
  <2>3. Dormant(row[j]) /\ (pending.inst = j => Dormant(pending.columns)) /\ Dormant(batch[j])
    BY <1>1, <2>1, <2>2
  <2>4. ASSUME i = j PROVE Dormant(request'.columns)
    <3>1. Dormant(new) /\ DOMAIN new = Columns
      BY <2>1, <2>3, <2>4, RowFact
    <3> QED BY <2>2, <3>1 DEF Dormant, Columns
  <2> QED BY <2>2, <2>3, <2>4
<1>6. ASSUME RequestCommit \/ LoopCommit PROVE Good(j)
  <2>1. UNCHANGED <<activated, waived, batch>>
    BY <1>6 DEF RequestCommit, LoopCommit, histVars
  <2>2. ASSUME NEW change, ChangeInv(change), change # NoChange, ColumnsOK(change.columns),
               Commit(change), change.inst = j => Dormant(change.columns)
        PROVE  Dormant(row'[j])
    <3>1. change.inst \in Installs
      BY <2>2 DEF ChangeInv
    <3>2. CASE change.inst = j
      BY <1>1, <2>1, <2>2, <3>1, <3>2, DormantCommit
    <3>3. CASE change.inst # j
      BY <1>1, <2>1, <2>2, <3>1, <3>3, CommitFact
    <3> QED BY <3>2, <3>3
  <2>3. ColumnsOK(request.columns) /\ ColumnsOK(pending.columns)
    BY DEF TypeOK
  <2>4. Dormant(row'[j])
    BY <1>1, <1>6, <2>1, <2>2, <2>3 DEF RequestCommit, LoopCommit, ShapeInv
  <2>5. pending' \in {pending, NoChange} /\ request' \in {request, NoChange}
    BY <1>6 DEF RequestCommit, LoopCommit
  <2> QED BY <1>1, <1>2, <2>1, <2>4, <2>5
<1>7. ASSUME NEW i \in Installs, NEW valid \in BOOLEAN, ValidateBegin(i, valid) PROVE Good(j)
  <2>1. /\ row'[i].state = "validating"
        /\ \A c \in Columns \ {"state"} : row'[i][c] = row[i][c]
        /\ \A k \in Installs \ {i} : row'[k] = row[k]
        /\ pending'.inst = i
        /\ pending'.columns["state"] \in {"ready_to_apply", "failed"}
        /\ "prev" \notin DOMAIN pending'.columns
        /\ "enabled" \in DOMAIN pending'.columns => pending'.columns["enabled"] = FALSE
        /\ UNCHANGED <<batch, request, activated, waived>>
    BY <1>7, ValidateFact
  <2>2. CASE i = j
    <3>1. Dormant(row'[j])
      BY <1>1, <1>2, <2>1, <2>2 DEF Dormant, Columns
    <3>2. Dormant(pending'.columns)
      BY <2>1 DEF Dormant
    <3> QED BY <1>1, <2>1, <3>1, <3>2
  <2>3. CASE i # j
    BY <1>1, <2>1, <2>3
  <2> QED BY <2>2, <2>3
<1>8. ASSUME NEW i \in Installs, ApplyBegin(i) PROVE Good(j)
  <2>1. UNCHANGED <<row, batch, request, activated, waived>>
    BY <1>8 DEF ApplyBegin, histVars
  <2>2. pending'.inst = i
    BY <1>8, BeginFact
  <2>3. Dormant(pending'.columns)
    BY <1>8, BeginPending DEF Dormant
  <2> QED BY <1>1, <2>1, <2>2, <2>3
<1>9. ASSUME OutcomeStep PROVE Good(j)
  <2>1. PICK i \in Installs, t \in Transactions, state \in AttemptStates, new \in Rows :
          Outcome(i, t, state, new)
    BY <1>9, OutcomeTarget
  <2>2. /\ UNCHANGED <<row, batch, request, waived>> /\ activated \subseteq activated'
        /\ \A v \in Verifiers : VerifyActivate(v) => check[v].inst \in activated'
    BY <1>9, OutcomeTarget
    DEF OutcomeStep, ApplyAck, ApplyUncertain, ApplyReject, VerifyActivate, VerifyFail, histVars
  <2>3. /\ pending'.inst = i
        /\ \A c \in Columns : /\ c \in DOMAIN pending'.columns <=> new[c] # row[i][c]
                              /\ c \in DOMAIN pending'.columns => pending'.columns[c] = new[c]
    BY <2>1, DecideFact DEF Outcome
  <2>4. Dormant(row[j])
    BY <1>1, <2>2
  <2>5. ASSUME i = j PROVE Dormant(pending'.columns)
    <3>1. row[j].prev = None /\ row[j].enabled = FALSE /\ row[j].state # "active"
      BY <1>2, <2>4 DEF Dormant, Columns
    <3>2. \/ new = VerifyingRow(row[j]) \/ new = FailedRow(row[j])
          \/ new = UncertainRow(row[j], t)
      BY <2>1, <2>2, <2>5 DEF Outcome
    <3>3. new.prev = None /\ new.enabled = FALSE /\ new.state # "active"
      BY <1>2, <3>1, <3>2 DEF Rows, VerifyingRow, FailedRow, UncertainRow
    <3> QED BY <2>3, <3>3 DEF Dormant, Columns
  <2> QED BY <1>1, <2>2, <2>3, <2>4, <2>5
<1>10. ASSUME QuietStep PROVE Good(j)
  BY <1>3, <1>10, QuietFact
<1>11. ASSUME Restart PROVE Good(j)
  BY <1>3, <1>11, RestartFact
<1>12. ASSUME UNCHANGED vars PROVE Good(j)
  BY <1>3, <1>12 DEF vars, dbVars, taskVars, histVars
<1>14. ASSUME LoadStep PROVE Good(j)
  <2>1. /\ UNCHANGED <<row, pending, request, activated>> /\ waived \subseteq waived'
        /\ Dormant(batch'[j])
    BY <1>14, LoadFact DEF dbVars
  <2> QED BY <1>1, <2>1
<1>15. ASSUME BatchCommit PROVE Good(j)
  <2>1. /\ UNCHANGED <<pending, request, activated, waived>> /\ batch' = NoBatch
        /\ \A c \in Columns :
             row'[j][c] = IF c \in DOMAIN batch[j] THEN batch[j][c] ELSE row[j][c]
    BY <1>15, BatchFact DEF histVars
  <2>2. /\ row[j].enabled = FALSE /\ row[j].state # "active" /\ row[j].prev = None
        /\ Dormant(batch[j])
    BY <1>1, <1>2, <2>1 DEF Dormant, Columns
  <2>3. row'[j].enabled = FALSE /\ row'[j].state # "active" /\ row'[j].prev = None
    BY <2>1, <2>2 DEF Dormant, Columns
  <2>4. Dormant(row'[j])
    BY <2>3 DEF Dormant
  <2> QED BY <1>1, <1>13, <2>1, <2>4
<1> HIDE DEF Good
<1> QED
  BY <1>4, <1>5, <1>6, <1>7, <1>8, <1>9, <1>10, <1>11, <1>12, <1>14, <1>15, StepCases

-----------------------------------------------------------------------------
(* The theorems                                                            *)

\* The invariant holds of a gateway that knows no installation and a node that
\* has no configuration.
LEMMA InitInv == Init => IInv
<1> SUFFICES ASSUME Init PROVE IInv
  OBVIOUS
<1>1. TypeOK
  BY TypeInit
<1>2. ShapeInv
  BY NoChangeFact, NoBatchFact DEF Init, ShapeInv, ChangeInv, BatchInv, Exists, NoRow
<1>3. RecordInv
  BY DEF Init, RecordInv, Transactions, NoAttempt
<1>4. JobInv /\ CheckInv
  BY DEF Init, JobInv, NoJob, CheckInv
<1>5. \A i \in Installs : row[i] = NoRow /\ pending.inst # i /\ request.inst # i
  BY NoneAssumption, NoChangeFact DEF Init
<1>6. OpenInv /\ UncertainInv
  BY <1>5 DEF OpenInv, UncertainInv, AfterTx, AfterState, NoRow
<1>7. DormantInv
  BY <1>5, NoBatchFact DEF Init, DormantInv, Dormant, NoRow
<1>8. AcknowledgedIsOnNode /\ NodeConfigOnRecord
  BY DEF Init, AcknowledgedIsOnNode, NodeConfigOnRecord, NoCommand
<1> QED BY <1>1, <1>2, <1>3, <1>4, <1>6, <1>7, <1>8 DEF IInv

\* Every step preserves the invariant.
LEMMA StepInv == IInv /\ [Next]_vars => IInv'
  BY TypeStep, ShapeStep, RecordStep, JobStep, CheckStep, OpenStep, UncertainStep, DormantStep,
     AcknowledgedStep, OnRecordStep
  DEF IInv

\* The invariant holds throughout: for any set of installations and
\* configurations, any number of attempts, any interleaving of worker threads
\* with the coroutines, and restarts anywhere.
THEOREM Invariance == Spec => []IInv
  BY InitInv, StepInv, PTL DEF Spec

\* The tables and the process's memory hold what their types allow.
THEOREM TypeCorrectness == Spec => []TypeOK
<1>1. IInv => TypeOK
  BY DEF IInv
<1> QED BY <1>1, Invariance, PTL

\* An installation names an attempt of its own, and one that is undecided,
\* unless a restart cut the row off from the attempt's outcome.
THEOREM OpenTransactions == Spec => []TransactionIsOpen
<1>1. IInv => TransactionIsOpen
  <2> SUFFICES ASSUME IInv, NEW i \in Installs, row[i].tx # NoTx
               PROVE  /\ attempt[row[i].tx].inst = i
                      /\ i = pending.inst \/ i \in cut
                           \/ attempt[row[i].tx].state \in {"applying", "verifying", "reconciling"}
    BY DEF TransactionIsOpen
  <2>1. i # pending.inst => AfterTx(i) = row[i].tx
    BY DEF AfterTx
  <2> QED BY <2>1 DEF IInv, OpenInv
<1> QED BY <1>1, Invariance, PTL

\* An installation shown as reconciling names the attempt to reconcile.
THEOREM ReconcilingIsRecorded == Spec => []ReconcilingNamesAttempt
<1>1. IInv => ReconcilingNamesAttempt
  BY DEF IInv, UncertainInv, Unsettled, ReconcilingNamesAttempt, NoTx, Transactions
<1> QED BY <1>1, Invariance, PTL

\* What the adapter remembers as acknowledged is what was asked for and what
\* the node holds, unless another writer has overruled it since.
THEOREM AcknowledgedOnNode == Spec => []AcknowledgedIsOnNode
<1>1. IInv => AcknowledgedIsOnNode
  BY DEF IInv
<1> QED BY <1>1, Invariance, PTL

\* What apply() sends, and what the node has from it, is on record in the
\* attempt whose id the command carries.
THEOREM ConfigOnRecord == Spec => []NodeConfigOnRecord
<1>1. IInv => NodeConfigOnRecord
  BY DEF IInv
<1> QED BY <1>1, Invariance, PTL

\* No installation is enabled or shown as active that verify() never found so,
\* unless upgrade-profile or the guided restore was used on it.
THEOREM NoUnverifiedSuccess == Spec => []EnabledOnlyAfterVerification
<1>1. IInv => EnabledOnlyAfterVerification
  <2> SUFFICES ASSUME IInv, NEW i \in Installs, i \notin activated, i \notin waived
               PROVE  ~row[i].enabled /\ row[i].state # "active"
    BY DEF EnabledOnlyAfterVerification
  <2>1. DOMAIN row[i] = Columns
    BY RowFact DEF IInv, TypeOK
  <2> QED BY <2>1 DEF IInv, DormantInv, Dormant, Columns
<1> QED BY <1>1, Invariance, PTL
=============================================================================
