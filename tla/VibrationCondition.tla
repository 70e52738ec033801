------------------------- MODULE VibrationCondition -------------------------
(* VibrationConditionService of the gateway for one node: process(), which   *)
(* ingest runs in a worker thread for every vibration window, and            *)
(* relearn_baseline(), which the API runs in threads of its own.             *)
(*                                                                           *)
(* SQLite starts a transaction with the first write, so what a thread reads  *)
(* before it is not protected, and SQLAlchemy updates only the columns whose *)
(* value the thread has changed (Merge).  A window is its number and its     *)
(* validity; its features show only in the statistics they are counted in    *)
(* and in the state evaluate_condition finds.  The rows of vibration_windows *)
(* are left out: no decision of this service depends on them.                *)
EXTENDS Naturals, FiniteSets, Sequences

CONSTANTS
  Threads,       \* worker threads that can run at once
  Requests,      \* request_ids of relearn calls
  Minimum,       \* minimum_windows (100)
  Persistence,   \* persistence_windows (3)
  Scoped,        \* the node's IMU0 has an installation (installation_id is not NULL)
  MaxWindows,    \* bound: windows the node sends
  MaxVersion,    \* bound: baseline versions
  None

ASSUME VibrationAssumption ==
  /\ {Minimum, Persistence, MaxVersion} \subseteq Nat \ {0}
  /\ MaxWindows \in Nat
  /\ Scoped \in BOOLEAN
  /\ None \notin Requests \cup Nat \cup {"ELEVATED", "SIGNIFICANT_CHANGE"}

VARIABLES
  base,      \* row of vibration_baselines; samples: the windows in statistics_json
  cond,      \* row of vibration_conditions
  history,   \* versions in vibration_baseline_history
  latest,    \* the newest window received, and whether ingest remembers it
  thread,    \* what each worker thread does, with the rows it has read
  good,      \* history: the valid windows received
  streak,    \* history: the state the last commits found, and how many of them
  overtaken, \* history: a commit has met another condition than it had read, and
             \* a state has been pending since
  made       \* history: the request that made each version

vars == <<base, cond, history, latest, thread, good, streak, overtaken, made>>
rows == <<base, cond, history>>
evals == <<streak, overtaken>>

Alarms == {"ELEVATED", "SIGNIFICANT_CHANGE"}
Unrated == {"INVALID", "BASELINE_PENDING", "INSUFFICIENT_DATA"}
States == Alarms \cup Unrated \cup {"NORMAL"}
Idle == [kind |-> "idle"]
NoStreak == [state |-> None, n |-> 0]

\* An invalid first window, number 0, has made both rows.
Init ==
  /\ base = [version |-> 1, status |-> "building", count |-> 0, samples |-> <<>>,
             last |-> 0, request |-> None]
  /\ cond = [state |-> "INSUFFICIENT_DATA", pending |-> None, pendingCount |-> 0]
  /\ history = {}
  /\ latest = [win |-> 0, valid |-> FALSE, remembered |-> TRUE]
  /\ thread = [t \in Threads |-> Idle]
  /\ good = {} /\ streak = NoStreak /\ overtaken = FALSE /\ made = [v \in {1} |-> None]

-----------------------------------------------------------------------------
(* The rows.                                                               *)

\* The UPDATE of a flush: only columns that differ from what was read.
Merge(row, read, new) ==
  [f \in DOMAIN row |-> IF new[f] # read[f] THEN new[f] ELSE row[f]]

\* Mutant: invalid windows are learned from.
AnyEligible(w) == TRUE

Eligible(w) == w.valid

Learns(b, w) == Eligible(w) /\ b.status = "building"

\* What process() makes of the baseline.
Learned(b, w) ==
  LET seen == [b EXCEPT !.last = w.win]
  IN  IF ~Learns(b, w) THEN seen
      ELSE [seen EXCEPT !.count = @ + 1, !.samples = Append(@, w.win),
                        !.status = IF b.count + 1 >= Minimum THEN "frozen" ELSE @]

\* The states the window can get; which one a frozen baseline gives depends
\* on the features.
Ratings(b, w) ==
  CASE Learns(b, w) -> {IF b.count + 1 >= Minimum THEN "NORMAL" ELSE "BASELINE_PENDING"}
    [] Eligible(w) /\ b.status = "frozen" -> Alarms \cup {"NORMAL"}
    [] OTHER -> {IF b.count = 0 THEN "INSUFFICIENT_DATA" ELSE "INVALID"}

Settled(s) == [state |-> s, pending |-> None, pendingCount |-> 0]

\* Mutant: another pending state does not start the count again.
NextCountKept(c, s) == c.pendingCount + 1

NextCount(c, s) == IF c.pending = s THEN c.pendingCount + 1 ELSE 1

\* Mutant: one window too many.
EnoughLate(n) == n > Persistence

Enough(n) == n >= Persistence

\* A change of state needs Persistence windows that agree, except the first
\* rating of a new baseline.
Rated(c, s) ==
  IF \/ s \in Unrated \cup {c.state}
     \/ Enough(NextCount(c, s))
     \/ c.state = "BASELINE_PENDING" /\ s = "NORMAL"
  THEN Settled(s)
  ELSE [c EXCEPT !.pending = s, !.pendingCount = NextCount(c, s)]

-----------------------------------------------------------------------------
(* Windows.                                                                *)

Job(w) == [kind |-> "process", win |-> w.win, valid |-> w.valid]

Free(t) == thread[t] = Idle
Finish(t) == thread' = [thread EXCEPT ![t] = Idle]

HasRead(t) == "base" \in DOMAIN thread[t]

\* A window arrives; ingest hands it to a thread.  A window takes the node 256
\* samples to make, and a reader of the WAL database waits for nobody: the
\* threads of the window before have read their rows.  Their commits may
\* still wait, busy_timeout long, for other writers.
Arrive(t, valid) ==
  /\ Free(t) /\ latest.win < MaxWindows
  /\ \A u \in Threads : thread[u].kind = "process" => HasRead(u)
  /\ latest' = [win |-> latest.win + 1, valid |-> valid, remembered |-> FALSE]
  /\ good' = IF valid THEN good \cup {latest'.win} ELSE good
  /\ thread' = [thread EXCEPT ![t] = Job(latest')]
  /\ UNCHANGED <<rows, evals, made>>

\* The same window again, over a second connection that has not been closed:
\* ingest discards it only once the first copy has been processed.
ArriveAgain(t) ==
  /\ Free(t) /\ ~latest.remembered
  /\ thread' = [thread EXCEPT ![t] = Job(latest)]
  /\ UNCHANGED <<rows, latest, good, evals, made>>

\* The SELECTs of process() and relearn_baseline().
Read(t) ==
  /\ ~Free(t) /\ ~HasRead(t)
  /\ thread' = [thread EXCEPT ![t] = [f \in DOMAIN @ \cup {"base", "cond"} |->
                  CASE f = "base" -> base [] f = "cond" -> cond [] OTHER -> @[f]]]
  /\ UNCHANGED <<rows, latest, good, evals, made>>

Ready(t, kind) == thread[t].kind = kind /\ HasRead(t)

Remembers(t) ==
  latest' = IF latest.win = thread[t].win THEN [latest EXCEPT !.remembered = TRUE] ELSE latest

\* The window is the last one the baseline has seen: rollback.
ProcessDuplicate(t) ==
  /\ Ready(t, "process") /\ thread[t].base.last = thread[t].win
  /\ Remembers(t) /\ Finish(t)
  /\ UNCHANGED <<rows, good, evals, made>>

\* A commit of another state starts the streak again.
Streak(s) ==
  IF streak.state # s THEN [state |-> s, n |-> 1]
  ELSE [streak EXCEPT !.n = IF @ < Persistence THEN @ + 1 ELSE @]

\* The condition has changed since it was read, or since an earlier commit met
\* a changed one a state has been pending.
Overtakes(read) == overtaken' = (cond # read \/ (overtaken /\ cond'.pending # None))

\* The window is counted or rated, and both rows are committed.
ProcessCommit(t, s) ==
  LET w == thread[t]
  IN  /\ Ready(t, "process") /\ w.base.last # w.win
      /\ s \in Ratings(w.base, w)
      /\ w.base.status = "frozen" /\ Eligible(w) => w.base.samples # <<>>
      /\ base' = Merge(base, w.base, Learned(w.base, w))
      /\ cond' = Merge(cond, w.cond, Rated(w.cond, s))
      /\ streak' = Streak(s) /\ Overtakes(w.cond)
      /\ Remembers(t) /\ Finish(t)
      /\ UNCHANGED <<history, good, made>>

\* The database, the device row or an empty frozen baseline raises: nothing is
\* written, and ingest does not remember the window.
ProcessFails(t) ==
  /\ Ready(t, "process")
  /\ Finish(t)
  /\ UNCHANGED <<rows, latest, good, evals, made>>

-----------------------------------------------------------------------------
(* Relearning.                                                             *)

\* POST .../baseline/relearn with a request id, or .../baseline/reset without.
Relearn(t, r) ==
  /\ Free(t)
  /\ thread' = [thread EXCEPT ![t] = [kind |-> "relearn", request |-> r]]
  /\ UNCHANGED <<rows, latest, good, evals, made>>

\* Mutant: the request id is not compared.
NeverRepeated(t) == FALSE

\* The request has already made the version that was read.
Repeated(t) == thread[t].request # None /\ thread[t].base.request = thread[t].request

\* Mutant: no unique constraint on the history.
NotUnique(v) == FALSE

\* uq_vibration_baseline_history_version, which lets NULL installations pass.
AlreadySuperseded(v) == Scoped /\ v \in history

\* A retry is answered with the baseline it made.
RelearnRepeated(t) ==
  /\ Ready(t, "relearn") /\ Repeated(t)
  /\ Finish(t)
  /\ UNCHANGED <<rows, latest, good, evals, made>>

\* The old version goes to the history, the row starts again.
RelearnCommit(t) ==
  LET b == thread[t].base
      fresh == [version |-> b.version + 1, status |-> "building", count |-> 0,
                samples |-> <<>>, last |-> None, request |-> thread[t].request]
  IN  /\ Ready(t, "relearn") /\ ~Repeated(t) /\ ~AlreadySuperseded(b.version)
      /\ b.version < MaxVersion
      /\ history' = history \cup {b.version}
      /\ base' = Merge(base, b, fresh)
      /\ cond' = Merge(cond, thread[t].cond, Settled("BASELINE_PENDING"))
      /\ made' = [v \in DOMAIN made \cup {b.version + 1} |->
                    IF v = b.version + 1 THEN thread[t].request ELSE made[v]]
      /\ streak' = NoStreak /\ Overtakes(thread[t].cond)
      /\ Finish(t)
      /\ UNCHANGED <<latest, good>>

\* The unique constraint or the database refuses: rollback.
RelearnFails(t) ==
  /\ Ready(t, "relearn")
  /\ Finish(t)
  /\ UNCHANGED <<rows, latest, good, evals, made>>

Next ==
  \E t \in Threads :
    \/ \E valid \in BOOLEAN : Arrive(t, valid)
    \/ ArriveAgain(t)
    \/ Read(t)
    \/ ProcessDuplicate(t)
    \/ \E s \in States : ProcessCommit(t, s)
    \/ ProcessFails(t)
    \/ \E r \in Requests \cup {None} : Relearn(t, r)
    \/ RelearnRepeated(t)
    \/ RelearnCommit(t)
    \/ RelearnFails(t)

Spec == Init /\ [][Next]_vars

-----------------------------------------------------------------------------
(* Correctness.                                                            *)

Windows == 0..MaxWindows
Bases == [version : 1..MaxVersion, status : {"building", "frozen"}, count : Nat,
          samples : Seq(Windows), last : Windows \cup {None}, request : Requests \cup {None}]
Conds == [state : States, pending : States \cup {None}, pendingCount : 0..(Persistence - 1)]

\* Every row keeps its type: a pending state has not yet been seen
\* Persistence times.
TypeOK ==
  /\ base \in Bases /\ cond \in Conds
  /\ history \subseteq 1..MaxVersion
  /\ latest \in [win : Windows, valid : BOOLEAN, remembered : BOOLEAN]
  /\ \A t \in Threads : thread[t].kind \in {"idle", "process", "relearn"}
  /\ good \subseteq Windows
  /\ streak \in [state : States \cup {None}, n : 0..Persistence] /\ overtaken \in BOOLEAN
  /\ made \in [1..Cardinality(DOMAIN made) -> Requests \cup {None}]

\* "Invalid acquisition windows ... never update it": however windows and
\* relearn calls interleave and overwrite each other's columns, the statistics
\* hold valid windows only, and sample_count is the number of windows in them.
BaselineIsItsSamples ==
  /\ base.count = Len(base.samples)
  /\ \A i \in DOMAIN base.samples : base.samples[i] \in good

\* An alarm is raised: cond changes to a state of Alarms.
Raised == cond'.state \in Alarms /\ cond'.state # cond.state

\* All of the last Persistence evaluations have found the state that is shown.
Persistent == streak' = [state |-> cond'.state, n |-> Persistence]

\* "Three consecutive evaluations are required for a state transition": an alarm
\* is raised only when the last persistence_windows evaluations to be committed
\* have all found it.
AlarmIsPersistent == [][Raised => Persistent]_vars

\* The same for every alarm whose evaluations did not overtake each other, over
\* changing states, invalid windows, duplicates and relearning in between: the
\* count is exact from the last time nothing was pending, or no commit since
\* then has met a condition that another one had changed.
AlarmIsPersistentUnlessOvertaken == [][Raised => Persistent \/ overtaken \/ overtaken']_vars

\* Relearning retains the history: every version before the present one has
\* its row, and the present one is not superseded.
HistoryComplete == Scoped => history = 1..(base.version - 1)

\* Two versions in a row never come from one request: a relearn that is repeated
\* before any other has committed makes no second version, also when both calls
\* have read the baseline before either has written it. (A repetition after
\* another relearn does, since only the last request id is kept.)
RepeatMakesNoVersion ==
  Scoped => \A v \in DOMAIN made \ {1} : made[v] # None => made[v] # made[v - 1]

\* A baseline freezes with its minimum of samples, and relearning it leaves it
\* building with none: a frozen baseline has statistics to compare with.
FrozenHasBaseline == base.status = "frozen" => base.count >= Minimum
=============================================================================
