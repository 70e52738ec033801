---------------------- MODULE VibrationConditionProofs ----------------------
(* Proofs for any number of threads, windows and relearn calls: the columns  *)
(* of the baseline agree with each other (IInv); a pending state has its     *)
(* streak, and the versions and their history are complete (RowsInv).        *)
EXTENDS VibrationCondition, FiniteSetTheorems, TLAPS

\* The two columns agree, and every window in the statistics was valid.
Sound(b, windows) ==
  /\ b.samples \in Seq(Nat)
  /\ b.count = Len(b.samples)
  /\ \A i \in 1..Len(b.samples) : b.samples[i] \in windows

Columns == {"version", "status", "count", "samples", "last", "request"}

IsRow(b) == DOMAIN b = Columns /\ b = [f \in Columns |-> b[f]]

\* Where a thread has read the rows, it has read sound ones; where it works on a
\* valid window, the window was received.
ThreadSound(th, windows) ==
  /\ "base" \in DOMAIN th => IsRow(th.base) /\ Sound(th.base, windows)
  /\ "kind" \in DOMAIN th
  /\ th.kind = "process" => /\ {"win", "valid"} \subseteq DOMAIN th
                            /\ th.win \in Nat
                            /\ th.valid => th.win \in windows

\* The inductive invariant: also what a thread has read is sound, since an
\* UPDATE mixes it with the row.
IInv ==
  /\ IsRow(base) /\ Sound(base, good)
  /\ latest \in [win : Nat, valid : BOOLEAN, remembered : BOOLEAN]
  /\ latest.valid => latest.win \in good
  /\ thread = [t \in Threads |-> thread[t]]
  /\ \A t \in Threads : ThreadSound(thread[t], good)

\* What is sound for fewer windows is sound for more.
LEMMA SoundGrows ==
  ASSUME NEW b, NEW W, NEW V, W \subseteq V, Sound(b, W)
  PROVE  Sound(b, V)
BY DEF Sound

\* An UPDATE that changes both columns or neither keeps them in agreement.
LEMMA MergeSound ==
  ASSUME NEW row, NEW read, NEW new, NEW W,
         IsRow(row), Sound(row, W), Sound(new, W),
         (new.count # read.count /\ new.samples # read.samples)
           \/ (new.count = read.count /\ new.samples = read.samples)
  PROVE  IsRow(Merge(row, read, new)) /\ Sound(Merge(row, read, new), W)
<1> DEFINE m == Merge(row, read, new)
<1>1. IsRow(m)
  BY DEF Merge, IsRow
<1>2. /\ m.count = (IF new.count # read.count THEN new.count ELSE row.count)
      /\ m.samples = (IF new.samples # read.samples THEN new.samples ELSE row.samples)
  BY DEF Merge, Columns, IsRow
<1>3. (m.count = new.count /\ m.samples = new.samples) \/ (m.count = row.count /\ m.samples = row.samples)
  BY <1>2
<1>4. Sound(m, W)
  BY <1>3 DEF Sound
<1> QED BY <1>1, <1>4

\* A relearn starts from nothing: it clears both columns, or finds both clear.
LEMMA FreshSound ==
  ASSUME NEW read, NEW W, NEW new, Sound(read, W), new.count = 0, new.samples = <<>>
  PROVE  /\ Sound(new, W)
         /\ \/ new.count # read.count /\ new.samples # read.samples
            \/ new.count = read.count /\ new.samples = read.samples
<1>1. Sound(new, W)
  BY DEF Sound
<1>2. read.count = 0 <=> read.samples = <<>>
  BY DEF Sound
<1> QED BY <1>1, <1>2

\* process() counts a valid window in both columns, and changes neither
\* otherwise.
LEMMA LearnedSound ==
  ASSUME NEW b, NEW w, NEW W, IsRow(b), Sound(b, W), w.win \in Nat, w.valid => w.win \in W
  PROVE  /\ Sound(Learned(b, w), W)
         /\ \/ Learned(b, w).count # b.count /\ Learned(b, w).samples # b.samples
            \/ Learned(b, w).count = b.count /\ Learned(b, w).samples = b.samples
<1>1. CASE ~Learns(b, w)
  <2>1. Learned(b, w).count = b.count /\ Learned(b, w).samples = b.samples
    BY <1>1 DEF Learned, Columns, IsRow
  <2> QED BY <2>1 DEF Sound
<1>2. CASE Learns(b, w)
  <2>1. Learned(b, w).count = b.count + 1 /\ Learned(b, w).samples = Append(b.samples, w.win)
    BY <1>2 DEF Learned, Columns, IsRow
  <2>2. w.win \in W
    BY <1>2 DEF Learns, Eligible
  <2>3. /\ Append(b.samples, w.win) \in Seq(Nat)
        /\ Len(Append(b.samples, w.win)) = Len(b.samples) + 1
        /\ \A i \in 1..(Len(b.samples) + 1) :
             Append(b.samples, w.win)[i] = IF i <= Len(b.samples) THEN b.samples[i] ELSE w.win
    BY DEF Sound
  <2>4. Sound(Learned(b, w), W)
    <3> DEFINE n == Len(b.samples)
               longer == Append(b.samples, w.win)
    <3>1. n \in Nat /\ b.count = n /\ \A i \in 1..n : b.samples[i] \in W
      BY DEF Sound
    <3>2. \A i \in 1..(n + 1) : longer[i] \in W
      BY <2>2, <2>3, <3>1
    <3> HIDE DEF n, longer
    <3>3. \A i \in 1..Len(longer) : longer[i] \in W
      BY <2>3, <3>2 DEF n, longer
    <3> QED BY <2>1, <2>3, <3>1, <3>3 DEF Sound, n, longer
  <2>5. b.count + 1 # b.count /\ Append(b.samples, w.win) # b.samples
    BY <2>3 DEF Sound
  <2> QED BY <2>1, <2>4, <2>5
<1> QED BY <1>1, <1>2

\* Init: no window has been learned from, no thread runs.
LEMMA InitInv == Init => IInv
<1> SUFFICES ASSUME Init PROVE IInv
  OBVIOUS
<1>1. IsRow(base) /\ Sound(base, good)
  BY DEF Init, IsRow, Sound, Columns
<1>2. \A t \in Threads : ThreadSound(thread[t], good)
  BY DEF Init, Idle, ThreadSound
<1> QED BY <1>1, <1>2 DEF Init, IInv

\* A step that leaves the rows alone, loses no received window and leaves every
\* thread sound keeps the invariant.
LEMMA RowsKept ==
  ASSUME IInv, base' = base, good \subseteq good',
         latest' \in [win : Nat, valid : BOOLEAN, remembered : BOOLEAN],
         latest'.valid => latest'.win \in good',
         NEW t \in Threads, NEW job, ThreadSound(job, good'),
         thread' = [thread EXCEPT ![t] = job]
  PROVE  IInv'
<1>1. thread' = [u \in Threads |-> thread'[u]]
  BY DEF IInv
<1>2. \A u \in Threads : ThreadSound(thread'[u], good')
  <2> SUFFICES ASSUME NEW u \in Threads PROVE ThreadSound(thread'[u], good')
    OBVIOUS
  <2>1. CASE u = t
    BY <2>1 DEF IInv
  <2>2. CASE u # t
    <3>1. thread'[u] = thread[u]
      BY <2>2 DEF IInv
    <3>2. ThreadSound(thread[u], good)
      BY DEF IInv
    <3> QED BY <3>1, <3>2, SoundGrows DEF ThreadSound
  <2> QED BY <2>1, <2>2
<1>3. IsRow(base') /\ Sound(base', good')
  BY SoundGrows DEF IInv
<1> QED BY <1>1, <1>2, <1>3 DEF IInv

\* A commit that leaves a sound row and ends its thread keeps the invariant.
LEMMA RowWritten ==
  ASSUME IInv, IsRow(base'), Sound(base', good), good' = good,
         latest' \in {latest, [latest EXCEPT !.remembered = TRUE]},
         NEW t \in Threads, Finish(t)
  PROVE  IInv'
<1>1. thread' = [u \in Threads |-> thread'[u]]
  BY DEF IInv, Finish
<1>2. \A u \in Threads : ThreadSound(thread'[u], good')
  <2> SUFFICES ASSUME NEW u \in Threads PROVE ThreadSound(thread'[u], good')
    OBVIOUS
  <2>1. thread'[u] = Idle \/ thread'[u] = thread[u]
    BY DEF IInv, Finish
  <2>2. ThreadSound(Idle, good)
    BY DEF Idle, ThreadSound
  <2> QED BY <2>1, <2>2 DEF IInv
<1>3. /\ latest' \in [win : Nat, valid : BOOLEAN, remembered : BOOLEAN]
      /\ latest'.valid => latest'.win \in good
  BY DEF IInv
<1> QED BY <1>1, <1>2, <1>3 DEF IInv

\* Every step of a window's or a relearn call's thread keeps the invariant.
LEMMA NextInv == IInv /\ [Next]_vars => IInv'
<1> SUFFICES ASSUME IInv, [Next]_vars PROVE IInv'
  OBVIOUS
<1>s. ThreadSound(Idle, good)
  BY DEF Idle, ThreadSound
<1>w. \A t \in Threads : ThreadSound(thread[t], good)
  BY DEF IInv
<1>1. ASSUME NEW t \in Threads, NEW valid \in BOOLEAN, Arrive(t, valid) PROVE IInv'
  <2>1. /\ latest' = [win |-> latest.win + 1, valid |-> valid, remembered |-> FALSE]
        /\ latest.win \in Nat
    BY <1>1 DEF Arrive, IInv
  <2>2. good \subseteq good' /\ (latest'.valid => latest'.win \in good')
    BY <1>1, <2>1 DEF Arrive
  <2>3. ThreadSound(Job(latest'), good')
    BY <2>1, <2>2 DEF ThreadSound, Job
  <2>4. base' = base /\ thread' = [thread EXCEPT ![t] = Job(latest')]
    BY <1>1 DEF Arrive, rows
  <2>5. latest' \in [win : Nat, valid : BOOLEAN, remembered : BOOLEAN]
    BY <2>1
  <2> QED BY <2>2, <2>3, <2>4, <2>5, RowsKept
<1>2. ASSUME NEW t \in Threads, ArriveAgain(t) PROVE IInv'
  <2>1. ThreadSound(Job(latest), good)
    BY DEF ThreadSound, Job, IInv
  <2> QED BY <1>2, <2>1, RowsKept DEF ArriveAgain, rows, IInv
<1>3. ASSUME NEW t \in Threads, Read(t) PROVE IInv'
  <2> DEFINE job == [f \in DOMAIN thread[t] \cup {"base", "cond"} |->
                      CASE f = "base" -> base [] f = "cond" -> cond [] OTHER -> thread[t][f]]
  <2>1. thread' = [thread EXCEPT ![t] = job]
    BY <1>3 DEF Read
  <2>2. job.base = base
    OBVIOUS
  <2>3. /\ "kind" \in DOMAIN thread[t] => job.kind = thread[t].kind
        /\ "win" \in DOMAIN thread[t] => job.win = thread[t].win
        /\ "valid" \in DOMAIN thread[t] => job.valid = thread[t].valid
    OBVIOUS
  <2>4. ThreadSound(job, good)
    <3>1. DOMAIN job = DOMAIN thread[t] \cup {"base", "cond"}
      OBVIOUS
    <3>2. IsRow(job.base) /\ Sound(job.base, good)
      BY <2>2 DEF IInv
    <3> HIDE DEF job
    <3> QED BY <1>w, <2>3, <3>1, <3>2 DEF ThreadSound
  <2> QED BY <1>3, <2>1, <2>4, RowsKept DEF Read, rows, IInv
<1>4. ASSUME NEW t \in Threads,
             ProcessDuplicate(t) \/ ProcessFails(t) \/ RelearnRepeated(t) \/ RelearnFails(t)
      PROVE  IInv'
  <2>1. base' = base /\ good' = good /\ Finish(t)
    BY <1>4 DEF ProcessDuplicate, ProcessFails, RelearnRepeated, RelearnFails, rows
  <2>2. latest' \in {latest, [latest EXCEPT !.remembered = TRUE]}
    BY <1>4 DEF ProcessDuplicate, ProcessFails, RelearnRepeated, RelearnFails, Remembers
  <2>3. IsRow(base') /\ Sound(base', good)
    BY <2>1 DEF IInv
  <2> QED BY <2>1, <2>2, <2>3, RowWritten
<1>5. ASSUME NEW t \in Threads, NEW s \in States, ProcessCommit(t, s) PROVE IInv'
  <2> DEFINE w == thread[t]
  <2>1. /\ Ready(t, "process") /\ Finish(t) /\ good' = good
        /\ base' = Merge(base, w.base, Learned(w.base, w))
        /\ latest' \in {latest, [latest EXCEPT !.remembered = TRUE]}
    BY <1>5 DEF ProcessCommit, Remembers
  <2>2. /\ IsRow(w.base) /\ Sound(w.base, good)
        /\ w.win \in Nat /\ (w.valid => w.win \in good)
    BY <1>w, <2>1 DEF Ready, HasRead, ThreadSound
  <2>3. /\ Sound(Learned(w.base, w), good)
        /\ \/ Learned(w.base, w).count # w.base.count /\ Learned(w.base, w).samples # w.base.samples
           \/ Learned(w.base, w).count = w.base.count /\ Learned(w.base, w).samples = w.base.samples
    <3> HIDE DEF w
    <3> QED BY <2>2, LearnedSound
  <2>4. IsRow(base') /\ Sound(base', good)
    BY <2>1, <2>3, MergeSound DEF IInv
  <2> QED BY <2>1, <2>4, RowWritten
<1>6. ASSUME NEW t \in Threads, NEW r \in Requests \cup {None}, Relearn(t, r) PROVE IInv'
  <2>1. ThreadSound([kind |-> "relearn", request |-> r], good)
    BY DEF ThreadSound
  <2> QED BY <1>6, <2>1, RowsKept DEF Relearn, rows, IInv
<1>7. ASSUME NEW t \in Threads, RelearnCommit(t) PROVE IInv'
  <2> DEFINE b == thread[t].base
             fresh == [version |-> b.version + 1, status |-> "building", count |-> 0,
                       samples |-> <<>>, last |-> None, request |-> thread[t].request]
  <2>1. /\ Ready(t, "relearn") /\ Finish(t) /\ good' = good /\ latest' = latest
        /\ base' = Merge(base, b, fresh)
    BY <1>7 DEF RelearnCommit
  <2>2. Sound(b, good)
    BY <1>w, <2>1 DEF Ready, HasRead, ThreadSound
  <2>3. fresh.count = 0 /\ fresh.samples = <<>>
    OBVIOUS
  <2>4. /\ Sound(fresh, good)
        /\ \/ fresh.count # b.count /\ fresh.samples # b.samples
           \/ fresh.count = b.count /\ fresh.samples = b.samples
    <3> HIDE DEF b, fresh
    <3> QED BY <2>2, <2>3, FreshSound
  <2>5. IsRow(base') /\ Sound(base', good)
    <3> HIDE DEF b, fresh
    <3> QED BY <2>1, <2>4, MergeSound DEF IInv
  <2> QED BY <2>1, <2>5, RowWritten
<1>8. CASE UNCHANGED vars
  BY <1>8 DEF vars, IInv
<1> QED BY <1>1, <1>2, <1>3, <1>4, <1>5, <1>6, <1>7, <1>8 DEF Next

\* sample_count and statistics_json agree, and hold valid windows only, however
\* many windows and relearn calls read before the others have committed.
THEOREM BaselineAgrees == Spec => []BaselineIsItsSamples
<1>1. IInv => BaselineIsItsSamples
  <2> SUFFICES ASSUME IInv PROVE BaselineIsItsSamples
    OBVIOUS
  <2>1. DOMAIN base.samples = 1..Len(base.samples)
    BY DEF IInv, Sound
  <2> QED BY <2>1 DEF IInv, Sound, BaselineIsItsSamples
<1> QED BY InitInv, NextInv, <1>1, PTL DEF Spec

-----------------------------------------------------------------------------
(* Types, evidence and versions.                                           *)

\* Each column of the condition for itself.
CondFits(c) ==
  /\ DOMAIN c = {"state", "pending", "pendingCount"}
  /\ c = [x \in DOMAIN c |-> c[x]]
  /\ c.state \in States
  /\ c.pending \in States \cup {None}
  /\ c.pendingCount \in 0..(Persistence - 1)

\* The version was made; where the history is unique, by the request in the row.
BaseFits(b, m) ==
  /\ b.version \in DOMAIN m
  /\ b.status \in {"building", "frozen"}
  /\ b.last \in Windows \cup {None}
  /\ b.request \in Requests \cup {None}
  /\ Scoped => b.request = m[b.version]

ThreadFits(th, m) ==
  /\ th.kind \in {"idle", "process", "relearn"}
  /\ th.kind = "process" => th.win \in Windows
  /\ th.kind = "relearn" => "request" \in DOMAIN th /\ th.request \in Requests \cup {None}
  /\ "base" \in DOMAIN th => /\ "cond" \in DOMAIN th
                             /\ BaseFits(th.base, m)
                             /\ CondFits(th.cond)

\* made names the versions 1..n.
MadeTyped ==
  /\ \E n \in 1..MaxVersion : DOMAIN made = 1..n
  /\ made = [v \in DOMAIN made |-> made[v]]
  /\ \A v \in DOMAIN made : made[v] \in Requests \cup {None}

\* With a unique history the newest version is the row's, and every older one
\* is in the history.
VersionInv ==
  Scoped => /\ history = 1..(base.version - 1)
            /\ DOMAIN made = 1..base.version
            /\ \A v \in DOMAIN made \ {1} : made[v] # None => made[v] # made[v - 1]

\* The history of the evaluations.
StreakTyped ==
  streak \in [state : States \cup {None}, n : 0..Persistence] /\ overtaken \in BOOLEAN

\* Unless a commit has met a changed condition, the pending count is covered by
\* the last commits, which all have found the pending state.
StreakCounts ==
  ~overtaken /\ cond.pending # None =>
    streak.state = cond.pending /\ streak.n >= cond.pendingCount

\* The second invariant, on top of IInv: what a thread has read fits the
\* versions of then, which only grow.
RowsInv ==
  /\ latest.win \in Windows /\ good \subseteq Windows
  /\ StreakTyped /\ StreakCounts
  /\ history \subseteq 1..MaxVersion
  /\ MadeTyped
  /\ BaseFits(base, made) /\ CondFits(cond)
  /\ \A t \in Threads : ThreadFits(thread[t], made)
  /\ VersionInv

\* A version keeps its request where the history is unique.
Grows(m, mm) ==
  /\ DOMAIN m \subseteq DOMAIN mm
  /\ Scoped => \A v \in DOMAIN m : mm[v] = m[v]

\* What fits goes on fitting when there are more versions.
LEMMA BaseGrows ==
  ASSUME NEW b, NEW m, NEW mm, BaseFits(b, m), Grows(m, mm)
  PROVE  BaseFits(b, mm)
BY DEF BaseFits, Grows

\* The same for a thread.
LEMMA ThreadGrows ==
  ASSUME NEW th, NEW m, NEW mm, ThreadFits(th, m), Grows(m, mm)
  PROVE  ThreadFits(th, mm)
BY BaseGrows DEF ThreadFits

\* An UPDATE of the conditions takes each column from the row or from the
\* thread, and each column is judged for itself.
LEMMA MergeCond ==
  ASSUME NEW row, NEW read, NEW new, CondFits(row), CondFits(new)
  PROVE  CondFits(Merge(row, read, new))
<1> DEFINE m == Merge(row, read, new)
<1>1. DOMAIN m = {"state", "pending", "pendingCount"} /\ m = [x \in DOMAIN m |-> m[x]]
  BY DEF Merge, CondFits
<1>2. /\ m.state \in {new.state, row.state}
      /\ m.pending \in {new.pending, row.pending}
      /\ m.pendingCount \in {new.pendingCount, row.pendingCount}
  BY DEF Merge, CondFits
<1> HIDE DEF m
<1>3. CondFits(m)
  BY <1>1, <1>2 DEF CondFits
<1> QED BY <1>3 DEF m

\* An UPDATE of the very row that was read leaves what the thread has made.
LEMMA MergeSame ==
  ASSUME NEW row, NEW new, CondFits(row), CondFits(new)
  PROVE  Merge(row, row, new) = new
<1>1. DOMAIN row = DOMAIN new /\ new = [f \in DOMAIN row |-> new[f]]
  BY DEF CondFits
<1>2. \A f \in DOMAIN row : (IF new[f] # row[f] THEN new[f] ELSE row[f]) = new[f]
  OBVIOUS
<1>3. Merge(row, row, new) = [f \in DOMAIN row |-> new[f]]
  BY <1>2 DEF Merge
<1> QED BY <1>1, <1>3

\* What process() makes of a condition: the state is settled, or pending with
\* one more window.
LEMMA RatedFits ==
  ASSUME NEW c, NEW s \in States, CondFits(c)
  PROVE  /\ CondFits(Rated(c, s))
         /\ \/ /\ Rated(c, s).state = s /\ Rated(c, s).pending = None
               /\ s \in Alarms => s = c.state \/ Enough(NextCount(c, s))
            \/ /\ Rated(c, s).state = c.state /\ Rated(c, s).pending = s
               /\ Rated(c, s).pendingCount = NextCount(c, s)
<1> DEFINE n == NextCount(c, s)
           r == Rated(c, s)
           settles == \/ s \in Unrated \cup {c.state}
                      \/ Enough(n)
                      \/ c.state = "BASELINE_PENDING" /\ s = "NORMAL"
<1>1. CASE settles
  <2>1. r = Settled(s)
    BY <1>1 DEF Rated
  <2>2. s \in Alarms => s = c.state \/ Enough(n)
    BY <1>1 DEF Alarms, Unrated
  <2>3. /\ CondFits(Settled(s))
        /\ Settled(s).state = s /\ Settled(s).pending = None
    BY VibrationAssumption DEF CondFits, Settled
  <2> HIDE DEF r
  <2>4. CondFits(r) /\ r.state = s /\ r.pending = None
    BY <2>1, <2>3
  <2> QED BY <2>2, <2>4 DEF r, n
<1>2. CASE ~settles
  <2>1. r = [c EXCEPT !.pending = s, !.pendingCount = n]
    BY <1>2 DEF Rated
  <2>2. n \in 0..(Persistence - 1)
    BY <1>2, VibrationAssumption DEF NextCount, Enough, CondFits
  <2>3. /\ DOMAIN r = {"state", "pending", "pendingCount"} /\ r = [x \in DOMAIN r |-> r[x]]
        /\ r.state = c.state /\ r.pending = s /\ r.pendingCount = n
    BY <2>1 DEF CondFits
  <2> HIDE DEF n, r
  <2>4. CondFits(r)
    BY <2>2, <2>3 DEF CondFits
  <2> QED BY <2>3, <2>4 DEF r, n
<1> QED BY <1>1, <1>2

\* One more evaluation of a state.
LEMMA StreakFact ==
  ASSUME StreakTyped, NEW s \in States
  PROVE  /\ Streak(s) \in [state : States \cup {None}, n : 0..Persistence]
         /\ Streak(s).state = s /\ Streak(s).n >= 1
         /\ streak.state = s /\ streak.n < Persistence => Streak(s).n = streak.n + 1
         /\ streak.state = s /\ streak.n >= Persistence => Streak(s).n = Persistence
BY VibrationAssumption DEF StreakTyped, Streak

\* process() commits: the streak covers the pending count, and an alarm that is
\* raised, unless the commit or an earlier one has met a changed condition.
LEMMA CommitStreak ==
  ASSUME RowsInv, NEW t \in Threads, NEW s \in States, ProcessCommit(t, s)
  PROVE  /\ StreakTyped' /\ StreakCounts' /\ CondFits(cond')
         /\ Raised => Persistent \/ overtaken \/ overtaken'
<1> DEFINE c == thread[t].cond
<1>1. /\ Ready(t, "process")
      /\ cond' = Merge(cond, c, Rated(c, s))
      /\ streak' = Streak(s)
      /\ overtaken' = (cond # c \/ (overtaken /\ cond'.pending # None))
  BY DEF ProcessCommit, Overtakes
<1>2. CondFits(c) /\ CondFits(cond) /\ StreakTyped /\ StreakCounts
  BY <1>1 DEF RowsInv, Ready, HasRead, ThreadFits
<1> HIDE DEF c
<1>3. CondFits(Rated(c, s)) /\ CondFits(cond')
  BY <1>1, <1>2, RatedFits, MergeCond
<1>4. StreakTyped'
  BY <1>1, <1>2, StreakFact DEF StreakTyped
<1>5. CASE cond # c \/ overtaken
  BY <1>1, <1>3, <1>4, <1>5 DEF StreakCounts
<1>6. CASE cond = c /\ ~overtaken
  <2>1. cond' = Rated(cond, s)
    BY <1>1, <1>2, <1>3, <1>6, MergeSame
  <2>2. /\ streak' \in [state : States \cup {None}, n : 0..Persistence]
        /\ streak'.state = s /\ streak'.n >= 1
        /\ streak.state = s /\ streak.n < Persistence => streak'.n = streak.n + 1
        /\ streak.state = s /\ streak.n >= Persistence => streak'.n = Persistence
    BY <1>1, <1>2, StreakFact
  <2>3. /\ streak.n \in Nat /\ streak'.n \in Nat /\ Persistence \in Nat
        /\ streak'.n <= Persistence
        /\ cond.pendingCount \in Nat /\ cond.pendingCount < Persistence
    BY <1>2, <2>2, VibrationAssumption DEF StreakTyped, CondFits
  <2>4. s # None => NextCount(cond, s) <= streak'.n \/ streak'.n = Persistence
    <3>1. CASE s # None /\ cond.pending = s
      <4>1. streak.state = s /\ streak.n >= cond.pendingCount
        BY <1>2, <1>6, <3>1 DEF StreakCounts
      <4>2. NextCount(cond, s) = cond.pendingCount + 1
        BY <3>1 DEF NextCount
      <4> QED BY <2>2, <2>3, <4>1, <4>2
    <3>2. CASE cond.pending # s
      BY <2>2, <2>3, <3>2 DEF NextCount
    <3> QED BY <3>1, <3>2
  <2>5. \/ /\ cond'.state = s /\ cond'.pending = None
           /\ s \in Alarms => s = cond.state \/ Enough(NextCount(cond, s))
        \/ /\ cond'.state = cond.state /\ cond'.pending = s
           /\ cond'.pendingCount = NextCount(cond, s)
    BY <1>2, <2>1, RatedFits
  <2>6. cond'.pendingCount \in Nat /\ cond'.pendingCount < Persistence
    BY <1>3, VibrationAssumption DEF CondFits
  <2>7. StreakCounts'
    BY <2>2, <2>3, <2>4, <2>5, <2>6 DEF StreakCounts
  <2>8. ASSUME Raised PROVE Persistent
    <3>1. s \in Alarms /\ s # None /\ cond'.state = s /\ Enough(NextCount(cond, s))
      BY <2>5, <2>8, VibrationAssumption DEF Raised, Alarms
    <3>2. NextCount(cond, s) \in Nat
      BY <2>3 DEF NextCount
    <3>3. streak'.n = Persistence
      BY <2>3, <2>4, <3>1, <3>2 DEF Enough
    <3> QED BY <2>2, <3>1, <3>3 DEF Persistent
  <2> QED BY <1>3, <1>4, <2>7, <2>8
<1> QED BY <1>5, <1>6

\* A relearn raises no alarm, and leaves nothing pending unless it meets a
\* changed condition.
LEMMA RelearnStreak ==
  ASSUME RowsInv, NEW t \in Threads, RelearnCommit(t)
  PROVE  /\ StreakTyped' /\ StreakCounts' /\ CondFits(cond')
         /\ Raised => Persistent \/ overtaken \/ overtaken'
<1> DEFINE c == thread[t].cond
           settled == Settled("BASELINE_PENDING")
<1>1. /\ Ready(t, "relearn")
      /\ cond' = Merge(cond, c, settled)
      /\ streak' = NoStreak
      /\ overtaken' = (cond # c \/ (overtaken /\ cond'.pending # None))
  BY DEF RelearnCommit, Overtakes
<1>2. CondFits(c) /\ CondFits(cond) /\ overtaken \in BOOLEAN
  BY <1>1 DEF RowsInv, StreakTyped, Ready, HasRead, ThreadFits
<1> HIDE DEF c
<1>3. CondFits(settled) /\ settled.state = "BASELINE_PENDING" /\ settled.pending = None
  BY VibrationAssumption DEF CondFits, Settled, States, Unrated
<1> HIDE DEF settled
<1>4. CondFits(cond')
  BY <1>1, <1>2, <1>3, MergeCond
<1>5. StreakTyped'
  BY <1>1, <1>2, VibrationAssumption DEF StreakTyped, NoStreak
<1>6. CASE cond # c
  BY <1>1, <1>4, <1>5, <1>6 DEF StreakCounts
<1>7. CASE cond = c
  <2>1. cond' = settled
    BY <1>1, <1>2, <1>3, <1>7, MergeSame
  <2> QED BY <1>3, <1>4, <1>5, <2>1 DEF StreakCounts, Raised, Alarms
<1> QED BY <1>6, <1>7

\* The UPDATE of process() leaves version and request alone; last is a window.
LEMMA LearnedFits ==
  ASSUME NEW row, NEW b, NEW w, NEW m, IsRow(row), IsRow(b), BaseFits(row, m), BaseFits(b, m),
         w.win \in Windows
  PROVE  /\ BaseFits(Merge(row, b, Learned(b, w)), m)
         /\ Merge(row, b, Learned(b, w)).version = row.version
<1> DEFINE l == Learned(b, w)
           r == Merge(row, b, l)
<1>1. /\ l.version = b.version /\ l.request = b.request /\ l.last = w.win
      /\ l.status \in {"building", "frozen"}
  BY DEF Learned, IsRow, Columns, BaseFits
<1> HIDE DEF l
<1>2. /\ r.version = row.version /\ r.request = row.request
      /\ r.last \in {l.last, row.last} /\ r.status \in {l.status, row.status}
  BY <1>1 DEF Merge, IsRow, Columns
<1> HIDE DEF r
<1>3. BaseFits(r, m) /\ r.version = row.version
  BY <1>1, <1>2 DEF BaseFits
<1> QED BY <1>3 DEF r, l

\* The UPDATE of a relearn: the version is always written, the request unless
\* the thread has read the same one.
LEMMA FreshFits ==
  ASSUME NEW row, NEW b, NEW new, NEW m, IsRow(row), BaseFits(row, m), BaseFits(b, m),
         b.version \in Nat, new.version = b.version + 1, new.status = "building", new.last = None,
         new.request \in Requests \cup {None}
  PROVE  LET r == Merge(row, b, new)
         IN  /\ r.version = b.version + 1
             /\ r.status \in {"building", "frozen"}
             /\ r.last \in Windows \cup {None}
             /\ r.request = IF new.request # b.request THEN new.request ELSE row.request
<1> DEFINE r == Merge(row, b, new)
<1>1. /\ r.version = (IF new.version # b.version THEN new.version ELSE row.version)
      /\ r.status \in {new.status, row.status} /\ r.last \in {new.last, row.last}
      /\ r.request = IF new.request # b.request THEN new.request ELSE row.request
  BY DEF Merge, IsRow, Columns
<1> HIDE DEF r
<1>2. /\ r.version = b.version + 1 /\ r.status \in {"building", "frozen"}
      /\ r.last \in Windows \cup {None}
      /\ r.request = IF new.request # b.request THEN new.request ELSE row.request
  BY <1>1 DEF BaseFits
<1> QED BY <1>2 DEF r

\* Init: version 1 was made by no request, nothing has been evaluated.
LEMMA InitRows == Init => RowsInv
<1> SUFFICES ASSUME Init PROVE RowsInv
  OBVIOUS
<1>1. MadeTyped
  BY VibrationAssumption DEF Init, MadeTyped
<1>2. BaseFits(base, made)
  BY VibrationAssumption DEF Init, BaseFits, Windows
<1>3. CondFits(cond)
  BY VibrationAssumption DEF Init, CondFits, States, Unrated, Alarms
<1>4. \A t \in Threads : ThreadFits(thread[t], made)
  BY DEF Init, Idle, ThreadFits
<1>5. VersionInv
  BY DEF Init, VersionInv
<1>6. latest.win \in Windows /\ good \subseteq Windows /\ history \subseteq 1..MaxVersion
  BY VibrationAssumption DEF Init, Windows
<1>7. StreakTyped /\ StreakCounts
  <2>1. streak = [state |-> None, n |-> 0] /\ overtaken = FALSE /\ cond.pending = None
    BY DEF Init, NoStreak
  <2>2. 0 \in 0..Persistence
    BY VibrationAssumption
  <2> QED BY <2>1, <2>2 DEF StreakTyped, StreakCounts
<1> QED BY <1>1, <1>2, <1>3, <1>4, <1>5, <1>6, <1>7 DEF RowsInv

\* Every thread goes on fitting when one has taken a step.
LEMMA ThreadsFit ==
  ASSUME IInv, RowsInv, Grows(made, made'), NEW t \in Threads, NEW job,
         ThreadFits(job, made'), thread' = [thread EXCEPT ![t] = job]
  PROVE  \A u \in Threads : ThreadFits(thread'[u], made')
<1> SUFFICES ASSUME NEW u \in Threads PROVE ThreadFits(thread'[u], made')
  OBVIOUS
<1>1. thread'[u] = IF u = t THEN job ELSE thread[u]
  BY DEF IInv
<1>2. ThreadFits(thread[u], made)
  BY DEF RowsInv
<1> QED BY <1>1, <1>2, ThreadGrows

\* An idle thread fits.
LEMMA IdleFits ==
  ASSUME NEW m
  PROVE  ThreadFits(Idle, m)
BY DEF Idle, ThreadFits

\* A step of a thread that writes no row keeps the second invariant.
LEMMA NoRowWritten ==
  ASSUME IInv, RowsInv, UNCHANGED <<rows, evals, made>>,
         latest'.win \in Windows, good' \subseteq Windows,
         NEW t \in Threads, NEW job, ThreadFits(job, made),
         thread' = [thread EXCEPT ![t] = job]
  PROVE  RowsInv'
<1>1. /\ base' = base /\ cond' = cond /\ history' = history /\ made' = made
      /\ streak' = streak /\ overtaken' = overtaken
  BY DEF rows, evals
<1>2. Grows(made, made')
  BY <1>1 DEF Grows
<1>3. \A u \in Threads : ThreadFits(thread'[u], made')
  BY <1>1, <1>2, ThreadsFit
<1> QED BY <1>1, <1>3 DEF RowsInv, MadeTyped, VersionInv, StreakTyped, StreakCounts

\* process() commits: one more evaluation, and rows that fit it.
LEMMA CommitRows ==
  ASSUME IInv, RowsInv, NEW t \in Threads, NEW s \in States, ProcessCommit(t, s)
  PROVE  RowsInv'
<1> DEFINE w == thread[t]
<1>1. /\ Ready(t, "process") /\ Finish(t) /\ s \in States
      /\ base' = Merge(base, w.base, Learned(w.base, w))
      /\ latest' \in {latest, [latest EXCEPT !.remembered = TRUE]}
      /\ history' = history /\ good' = good /\ made' = made
  BY DEF ProcessCommit, Remembers
<1>2. ThreadFits(w, made) /\ ThreadSound(w, good)
  BY DEF RowsInv, IInv
<1>3. /\ w.win \in Windows /\ IsRow(w.base)
      /\ BaseFits(w.base, made)
  BY <1>1, <1>2 DEF Ready, HasRead, ThreadFits, ThreadSound
<1>4. StreakTyped' /\ StreakCounts' /\ CondFits(cond')
  BY CommitStreak
<1>5. Grows(made, made')
  BY <1>1 DEF Grows
<1> HIDE DEF w
<1>7. BaseFits(base', made') /\ base'.version = base.version
  <2>1. IsRow(base) /\ BaseFits(base, made)
    BY DEF IInv, RowsInv
  <2>2. /\ BaseFits(Merge(base, w.base, Learned(w.base, w)), made)
        /\ Merge(base, w.base, Learned(w.base, w)).version = base.version
    BY <1>3, <2>1, LearnedFits
  <2> QED BY <1>1, <2>2
<1>8. \A u \in Threads : ThreadFits(thread'[u], made')
  BY <1>1, <1>5, IdleFits, ThreadsFit DEF Finish
<1>9. latest'.win \in Windows /\ good' \subseteq Windows /\ history' \subseteq 1..MaxVersion
  BY <1>1 DEF RowsInv, IInv
<1>10. MadeTyped' /\ VersionInv'
  BY <1>1, <1>7 DEF RowsInv, MadeTyped, VersionInv
<1> QED BY <1>4, <1>7, <1>8, <1>9, <1>10 DEF RowsInv

\* relearn_baseline() commits: with a unique history the version it read is the
\* row's, so that the new one is the next, and another request has made it.
LEMMA RelearnRows ==
  ASSUME IInv, RowsInv, NEW t \in Threads, RelearnCommit(t)
  PROVE  RowsInv'
<1> DEFINE b == thread[t].base
           q == thread[t].request
           fresh == [version |-> b.version + 1, status |-> "building", count |-> 0,
                     samples |-> <<>>, last |-> None, request |-> q]
<1>1. /\ Ready(t, "relearn") /\ ~Repeated(t) /\ ~AlreadySuperseded(b.version)
      /\ b.version < MaxVersion /\ Finish(t)
      /\ history' = history \cup {b.version}
      /\ base' = Merge(base, b, fresh)
      /\ made' = [v \in DOMAIN made \cup {b.version + 1} |->
                    IF v = b.version + 1 THEN q ELSE made[v]]
      /\ latest' = latest /\ good' = good
  BY DEF RelearnCommit
<1>2. ThreadFits(thread[t], made)
  BY DEF RowsInv
<1>3. q \in Requests \cup {None} /\ BaseFits(b, made)
  BY <1>1, <1>2 DEF Ready, HasRead, ThreadFits
<1>r. fresh.version = b.version + 1 /\ fresh.status = "building" /\ fresh.last = None /\ fresh.request = q
  OBVIOUS
<1>q. q # None => b.request # q
  BY <1>1 DEF Repeated
<1> HIDE DEF b, q, fresh
<1>n. PICK n \in 1..MaxVersion : DOMAIN made = 1..n
  BY DEF RowsInv, MadeTyped
<1>4. b.version \in 1..n /\ n \in Nat /\ MaxVersion \in Nat
  BY <1>3, <1>n, VibrationAssumption DEF BaseFits
<1>5. \E k \in 1..MaxVersion : DOMAIN made' = 1..k
  <2>1. DOMAIN made' = (1..n) \cup {b.version + 1}
    BY <1>1, <1>n
  <2>2. CASE b.version = n
    <3>1. DOMAIN made' = 1..(n + 1) /\ n + 1 \in 1..MaxVersion
      BY <1>1, <1>4, <2>1, <2>2
    <3> QED BY <3>1
  <2>3. CASE b.version # n
    <3>1. DOMAIN made' = 1..n
      BY <1>4, <2>1, <2>3
    <3> QED BY <1>n, <3>1
  <2> QED BY <2>2, <2>3
<1>6. \A v \in DOMAIN made' : made'[v] = IF v = b.version + 1 THEN q ELSE made[v]
  BY <1>1
<1>7. MadeTyped'
  <2>1. made' = [v \in DOMAIN made' |-> made'[v]]
    BY <1>1
  <2>2. \A v \in DOMAIN made' : made'[v] \in Requests \cup {None}
    <3> SUFFICES ASSUME NEW v \in DOMAIN made' PROVE made'[v] \in Requests \cup {None}
      OBVIOUS
    <3>1. v = b.version + 1 \/ v \in DOMAIN made
      BY <1>1
    <3> QED BY <1>3, <1>6, <3>1 DEF RowsInv, MadeTyped
  <2> QED BY <1>5, <2>1, <2>2 DEF MadeTyped
<1>8. ASSUME Scoped PROVE /\ b.version = base.version /\ n = base.version
                          /\ history = 1..(base.version - 1)
                          /\ b.request = base.request /\ base.request = made[base.version]
  <2>1. history = 1..(base.version - 1) /\ DOMAIN made = 1..base.version
    BY <1>8 DEF RowsInv, VersionInv
  <2>2. base.version \in 1..n /\ base.request = made[base.version]
    BY <1>8, <1>n DEF RowsInv, BaseFits
  <2>3. base.version = n
    BY <1>4, <1>n, <2>1, <2>2
  <2>4. b.version \notin history
    BY <1>1, <1>8 DEF AlreadySuperseded
  <2>5. b.version = base.version
    BY <1>4, <2>1, <2>2, <2>3, <2>4
  <2>6. b.request = made[b.version]
    BY <1>3, <1>8 DEF BaseFits
  <2> QED BY <2>1, <2>2, <2>3, <2>5, <2>6
<1>9. Grows(made, made')
  <2>2. DOMAIN made \subseteq DOMAIN made'
    BY <1>1
  <2>3. ASSUME Scoped, NEW v \in DOMAIN made PROVE made'[v] = made[v]
    BY <1>4, <1>6, <1>8, <1>n, <2>2, <2>3
  <2> QED BY <2>2, <2>3 DEF Grows
<1>10. StreakTyped' /\ StreakCounts' /\ CondFits(cond')
  BY RelearnStreak
<1>11. /\ base'.version = b.version + 1
       /\ base'.status \in {"building", "frozen"} /\ base'.last \in Windows \cup {None}
       /\ base'.request = IF q # b.request THEN q ELSE base.request
  <2>1. IsRow(base) /\ BaseFits(base, made) /\ b.version \in Nat
    BY <1>4 DEF IInv, RowsInv
  <2> QED BY <1>1, <1>3, <1>r, <2>1, FreshFits
<1>12. BaseFits(base', made')
  <2>1. base'.version \in DOMAIN made' /\ made'[base'.version] = q
    BY <1>1, <1>6, <1>11
  <2>2. base'.request \in Requests \cup {None}
    BY <1>3, <1>11 DEF RowsInv, BaseFits
  <2>3. Scoped => base'.request = q
    BY <1>8, <1>11
  <2> QED BY <1>11, <2>1, <2>2, <2>3 DEF BaseFits
<1>13. VersionInv'
  <2> SUFFICES ASSUME Scoped
               PROVE  /\ history' = 1..(base'.version - 1)
                      /\ DOMAIN made' = 1..base'.version
                      /\ \A v \in DOMAIN made' \ {1} : made'[v] # None => made'[v] # made'[v - 1]
    BY DEF VersionInv
  <2>1. history' = 1..(base'.version - 1) /\ DOMAIN made' = 1..base'.version
    BY <1>1, <1>4, <1>8, <1>11, <1>n
  <2>2. ASSUME NEW v \in DOMAIN made' \ {1}, made'[v] # None PROVE made'[v] # made'[v - 1]
    <3>1. v - 1 \in 1..n /\ made'[v - 1] = made[v - 1]
      BY <1>4, <1>6, <1>8, <1>11, <2>1, <2>2
    <3>2. CASE v = n + 1
      <4>1. made'[v] = q /\ made'[v - 1] = b.request
        BY <1>4, <1>6, <1>8, <3>1, <3>2
      <4> QED BY <1>q, <2>2, <4>1
    <3>3. CASE v # n + 1
      <4>1. v \in DOMAIN made \ {1} /\ made'[v] = made[v]
        BY <1>4, <1>6, <1>8, <1>11, <1>n, <2>1, <2>2, <3>3
      <4>2. made[v] # None => made[v] # made[v - 1]
        BY <4>1 DEF RowsInv, VersionInv
      <4> QED BY <2>2, <3>1, <4>1, <4>2
    <3> QED BY <3>2, <3>3
  <2> QED BY <2>1, <2>2
<1>14. \A u \in Threads : ThreadFits(thread'[u], made')
  BY <1>1, <1>9, IdleFits, ThreadsFit DEF Finish
<1>15. /\ latest'.win \in Windows /\ good' \subseteq Windows
       /\ history' \subseteq 1..MaxVersion
  <2>1. b.version \in 1..MaxVersion
    BY <1>1, <1>4
  <2> QED BY <1>1, <2>1 DEF RowsInv
<1> QED BY <1>7, <1>10, <1>12, <1>13, <1>14, <1>15 DEF RowsInv
\* Every step keeps the second invariant.
LEMMA NextRows == IInv /\ RowsInv /\ [Next]_vars => RowsInv'
<1> SUFFICES ASSUME IInv, RowsInv, [Next]_vars PROVE RowsInv'
  OBVIOUS
<1>w. \A t \in Threads : ThreadFits(thread[t], made) /\ ThreadSound(thread[t], good)
  BY DEF RowsInv, IInv
<1>t. /\ latest \in [win : Nat, valid : BOOLEAN, remembered : BOOLEAN]
      /\ latest.win \in Windows /\ good \subseteq Windows
  BY DEF IInv, RowsInv
<1>1. ASSUME NEW t \in Threads, NEW valid \in BOOLEAN, Arrive(t, valid) PROVE RowsInv'
  <2>1. /\ latest' = [win |-> latest.win + 1, valid |-> valid, remembered |-> FALSE]
        /\ latest.win < MaxWindows
        /\ good' = IF valid THEN good \cup {latest'.win} ELSE good
        /\ thread' = [thread EXCEPT ![t] = Job(latest')]
        /\ UNCHANGED <<rows, evals, made>>
    BY <1>1 DEF Arrive
  <2>2. latest'.win \in Windows /\ good' \subseteq Windows
    <3>1. latest'.win = latest.win + 1
      BY <2>1
    <3>2. latest.win \in Nat /\ latest.win + 1 \in 0..MaxWindows
      BY <1>t, <2>1, VibrationAssumption DEF Windows
    <3>3. latest'.win \in Windows
      BY <3>1, <3>2 DEF Windows
    <3> QED BY <1>t, <2>1, <3>3
  <2>3. ThreadFits(Job(latest'), made)
    BY <2>2 DEF ThreadFits, Job
  <2> QED BY <2>1, <2>2, <2>3, NoRowWritten
<1>2. ASSUME NEW t \in Threads, ArriveAgain(t) PROVE RowsInv'
  <2>1. ThreadFits(Job(latest), made)
    BY <1>t DEF ThreadFits, Job
  <2>2. /\ UNCHANGED <<rows, latest, good, evals, made>>
        /\ thread' = [thread EXCEPT ![t] = Job(latest)]
    BY <1>2 DEF ArriveAgain
  <2> QED BY <1>t, <2>1, <2>2, NoRowWritten
<1>3. ASSUME NEW t \in Threads, Read(t) PROVE RowsInv'
  <2> DEFINE job == [f \in DOMAIN thread[t] \cup {"base", "cond"} |->
                      CASE f = "base" -> base [] f = "cond" -> cond [] OTHER -> thread[t][f]]
  <2>1. /\ thread' = [thread EXCEPT ![t] = job]
        /\ UNCHANGED <<rows, latest, good, evals, made>>
    BY <1>3 DEF Read
  <2>2. DOMAIN job = DOMAIN thread[t] \cup {"base", "cond"} /\ job.base = base /\ job.cond = cond
    OBVIOUS
  <2>3. /\ "kind" \in DOMAIN thread[t] => job.kind = thread[t].kind
        /\ "win" \in DOMAIN thread[t] => job.win = thread[t].win
        /\ "request" \in DOMAIN thread[t] => job.request = thread[t].request
    OBVIOUS
  <2> HIDE DEF job
  <2>4. BaseFits(base, made) /\ CondFits(cond)
    BY DEF RowsInv
  <2>5. ThreadFits(job, made)
    BY <1>w, <2>2, <2>3, <2>4 DEF ThreadFits, ThreadSound
  <2> QED BY <1>t, <2>1, <2>5, NoRowWritten
<1>4. ASSUME NEW t \in Threads,
             ProcessDuplicate(t) \/ ProcessFails(t) \/ RelearnRepeated(t) \/ RelearnFails(t)
      PROVE  RowsInv'
  <2>1. UNCHANGED <<rows, evals, made>> /\ good' = good /\ Finish(t)
    BY <1>4 DEF ProcessDuplicate, ProcessFails, RelearnRepeated, RelearnFails, rows
  <2>2. latest' \in {latest, [latest EXCEPT !.remembered = TRUE]}
    BY <1>4 DEF ProcessDuplicate, ProcessFails, RelearnRepeated, RelearnFails, Remembers
  <2>3. latest'.win \in Windows
    BY <1>t, <2>2
  <2> QED BY <1>t, <2>1, <2>3, IdleFits, NoRowWritten DEF Finish
<1>5. ASSUME NEW t \in Threads, NEW s \in States, ProcessCommit(t, s) PROVE RowsInv'
  BY <1>5, CommitRows
<1>6. ASSUME NEW t \in Threads, NEW r \in Requests \cup {None}, Relearn(t, r) PROVE RowsInv'
  <2>1. ThreadFits([kind |-> "relearn", request |-> r], made)
    BY <1>6 DEF ThreadFits
  <2>2. /\ UNCHANGED <<rows, latest, good, evals, made>>
        /\ thread' = [thread EXCEPT ![t] = [kind |-> "relearn", request |-> r]]
    BY <1>6 DEF Relearn
  <2> QED BY <1>t, <2>1, <2>2, NoRowWritten
<1>7. ASSUME NEW t \in Threads, RelearnCommit(t) PROVE RowsInv'
  BY <1>7, RelearnRows
<1>8. CASE UNCHANGED vars
  BY <1>8 DEF vars, RowsInv, MadeTyped, VersionInv, StreakTyped, StreakCounts
<1> QED BY <1>1, <1>2, <1>3, <1>4, <1>5, <1>6, <1>7, <1>8 DEF Next

\* Both invariants hold in every reachable state.
LEMMA Invariance == Spec => [](IInv /\ RowsInv)
BY InitInv, NextInv, InitRows, NextRows, PTL DEF Spec

\* The rows, the threads and the counters keep their types; in particular a
\* pending count never reaches persistence_windows.
THEOREM TypeCorrect == Spec => []TypeOK
<1>1. IInv /\ RowsInv => TypeOK
  <2> SUFFICES ASSUME IInv, RowsInv PROVE TypeOK
    OBVIOUS
  <2>n. PICK n \in 1..MaxVersion : DOMAIN made = 1..n
    BY DEF RowsInv, MadeTyped
  <2>1. base.version \in 1..MaxVersion
    BY <2>n, VibrationAssumption DEF RowsInv, BaseFits
  <2>2. base.samples \in Seq(Windows)
    <3>1. /\ base.samples \in Seq(Nat) /\ good \subseteq Windows
          /\ \A i \in 1..Len(base.samples) : base.samples[i] \in good
      BY DEF IInv, RowsInv, Sound
    <3> QED BY <3>1
  <2>3. base \in Bases
    <3>1. /\ base = [f \in Columns |-> base[f]]
          /\ base.status \in {"building", "frozen"} /\ base.count \in Nat
          /\ base.last \in Windows \cup {None} /\ base.request \in Requests \cup {None}
      BY DEF IInv, RowsInv, BaseFits, Sound, IsRow
    <3>2. base = [version |-> base.version, status |-> base.status, count |-> base.count,
                  samples |-> base.samples, last |-> base.last, request |-> base.request]
      BY <3>1 DEF Columns
    <3> QED BY <2>1, <2>2, <3>1, <3>2 DEF Bases
  <2>4. cond \in Conds
    <3>1. /\ cond = [x \in {"state", "pending", "pendingCount"} |-> cond[x]]
          /\ cond.state \in States /\ cond.pending \in States \cup {None}
          /\ cond.pendingCount \in 0..(Persistence - 1)
      BY DEF RowsInv, CondFits
    <3>2. cond = [state |-> cond.state, pending |-> cond.pending, pendingCount |-> cond.pendingCount]
      BY <3>1
    <3> QED BY <3>1, <3>2 DEF Conds
  <2>5. made \in [1..Cardinality(DOMAIN made) -> Requests \cup {None}]
    <3>1. Cardinality(1..n) = n
      BY <2>n, FS_Interval, VibrationAssumption
    <3> QED BY <2>n, <3>1 DEF RowsInv, MadeTyped
  <2>6. latest \in [win : Windows, valid : BOOLEAN, remembered : BOOLEAN]
    BY DEF IInv, RowsInv
  <2>7. \A t \in Threads : thread[t].kind \in {"idle", "process", "relearn"}
    BY DEF RowsInv, ThreadFits
  <2> QED BY <2>3, <2>4, <2>5, <2>6, <2>7 DEF TypeOK, RowsInv, StreakTyped
<1> QED BY Invariance, <1>1, PTL

\* An alarm is raised only after persistence_windows evaluations in a row have
\* found it, or after commits that overtook each other, for any number of
\* threads and windows and every persistence_windows.
THEOREM AlarmAfterPersistence == Spec => AlarmIsPersistentUnlessOvertaken
<1>1. RowsInv /\ [Next]_vars => [Raised => Persistent \/ overtaken \/ overtaken']_vars
  <2> SUFFICES ASSUME RowsInv, Next PROVE Raised => Persistent \/ overtaken \/ overtaken'
    OBVIOUS
  <2>1. ASSUME NEW t \in Threads, NEW s \in States, ProcessCommit(t, s)
        PROVE  Raised => Persistent \/ overtaken \/ overtaken'
    BY <2>1, CommitStreak
  <2>2. ASSUME NEW t \in Threads, RelearnCommit(t)
        PROVE  Raised => Persistent \/ overtaken \/ overtaken'
    BY <2>2, RelearnStreak
  <2>3. ASSUME UNCHANGED rows PROVE ~Raised
    BY <2>3 DEF rows, Raised
  <2> QED BY <2>1, <2>2, <2>3
             DEF Next, Arrive, ArriveAgain, Read, ProcessDuplicate, ProcessFails, Relearn,
                 RelearnRepeated, RelearnFails
<1> QED BY Invariance, <1>1, PTL DEF Spec, AlarmIsPersistentUnlessOvertaken

\* With an installation, relearn calls that overlap leave one history row for
\* each version before the present one.
THEOREM HistoryHasEveryVersion == Spec => []HistoryComplete
<1>1. RowsInv => HistoryComplete
  BY DEF RowsInv, VersionInv, HistoryComplete
<1> QED BY Invariance, <1>1, PTL

\* With an installation, a relearn request that is repeated before any other
\* relearn has committed makes no second version, however the calls overlap.
THEOREM RepeatIsAbsorbed == Spec => []RepeatMakesNoVersion
<1>1. RowsInv => RepeatMakesNoVersion
  BY DEF RowsInv, VersionInv, RepeatMakesNoVersion
<1> QED BY Invariance, <1>1, PTL
=============================================================================
