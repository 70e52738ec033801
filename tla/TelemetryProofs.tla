--------------------------- MODULE TelemetryProofs ---------------------------
(* Proofs for any buffer and cache size, any number of packets at the        *)
(* database, of boots and of sessions: types, the records of a boot, the     *)
(* duplicate cache, and the order of the readings inside a session.          *)
EXTENDS Telemetry, FiniteSetTheorems, TLAPS

-----------------------------------------------------------------------------
(* Sequences.                                                              *)

\* A sequence is a function on 1..Len.
LEMMA SeqFact ==
  ASSUME NEW S, NEW s \in Seq(S)
  PROVE  /\ Len(s) \in Nat /\ DOMAIN s = 1..Len(s)
         /\ \A i \in 1..Len(s) : s[i] \in S
OBVIOUS

\* Two sequences, one after the other.
LEMMA Concat2 ==
  ASSUME NEW S, NEW f \in Seq(S), NEW g \in Seq(S)
  PROVE  /\ f \o g \in Seq(S) /\ Len(f \o g) = Len(f) + Len(g)
         /\ \A k \in 1..(Len(f) + Len(g)) : (f \o g)[k] = IF k <= Len(f) THEN f[k] ELSE g[k - Len(f)]
OBVIOUS

\* What removing one element leaves.
LEMMA RemoveAtFact ==
  ASSUME NEW S, NEW s \in Seq(S), NEW i \in 1..Len(s)
  PROVE  /\ RemoveAt(s, i) \in Seq(S) /\ Len(RemoveAt(s, i)) = Len(s) - 1
         /\ \A j \in 1..(Len(s) - 1) : RemoveAt(s, i)[j] = IF j < i THEN s[j] ELSE s[j + 1]
<1> DEFINE f == SubSeq(s, 1, i - 1)
           g == SubSeq(s, i + 1, Len(s))
<1>1. f \in Seq(S) /\ Len(f) = i - 1 /\ \A j \in 1..(i - 1) : f[j] = s[j]
  OBVIOUS
<1>2. g \in Seq(S) /\ Len(g) = Len(s) - i /\ \A j \in 1..(Len(s) - i) : g[j] = s[j + i]
  OBVIOUS
<1> HIDE DEF f, g
<1>3. /\ f \o g \in Seq(S) /\ Len(f \o g) = Len(f) + Len(g)
      /\ \A j \in 1..(Len(f) + Len(g)) : (f \o g)[j] = IF j <= Len(f) THEN f[j] ELSE g[j - Len(f)]
  BY <1>1, <1>2, Concat2
<1>4. ASSUME NEW j \in 1..(Len(s) - 1) PROVE (f \o g)[j] = IF j < i THEN s[j] ELSE s[j + 1]
  <2>1. Len(s) \in Nat /\ i \in Nat /\ j \in Nat
    OBVIOUS
  <2>2. CASE j < i
    BY <1>1, <1>2, <1>3, <2>1, <2>2
  <2>3. CASE ~(j < i)
    <3>1. (f \o g)[j] = g[j - (i - 1)]
      BY <1>1, <1>2, <1>3, <2>1, <2>3
    <3>2. j - (i - 1) \in 1..(Len(s) - i) /\ j - (i - 1) + i = j + 1
      BY <2>1, <2>3
    <3> QED BY <1>2, <2>3, <3>1, <3>2
  <2> QED BY <2>2, <2>3
<1>5. RemoveAt(s, i) = f \o g
  BY DEF RemoveAt, f, g
<1>6. Len(f) + Len(g) = Len(s) - 1
  BY <1>1, <1>2
<1> QED BY <1>3, <1>4, <1>5, <1>6

\* Three sequences, one after the other.
LEMMA Concat3 ==
  ASSUME NEW S, NEW f \in Seq(S), NEW g \in Seq(S), NEW h \in Seq(S)
  PROVE  LET s == f \o g \o h
         IN  /\ s \in Seq(S) /\ Len(s) = Len(f) + Len(g) + Len(h)
             /\ \A k \in 1..Len(s) :
                  s[k] = IF k <= Len(f) THEN f[k]
                         ELSE IF k <= Len(f) + Len(g) THEN g[k - Len(f)]
                         ELSE h[k - Len(f) - Len(g)]
<1> DEFINE fg == f \o g
<1>1. /\ fg \in Seq(S) /\ Len(fg) = Len(f) + Len(g)
      /\ \A k \in 1..(Len(f) + Len(g)) : fg[k] = IF k <= Len(f) THEN f[k] ELSE g[k - Len(f)]
  OBVIOUS
<1> HIDE DEF fg
<1>2. /\ fg \o h \in Seq(S) /\ Len(fg \o h) = Len(fg) + Len(h)
      /\ \A k \in 1..(Len(fg) + Len(h)) : (fg \o h)[k] = IF k <= Len(fg) THEN fg[k] ELSE h[k - Len(fg)]
  <2>1. fg \in Seq(S) /\ h \in Seq(S)
    BY <1>1
  <2> QED BY <2>1, Concat2, Zenon
<1>3. Len(f) \in Nat /\ Len(g) \in Nat /\ Len(h) \in Nat
  OBVIOUS
<1>4. ASSUME NEW k \in 1..(Len(f) + Len(g) + Len(h))
      PROVE  (fg \o h)[k] = IF k <= Len(f) THEN f[k]
                            ELSE IF k <= Len(f) + Len(g) THEN g[k - Len(f)]
                            ELSE h[k - Len(f) - Len(g)]
  <2>1. CASE k <= Len(f) + Len(g)
    <3>1. k \in 1..(Len(f) + Len(g)) /\ (fg \o h)[k] = fg[k]
      BY <1>1, <1>2, <1>3, <2>1
    <3> QED BY <1>1, <1>3, <2>1, <3>1
  <2>2. CASE ~(k <= Len(f) + Len(g))
    <3>1. (fg \o h)[k] = h[k - Len(fg)] /\ k - Len(fg) = k - Len(f) - Len(g) /\ ~(k <= Len(f))
      BY <1>1, <1>2, <1>3, <2>2
    <3> QED BY <2>2, <3>1
  <2> QED BY <2>1, <2>2
<1> QED BY <1>1, <1>2, <1>4 DEF fg

-----------------------------------------------------------------------------
(* The packets of one iteration of loop().                                 *)

\* Made in this iteration: in this boot, with the next sequence numbers.
New(r) ==
  /\ r \in Records /\ r.boot = boot /\ r.seq \in {seq, seq + 1}
  /\ r.at \in {clock, clock + 1}

\* Each of the three packets is one record or none: the head of the buffer, a
\* new measurement, a new heartbeat with the number after it.
LEMMA Packets ==
  ASSUME TypeOK, NEW report \in BOOLEAN, NEW beat \in BOOLEAN, clock + 2 <= MaxClock
  PROVE  /\ \/ Delayed(report) = <<>>
            \/ report /\ buffer # <<>> /\ Delayed(report) = <<Head(buffer)>>
               /\ Head(buffer) \in Records /\ Head(buffer) = buffer[1] /\ 1 \in DOMAIN buffer
         /\ \/ ~report /\ Current(report) = <<>>
            \/ report /\ \E m \in Records : Current(report) = <<m>> /\ New(m) /\ m.seq = seq
         /\ \/ ~beat /\ Heartbeat(report, beat) = <<>>
            \/ beat /\ \E b \in Records : /\ Heartbeat(report, beat) = <<b>> /\ New(b)
                                          /\ b.seq = IF report THEN seq + 1 ELSE seq
<1>1. /\ boot \in 1..MaxBoots /\ clock \in 0..MaxClock /\ seq \in Nat /\ buffer \in Seq(Records)
      /\ MaxClock \in Nat
  BY TelemetryAssumption DEF TypeOK
<1>2. clock \in 0..MaxClock /\ clock + 1 \in 0..MaxClock
  BY <1>1
<1>3. CASE report /\ buffer # <<>>
  <2>1. Head(buffer) \in Records /\ Head(buffer) = buffer[1] /\ 1 \in DOMAIN buffer
    BY <1>1, <1>3
  <2> QED
    <3>1. Delayed(report) = <<Head(buffer)>>
      BY <1>3 DEF Delayed
    <3>2. \E m \in Records : Current(report) = <<m>> /\ New(m) /\ m.seq = seq
      BY <1>1, <1>2, <1>3 DEF Current, Record, Records, Types, New
    <3>3. beat => \E b \in Records : /\ Heartbeat(report, beat) = <<b>> /\ New(b)
                                     /\ b.seq = IF report THEN seq + 1 ELSE seq
      BY <1>1, <1>2, <1>3 DEF Heartbeat, Record, Records, Types, New
    <3>4. ~beat => Heartbeat(report, beat) = <<>>
      BY DEF Heartbeat
    <3> QED BY <1>3, <2>1, <3>1, <3>2, <3>3, <3>4
<1>4. CASE ~(report /\ buffer # <<>>)
  <2>1. Delayed(report) = <<>>
    BY <1>4 DEF Delayed
  <2>2. report => \E m \in Records : Current(report) = <<m>> /\ New(m) /\ m.seq = seq
    BY <1>1, <1>2 DEF Current, Record, Records, Types, New
  <2>3. beat => \E b \in Records : /\ Heartbeat(report, beat) = <<b>> /\ New(b)
                                   /\ b.seq = IF report THEN seq + 1 ELSE seq
    BY <1>1, <1>2 DEF Heartbeat, Record, Records, Types, New
  <2>4. (~report => Current(report) = <<>>) /\ (~beat => Heartbeat(report, beat) = <<>>)
    BY DEF Current, Heartbeat
  <2> QED BY <2>1, <2>2, <2>3, <2>4
<1> QED BY <1>3, <1>4
\* A packet of at most one record.
One(p) == p \in Seq(Records) /\ Len(p) \in {0, 1}

OneDelayed(p) ==
  One(p) /\ (Len(p) = 1 => /\ p[1] = Head(buffer) /\ buffer # <<>> /\ p[1].seq < seq)
OneCurrent(p, report) ==
  One(p) /\ (Len(p) = 1 => report /\ New(p[1]) /\ p[1].seq = seq)
OneBeat(p, report, beat) ==
  One(p) /\ (Len(p) = 1 => beat /\ New(p[1]) /\ p[1].seq = IF report THEN seq + 1 ELSE seq)

\* The same, of the packets and of what is heard of them.
LEMMA HeardPackets ==
  ASSUME TypeOK, NEW report \in BOOLEAN, NEW beat \in BOOLEAN, clock + 2 <= MaxClock,
         \A i \in DOMAIN buffer : buffer[i].seq < seq
  PROVE  /\ OneDelayed(Delayed(report)) /\ \A p \in Heard(Delayed(report)) : OneDelayed(p)
         /\ OneCurrent(Current(report), report) /\ (report => Len(Current(report)) = 1)
         /\ \A p \in Heard(Current(report)) : OneCurrent(p, report)
         /\ OneBeat(Heartbeat(report, beat), report, beat) /\ (beat => Len(Heartbeat(report, beat)) = 1)
         /\ \A p \in Heard(Heartbeat(report, beat)) : OneBeat(p, report, beat)
<1>e. /\ OneDelayed(<<>>) /\ OneCurrent(<<>>, report) /\ OneBeat(<<>>, report, beat)
  BY DEF OneDelayed, OneCurrent, OneBeat, One
<1>h. \A p : Heard(p) \subseteq {<<>>, p}
  BY DEF Heard
<1>1. OneDelayed(Delayed(report))
  <2>1. CASE Delayed(report) = <<>>
    BY <1>e, <2>1
  <2>2. CASE Delayed(report) # <<>>
    <3>1. /\ Delayed(report) = <<Head(buffer)>> /\ buffer # <<>>
          /\ Head(buffer) \in Records /\ Head(buffer).seq < seq
      BY <2>2, Packets
    <3> QED BY <3>1 DEF OneDelayed, One
  <2> QED BY <2>1, <2>2
<1>2. OneCurrent(Current(report), report) /\ (report => Len(Current(report)) = 1)
  <2>1. CASE ~report
    <3>1. Current(report) = <<>>
      BY <2>1, Packets
    <3> QED BY <1>e, <2>1, <3>1
  <2>2. CASE report
    <3>1. PICK m \in Records : Current(report) = <<m>> /\ New(m) /\ m.seq = seq
      BY <2>2, Packets
    <3>2. <<m>> \in Seq(Records) /\ Len(<<m>>) = 1 /\ <<m>>[1] = m
      OBVIOUS
    <3> QED BY <2>2, <3>1, <3>2 DEF OneCurrent, One
  <2> QED BY <2>1, <2>2
<1>3. OneBeat(Heartbeat(report, beat), report, beat) /\ (beat => Len(Heartbeat(report, beat)) = 1)
  <2>1. CASE ~beat
    <3>1. Heartbeat(report, beat) = <<>>
      BY <2>1, Packets
    <3> QED BY <1>e, <2>1, <3>1
  <2>2. CASE beat
    <3>1. PICK b \in Records : /\ Heartbeat(report, beat) = <<b>> /\ New(b)
                               /\ b.seq = IF report THEN seq + 1 ELSE seq
      BY <2>2, Packets
    <3>2. <<b>> \in Seq(Records) /\ Len(<<b>>) = 1 /\ <<b>>[1] = b
      OBVIOUS
    <3> QED BY <2>2, <3>1, <3>2 DEF OneBeat, One
  <2> QED BY <2>1, <2>2
<1> QED BY <1>e, <1>h, <1>1, <1>2, <1>3

\* The packets follow one another, with rising sequence numbers.
Rising(s, f, g, h, report, beat) ==
  /\ s \in Seq(Records) /\ Len(s) = Len(f) + Len(g) + Len(h)
  /\ \A i \in 1..Len(s) :
       \/ s[i] = Head(buffer) /\ buffer # <<>> /\ s[i].seq < seq /\ s[i] = f[1] /\ Len(f) = 1
       \/ New(s[i]) /\ s[i] = g[1] /\ Len(g) = 1 /\ s[i].seq = seq /\ report
       \/ /\ New(s[i]) /\ s[i] = h[1] /\ Len(h) = 1 /\ beat
          /\ s[i].seq = IF report THEN seq + 1 ELSE seq
  /\ \A i \in 1..Len(s) :
       \/ i <= Len(f) /\ Len(f) = 1 /\ s[i] = f[1]
       \/ Len(f) < i /\ i <= Len(f) + Len(g) /\ Len(g) = 1 /\ s[i] = g[1]
       \/ Len(f) + Len(g) < i /\ Len(h) = 1 /\ s[i] = h[1]
  /\ \A i, j \in 1..Len(s) : i < j => s[i].seq < s[j].seq
  /\ Len(h) = 1 => s # <<>> /\ Last(s) = h[1]
  /\ Len(h) = 0 /\ Len(g) = 1 => s # <<>> /\ Last(s) = g[1]

\* Three packets in a row: the sequence numbers rise.
LEMMA PacketsRise ==
  ASSUME NEW f, NEW g, NEW h, NEW s, s = f \o g \o h,
         NEW report \in BOOLEAN, NEW beat \in BOOLEAN, seq \in Nat,
         OneDelayed(f), OneCurrent(g, report), OneBeat(h, report, beat)
  PROVE  Rising(s, f, g, h, report, beat)
<1>1. One(f) /\ One(g) /\ One(h)
  BY DEF OneDelayed, OneCurrent, OneBeat
<1>2. /\ s \in Seq(Records) /\ Len(s) = Len(f) + Len(g) + Len(h)
      /\ \A k \in 1..Len(s) : s[k] = IF k <= Len(f) THEN f[k]
                                     ELSE IF k <= Len(f) + Len(g) THEN g[k - Len(f)]
                                     ELSE h[k - Len(f) - Len(g)]
  BY <1>1, Concat3 DEF One
<1>3. /\ Len(f) \in {0, 1} /\ Len(g) \in {0, 1} /\ Len(h) \in {0, 1}
  BY <1>1 DEF One
<1>4. ASSUME NEW i \in 1..Len(s)
      PROVE  \/ i <= Len(f) /\ Len(f) = 1 /\ s[i] = f[1]
             \/ Len(f) < i /\ i <= Len(f) + Len(g) /\ Len(g) = 1 /\ s[i] = g[1]
             \/ Len(f) + Len(g) < i /\ Len(h) = 1 /\ s[i] = h[1]
  <2>1. CASE i <= Len(f)
    BY <1>2, <1>3, <2>1
  <2>2. CASE ~(i <= Len(f)) /\ i <= Len(f) + Len(g)
    <3>1. s[i] = g[i - Len(f)] /\ i - Len(f) = 1
      BY <1>2, <1>3, <2>2
    <3> QED BY <1>3, <2>2, <3>1
  <2>3. CASE ~(i <= Len(f)) /\ ~(i <= Len(f) + Len(g))
    <3>1. s[i] = h[i - Len(f) - Len(g)] /\ i - Len(f) - Len(g) = 1
      BY <1>2, <1>3, <2>3
    <3> QED BY <1>2, <1>3, <2>3, <3>1
  <2> QED BY <2>1, <2>2, <2>3
<1>5. \A i \in 1..Len(s) :
         \/ s[i] = Head(buffer) /\ buffer # <<>> /\ s[i].seq < seq /\ s[i] = f[1] /\ Len(f) = 1
         \/ New(s[i]) /\ s[i] = g[1] /\ Len(g) = 1 /\ s[i].seq = seq /\ report
         \/ /\ New(s[i]) /\ s[i] = h[1] /\ Len(h) = 1 /\ beat
            /\ s[i].seq = IF report THEN seq + 1 ELSE seq
  BY <1>4 DEF OneDelayed, OneCurrent, OneBeat
<1>6. ASSUME NEW i \in 1..Len(s), NEW j \in 1..Len(s), i < j PROVE s[i].seq < s[j].seq
  <2>1. /\ Len(f) = 1 => f[1] \in Records /\ f[1].seq < seq
        /\ Len(g) = 1 => g[1].seq = seq /\ report
        /\ Len(h) = 1 => h[1].seq = IF report THEN seq + 1 ELSE seq
    BY <1>1 DEF OneDelayed, OneCurrent, OneBeat, One
  <2>2. Len(f) = 1 => f[1].seq \in Nat
    BY <2>1 DEF Records
  <2>3. Len(s) \in Nat
    BY <1>2
  <2>4. \/ /\ i <= Len(f) /\ Len(f) = 1 /\ s[i] = f[1]
        \/ Len(f) < i /\ i <= Len(f) + Len(g) /\ Len(g) = 1 /\ s[i] = g[1]
        \/ Len(f) + Len(g) < i /\ Len(h) = 1 /\ s[i] = h[1]
    BY <1>4
  <2>5. \/ /\ j <= Len(f) /\ Len(f) = 1 /\ s[j] = f[1]
        \/ Len(f) < j /\ j <= Len(f) + Len(g) /\ Len(g) = 1 /\ s[j] = g[1]
        \/ Len(f) + Len(g) < j /\ Len(h) = 1 /\ s[j] = h[1]
    BY <1>4
  <2>6. i \in Nat /\ j \in Nat /\ i >= 1
    BY <2>3
  <2>7. CASE s[i] = f[1] /\ Len(f) = 1
    <3>1. \/ Len(g) = 1 /\ s[j] = g[1]
          \/ Len(h) = 1 /\ s[j] = h[1]
      BY <1>3, <1>6, <2>5, <2>6
    <3>2. s[i].seq \in Nat /\ s[i].seq < seq
      BY <2>1, <2>2, <2>7
    <3>3. s[j].seq = seq \/ s[j].seq = seq + 1
      BY <2>1, <3>1
    <3> DEFINE x == s[i].seq
               y == s[j].seq
    <3>4. x \in Nat /\ x < seq /\ (y = seq \/ y = seq + 1) /\ seq \in Nat
      BY <3>2, <3>3
    <3> HIDE DEF x, y
    <3>5. x < y
      BY <3>4
    <3> QED BY <3>5 DEF x, y
  <2>8. CASE Len(f) < i /\ Len(g) = 1 /\ s[i] = g[1]
    <3>1. Len(h) = 1 /\ s[j] = h[1]
      BY <1>3, <1>6, <2>5, <2>6, <2>8
    <3>2. report /\ s[i].seq = seq
      BY <2>1, <2>8
    <3>3. s[j].seq = seq + 1
      BY <2>1, <3>1, <3>2
    <3> QED BY <3>2, <3>3
  <2>9. CASE Len(f) + Len(g) < i
    <3>1. FALSE
      BY <1>2, <1>3, <1>6, <2>6, <2>9
    <3> QED BY <3>1
  <2> QED BY <2>4, <2>7, <2>8, <2>9
<1>7. /\ Len(h) = 1 => s # <<>> /\ Last(s) = h[1]
      /\ Len(h) = 0 /\ Len(g) = 1 => s # <<>> /\ Last(s) = g[1]
  <2>1. Len(s) > 0 => s # <<>> /\ Len(s) \in 1..Len(s)
    BY <1>2, <1>3
  <2>2. ASSUME Len(h) = 1 PROVE s # <<>> /\ Last(s) = h[1]
    BY <1>2, <1>3, <1>4, <2>1, <2>2 DEF Last
  <2>3. ASSUME Len(h) = 0, Len(g) = 1 PROVE s # <<>> /\ Last(s) = g[1]
    BY <1>2, <1>3, <1>4, <2>1, <2>3 DEF Last
  <2> QED BY <2>2, <2>3
<1> QED BY <1>2, <1>4, <1>5, <1>6, <1>7 DEF Rising

\* What one iteration puts on the air, in the characteristic and on record.
LEMMA Publishes ==
  ASSUME TypeOK, NEW report \in BOOLEAN, NEW beat \in BOOLEAN, Publish(report, beat),
         \A i \in DOMAIN buffer : buffer[i].seq < seq
  PROVE  /\ air' \in Seq(Records)
         /\ link # "notify" => air' = <<>>
         /\ \A i \in 1..Len(air') : New(air'[i]) \/ (buffer # <<>> /\ air'[i] = Head(buffer))
         /\ \A i, j \in 1..Len(air') : i < j => air'[i].seq < air'[j].seq
         /\ New(attr') /\ attr'.seq = seq' - 1
         /\ \A i \in 1..Len(air') : air'[i].seq <= attr'.seq
         /\ sent' = sent \cup (IF report /\ buffer # <<>> THEN {Head(buffer).seq} ELSE {})
                         \cup (IF report THEN {seq} ELSE {})
                         \cup (IF beat THEN {IF report THEN seq + 1 ELSE seq} ELSE {})
<1> DEFINE d == Delayed(report)
           c == Current(report)
           b == Heartbeat(report, beat)
           out == d \o c \o b
<1>1. /\ clock + 2 <= MaxClock /\ (report \/ beat)
      /\ seq' = seq + (IF report THEN 1 ELSE 0) + (IF beat THEN 1 ELSE 0)
      /\ attr' = Last(out)
      /\ sent' = sent \cup {r.seq : r \in ToSet(out)}
  BY DEF Publish, Send
<1>2. PICK f \in Heard(d), g \in Heard(c), h \in Heard(b) : air' = f \o g \o h
  BY DEF Publish, Send
<1>3. seq \in Nat
  BY DEF TypeOK
<1>4. /\ OneDelayed(d) /\ OneCurrent(c, report) /\ OneBeat(b, report, beat)
      /\ OneDelayed(f) /\ OneCurrent(g, report) /\ OneBeat(h, report, beat)
      /\ report => Len(c) = 1
      /\ beat => Len(b) = 1
  <2>1. /\ OneDelayed(d) /\ \A p \in Heard(d) : OneDelayed(p)
        /\ OneCurrent(c, report) /\ (report => Len(c) = 1)
        /\ \A p \in Heard(c) : OneCurrent(p, report)
        /\ OneBeat(b, report, beat) /\ (beat => Len(b) = 1)
        /\ \A p \in Heard(b) : OneBeat(p, report, beat)
    BY <1>1, HeardPackets
  <2> HIDE DEF d, c, b
  <2> QED BY <1>2, <2>1
<1>d. report /\ buffer # <<>> => d = <<Head(buffer)>>
  BY DEF Delayed
<1>e. ~(report /\ buffer # <<>>) => d = <<>>
  BY DEF Delayed
<1>n. link # "notify" => f = <<>> /\ g = <<>> /\ h = <<>>
  BY <1>2 DEF Heard
<1> HIDE DEF d, c, b
<1>5. /\ air' \in Seq(Records)
      /\ \A i \in 1..Len(air') :
           \/ air'[i] = Head(buffer) /\ buffer # <<>> /\ air'[i].seq < seq
           \/ New(air'[i]) /\ air'[i].seq = seq /\ report
           \/ New(air'[i]) /\ beat /\ air'[i].seq = IF report THEN seq + 1 ELSE seq
      /\ \A i, j \in 1..Len(air') : i < j => air'[i].seq < air'[j].seq
  <2> DEFINE a == air'
  <2>1. a = f \o g \o h
    BY <1>2
  <2> HIDE DEF a
  <2>2. /\ a \in Seq(Records)
        /\ \A i \in 1..Len(a) :
             \/ a[i] = Head(buffer) /\ buffer # <<>> /\ a[i].seq < seq /\ a[i] = f[1] /\ Len(f) = 1
             \/ New(a[i]) /\ a[i] = g[1] /\ Len(g) = 1 /\ a[i].seq = seq /\ report
             \/ /\ New(a[i]) /\ a[i] = h[1] /\ Len(h) = 1 /\ beat
                /\ a[i].seq = IF report THEN seq + 1 ELSE seq
        /\ \A i, j \in 1..Len(a) : i < j => a[i].seq < a[j].seq
    <3>1. Rising(a, f, g, h, report, beat)
      BY <1>3, <1>4, <2>1, PacketsRise
    <3> QED BY <3>1 DEF Rising
  <2>3. /\ a \in Seq(Records)
        /\ \A i \in 1..Len(a) :
             \/ a[i] = Head(buffer) /\ buffer # <<>> /\ a[i].seq < seq
             \/ New(a[i]) /\ a[i].seq = seq /\ report
             \/ New(a[i]) /\ beat /\ a[i].seq = IF report THEN seq + 1 ELSE seq
        /\ \A i, j \in 1..Len(a) : i < j => a[i].seq < a[j].seq
    BY <2>2
  <2> QED BY <2>3 DEF a
<1>6. link # "notify" => air' = <<>>
  BY <1>2, <1>n
<1>7. /\ out \in Seq(Records) /\ Len(out) = Len(d) + Len(c) + Len(b)
      /\ \A i \in 1..Len(out) :
           \/ i <= Len(d) /\ Len(d) = 1 /\ out[i] = d[1]
           \/ Len(d) < i /\ i <= Len(d) + Len(c) /\ Len(c) = 1 /\ out[i] = c[1]
           \/ Len(d) + Len(c) < i /\ Len(b) = 1 /\ out[i] = b[1]
      /\ Len(b) = 1 => Last(out) = b[1]
      /\ Len(b) = 0 /\ Len(c) = 1 => Last(out) = c[1]
  <2>1. out = d \o c \o b
    OBVIOUS
  <2> HIDE DEF out
  <2>2. Rising(out, d, c, b, report, beat)
    BY <1>3, <1>4, <2>1, PacketsRise
  <2> QED BY <2>2 DEF Rising
<1>8. New(attr') /\ attr'.seq = seq' - 1
  <2>1. CASE beat
    <3>1. Len(b) = 1 /\ attr' = b[1] /\ New(b[1]) /\ b[1].seq = IF report THEN seq + 1 ELSE seq
      BY <1>1, <1>4, <1>7, <2>1 DEF OneBeat
    <3> QED BY <1>1, <1>3, <2>1, <3>1
  <2>2. CASE ~beat
    <3>1. report /\ Len(b) = 0 /\ Len(c) = 1
      BY <1>1, <1>4, <2>2 DEF OneBeat, One
    <3>2. attr' = c[1] /\ New(c[1]) /\ c[1].seq = seq
      BY <1>1, <1>4, <1>7, <3>1 DEF OneCurrent
    <3> QED BY <1>1, <1>3, <2>2, <3>1, <3>2
  <2> QED BY <2>1, <2>2
<1>9. \A i \in 1..Len(air') : air'[i].seq <= attr'.seq
  <2> SUFFICES ASSUME NEW i \in 1..Len(air') PROVE air'[i].seq <= attr'.seq
    OBVIOUS
  <2>1. air'[i].seq \in Nat
    <3>1. air'[i] \in Records
      BY <1>5
    <3> QED BY <3>1 DEF Records
  <2>2. \/ air'[i].seq < seq
        \/ air'[i].seq = seq /\ report
        \/ beat /\ air'[i].seq = IF report THEN seq + 1 ELSE seq
    BY <1>5
  <2> QED BY <1>1, <1>3, <1>8, <2>1, <2>2
<1>10. \A i, j \in 1..Len(air') : i < j => air'[i].seq < air'[j].seq
  BY <1>5
<1>11. \A i \in 1..Len(air') : New(air'[i]) \/ (buffer # <<>> /\ air'[i] = Head(buffer))
  BY <1>5
<1>12. {r.seq : r \in ToSet(out)} = (IF Len(d) = 1 THEN {d[1].seq} ELSE {})
                                    \cup (IF Len(c) = 1 THEN {c[1].seq} ELSE {})
                                    \cup (IF Len(b) = 1 THEN {b[1].seq} ELSE {})
  <2>1. Len(d) \in {0, 1} /\ Len(c) \in {0, 1} /\ Len(b) \in {0, 1}
    BY <1>4 DEF OneDelayed, OneCurrent, OneBeat, One
  <2>2. /\ Len(d) = 1 => 1 \in 1..Len(out) /\ out[1] = d[1]
        /\ Len(c) = 1 => Len(d) + 1 \in 1..Len(out) /\ out[Len(d) + 1] = c[1]
        /\ Len(b) = 1 => Len(out) \in 1..Len(out) /\ out[Len(out)] = b[1]
    BY <1>7, <2>1
  <2>3. ToSet(out) = {out[i] : i \in 1..Len(out)}
    BY <1>7, SeqFact DEF ToSet
  <2> HIDE DEF out
  <2> QED BY <1>7, <2>1, <2>2, <2>3
<1>13. sent' = sent \cup (IF report /\ buffer # <<>> THEN {Head(buffer).seq} ELSE {})
                     \cup (IF report THEN {seq} ELSE {})
                     \cup (IF beat THEN {IF report THEN seq + 1 ELSE seq} ELSE {})
  <2>1. (IF Len(d) = 1 THEN {d[1].seq} ELSE {}) = IF report /\ buffer # <<>> THEN {Head(buffer).seq} ELSE {}
    <3>1. CASE report /\ buffer # <<>>
      <4>1. Len(d) = 1 /\ d[1] = Head(buffer)
        BY <1>d, <3>1
      <4> QED BY <3>1, <4>1
    <3>2. CASE ~(report /\ buffer # <<>>)
      <4>1. Len(d) = 0
        BY <1>e, <3>2
      <4> QED BY <3>2, <4>1
    <3> QED BY <3>1, <3>2
  <2>2. (IF Len(c) = 1 THEN {c[1].seq} ELSE {}) = IF report THEN {seq} ELSE {}
    BY <1>4 DEF OneCurrent
  <2>3. (IF Len(b) = 1 THEN {b[1].seq} ELSE {}) = IF beat THEN {IF report THEN seq + 1 ELSE seq} ELSE {}
    BY <1>4 DEF OneBeat
  <2> HIDE DEF out
  <2> QED BY <1>1, <1>12, <2>1, <2>2, <2>3
<1> QED BY <1>5, <1>6, <1>8, <1>9, <1>10, <1>11, <1>13
-----------------------------------------------------------------------------
(* The inductive invariant.                                                *)

\* What ingest has let through: readings, and packets at the database.
InTasks == {[rec |-> tasks[i].rec, session |-> tasks[i].session] : i \in DOMAIN tasks}
Accepted == readings \cup InTasks

\* The later of two records of a boot, with no rollover of millis() between
\* them, has the smaller uptime.
Inverted(r, x) == r.boot = x.boot /\ Era(r) = Era(x) /\ r.seq < x.seq /\ r.at > x.at

\* Made before this iteration.
Past(r) == r.boot <= boot /\ (r.boot = boot => r.seq < seq /\ r.at < clock)

\* Nothing is published under a number that is still to come.
NodeInv ==
  /\ EachRecordOnce
  /\ IsFiniteSet(sent) /\ sent \subseteq 0..(seq - 1)

PastInv ==
  /\ \A i \in DOMAIN buffer : Past(buffer[i])
  /\ \A i \in DOMAIN air : Past(air[i])
  /\ attr # None => Past(attr)
  /\ \A x \in Accepted : Past(x.rec)

\* Notifications arrive in the order of their numbers, and the characteristic
\* is read only when none is on its way.
AirInv ==
  /\ link \in {"up", "poll"} => air = <<>>
  /\ \A i, j \in DOMAIN air : i < j => air[i].seq < air[j].seq
  /\ attr # None => \A i \in DOMAIN air : air[i].seq <= attr.seq

\* What is still to be accepted is inverted with nothing accepted before it.
TurnInv ==
  /\ \A i \in DOMAIN buffer :
       /\ \A j \in DOMAIN air : ~Inverted(buffer[i], air[j])
       /\ attr # None => ~Inverted(buffer[i], attr)
       /\ \A x \in Accepted : ~Inverted(buffer[i], x.rec)
  /\ \A i \in DOMAIN air : \A x \in Accepted : ~Inverted(air[i], x.rec)
  /\ attr # None => \A x \in Accepted : ~Inverted(attr, x.rec)

\* The session of the device is the newest, its last uptime the greatest in
\* it, and no session holds two inverted records.
SessionInv ==
  /\ session # None => session.id = opened
  /\ \A x \in Accepted : x.session <= opened
  /\ \A x \in Accepted : session # None /\ x.session = session.id => Uptime(x.rec) <= session.last
  /\ \A x, y \in Accepted : x.session = y.session => ~Inverted(x.rec, y.rec)

IInv == TypeOK /\ NodeInv /\ CacheOnlyStored /\ PastInv /\ AirInv /\ TurnInv /\ SessionInv
\* Init: nothing has been made.
LEMMA InitInv == Init => IInv
<1> SUFFICES ASSUME Init PROVE IInv
  OBVIOUS
<1>1. TypeOK
  BY TelemetryAssumption DEF Init, TypeOK
<1>2. NodeInv
  <2>1. IsFiniteSet(sent) /\ Cardinality(sent) = 0
    BY FS_EmptySet DEF Init
  <2> QED BY <2>1 DEF Init, NodeInv, EachRecordOnce
<1>3. Accepted = {}
  BY DEF Init, Accepted, InTasks
<1>4. CacheOnlyStored
  BY DEF Init, CacheOnlyStored, ToSet
<1>5. PastInv /\ AirInv /\ TurnInv /\ SessionInv
  BY <1>3 DEF Init, PastInv, AirInv, TurnInv, SessionInv
<1> QED BY <1>1, <1>2, <1>4, <1>5 DEF IInv

\* The numbers of a record and of a session.
LEMMA RecordFact ==
  ASSUME NEW r \in Records
  PROVE  r.boot \in Nat /\ r.seq \in Nat /\ r.at \in Nat
BY TelemetryAssumption DEF Records

\* The uptime a packet carries.
LEMMA UptimeFact ==
  ASSUME NEW r \in Records
  PROVE  Uptime(r) \in 0..(Wrap - 1) /\ Uptime(r) \in Nat
<1>1. r.at \in Nat /\ Wrap \in Nat \ {0}
  BY RecordFact, TelemetryAssumption
<1> QED BY <1>1 DEF Uptime

\* Between two rollovers uptimes are in the order of time.
LEMMA EraOrder ==
  ASSUME NEW r \in Records, NEW x \in Records, Era(r) = Era(x)
  PROVE  Uptime(r) <= Uptime(x) <=> r.at <= x.at
<1> DEFINE we == Wrap * Era(r)
<1>1. r.at \in Nat /\ x.at \in Nat /\ Wrap \in Nat \ {0}
  BY RecordFact, TelemetryAssumption
<1>2. \A n \in Nat : n = Wrap * (n \div Wrap) + (n % Wrap) /\ n \div Wrap \in Int /\ n % Wrap \in Int
  BY <1>1
<1>3. r.at = we + Uptime(r) /\ x.at = we + Uptime(x) /\ we \in Int
  <2>1. r.at = Wrap * Era(r) + Uptime(r) /\ x.at = Wrap * Era(x) + Uptime(x) /\ Era(r) \in Int
    BY <1>1, <1>2 DEF Era, Uptime
  <2>2. Wrap * Era(r) \in Int
    BY <1>1, <2>1
  <2> QED BY <2>1, <2>2
<1>4. Uptime(r) \in Nat /\ Uptime(x) \in Nat
  BY UptimeFact
<1> HIDE DEF we
<1> QED BY <1>1, <1>3, <1>4

\* The sequences of the state, position by position.
LEMMA StateSequences ==
  ASSUME TypeOK
  PROVE  /\ Len(buffer) \in Nat /\ DOMAIN buffer = 1..Len(buffer)
         /\ \A i \in DOMAIN buffer : buffer[i] \in Records
         /\ Len(air) \in Nat /\ DOMAIN air = 1..Len(air)
         /\ \A i \in DOMAIN air : air[i] \in Records
         /\ Len(tasks) \in Nat /\ DOMAIN tasks = 1..Len(tasks)
         /\ \A i \in DOMAIN tasks : tasks[i] \in Tasks
         /\ Len(dedupe) \in Nat /\ DOMAIN dedupe = 1..Len(dedupe)
         /\ \A i \in DOMAIN dedupe : dedupe[i] \in Types \X Nat
BY DEF TypeOK

\* What was accepted is a record in a session.
LEMMA AcceptedTyped ==
  ASSUME TypeOK
  PROVE  \A x \in Accepted : x \in [rec : Records, session : 1..MaxSessions]
<1>1. \A x \in readings : x \in [rec : Records, session : 1..MaxSessions]
  BY DEF TypeOK
<1>2. ASSUME NEW x \in InTasks PROVE x \in [rec : Records, session : 1..MaxSessions]
  <2>1. PICK i \in DOMAIN tasks : x = [rec |-> tasks[i].rec, session |-> tasks[i].session]
    BY DEF InTasks
  <2>2. tasks[i] \in Tasks
    BY StateSequences
  <2>3. tasks[i].rec \in Records /\ tasks[i].session \in 1..MaxSessions
    BY <2>2 DEF Tasks
  <2> QED BY <2>1, <2>3
<1> QED BY <1>1, <1>2 DEF Accepted

\* A step of the node or of the link leaves the gateway as it is.
LEMMA GatewayKept ==
  ASSUME UNCHANGED gateway
  PROVE  /\ session' = session /\ opened' = opened /\ Accepted' = Accepted
         /\ CacheOnlyStored => CacheOnlyStored'
         /\ SessionInv => SessionInv'
         /\ dedupe' = dedupe /\ tasks' = tasks /\ readings' = readings
<1>1. /\ session' = session /\ opened' = opened /\ dedupe' = dedupe /\ tasks' = tasks
      /\ readings' = readings
  BY DEF gateway
<1>2. Accepted' = Accepted
  BY <1>1 DEF Accepted, InTasks
<1>3. CacheOnlyStored => CacheOnlyStored'
  BY <1>1 DEF CacheOnlyStored
<1>4. SessionInv => SessionInv'
  BY <1>1, <1>2 DEF SessionInv
<1> QED BY <1>1, <1>2, <1>3, <1>4

\* The link alone changes.
LEMMA LinkStep ==
  ASSUME IInv, UNCHANGED <<node, attr, air, gateway, sent>>,
         link' \in {"down", "up", "notify", "poll"}, link' \in {"up", "poll"} => air = <<>>
  PROVE  IInv'
<1>1. /\ boot' = boot /\ clock' = clock /\ seq' = seq /\ buffer' = buffer /\ dropped' = dropped
      /\ attr' = attr /\ air' = air /\ sent' = sent
  BY DEF node
<1>2. /\ session' = session /\ opened' = opened /\ Accepted' = Accepted /\ CacheOnlyStored'
      /\ SessionInv' /\ dedupe' = dedupe /\ tasks' = tasks /\ readings' = readings
  BY GatewayKept DEF IInv
<1>3. TypeOK'
  BY <1>1, <1>2 DEF IInv, TypeOK
<1>4. NodeInv'
  BY <1>1 DEF IInv, NodeInv, EachRecordOnce
<1>5. PastInv' /\ TurnInv'
  BY <1>1, <1>2 DEF IInv, PastInv, Past, TurnInv
<1>6. AirInv'
  BY <1>1 DEF IInv, AirInv
<1> QED BY <1>2, <1>3, <1>4, <1>5, <1>6 DEF IInv

\* The node reboots: every record is of an earlier boot then.
LEMMA RebootStep == IInv /\ Reboot => IInv'
<1> SUFFICES ASSUME IInv, Reboot PROVE IInv'
  OBVIOUS
<1>1. /\ boot < MaxBoots /\ boot' = boot + 1 /\ clock' = 0 /\ seq' = 0 /\ buffer' = <<>>
      /\ dropped' = 0 /\ link' = "down" /\ attr' = None /\ sent' = {} /\ air' = air
      /\ UNCHANGED gateway
  BY DEF Reboot
<1>2. /\ session' = session /\ opened' = opened /\ Accepted' = Accepted /\ CacheOnlyStored'
      /\ SessionInv' /\ dedupe' = dedupe /\ tasks' = tasks /\ readings' = readings
  BY <1>1, GatewayKept DEF IInv
<1>3. TypeOK'
  BY <1>1, <1>2, TelemetryAssumption DEF IInv, TypeOK
<1>4. NodeInv'
  <2>1. IsFiniteSet(sent') /\ Cardinality(sent') = 0
    BY <1>1, FS_EmptySet
  <2> QED BY <1>1, <2>1 DEF NodeInv, EachRecordOnce
<1>5. PastInv'
  <2>1. \A r \in Records : Past(r) => Past(r)'
    BY <1>1, RecordFact, TelemetryAssumption DEF IInv, TypeOK, Past
  <2>2. \A i \in DOMAIN air : air[i] \in Records
    BY StateSequences DEF IInv
  <2>3. \A x \in Accepted : x.rec \in Records
    BY AcceptedTyped DEF IInv
  <2>4. \A i \in DOMAIN air : Past(air[i])'
    BY <1>1, <2>1, <2>2 DEF IInv, PastInv, Past
  <2>5. \A x \in Accepted : Past(x.rec)'
    BY <2>1, <2>3 DEF IInv, PastInv, Past
  <2> QED BY <1>1, <1>2, <2>4, <2>5 DEF PastInv, Past
<1>6. AirInv' /\ TurnInv'
  BY <1>1, <1>2 DEF IInv, AirInv, TurnInv
<1> QED BY <1>2, <1>3, <1>4, <1>5, <1>6 DEF IInv
\* A step of the gateway that accepts nothing new.
LEMMA NothingAccepted ==
  ASSUME IInv, UNCHANGED <<node, attr, sent>>, air' \in {air, <<>>},
         link' \in {link, "down"}, opened' = opened, session' \in {session, None},
         Accepted' \subseteq Accepted,
         dedupe' \in Seq(Types \X Nat), Len(dedupe') <= CacheSize,
         tasks' \in Seq(Tasks), Len(tasks') <= MaxTasks,
         readings' \subseteq [rec : Records, session : 1..MaxSessions],
         CacheOnlyStored'
  PROVE  IInv'
<1>1. /\ boot' = boot /\ clock' = clock /\ seq' = seq /\ buffer' = buffer /\ dropped' = dropped
      /\ attr' = attr /\ sent' = sent
  BY DEF node
<1>2. TypeOK'
  <2>1. air' \in Seq(Records)
    <3>1. <<>> \in Seq(Records) /\ air \in Seq(Records)
      BY DEF IInv, TypeOK
    <3> QED BY <3>1
  <2>2. link' \in {"down", "up", "notify", "poll"} /\ opened' \in 0..MaxSessions
    BY DEF IInv, TypeOK
  <2>3. session' \in [id : 1..MaxSessions, last : 0..(Wrap - 1)] \cup {None}
    BY DEF IInv, TypeOK
  <2>4. /\ boot' \in 1..MaxBoots /\ clock' \in 0..MaxClock /\ seq' \in Nat /\ dropped' \in Nat
        /\ buffer' \in Seq(Records) /\ Len(buffer') <= Capacity
        /\ attr' \in Records \cup {None} /\ sent' \subseteq Nat
    BY <1>1 DEF IInv, TypeOK
  <2> QED BY <2>1, <2>2, <2>3, <2>4 DEF TypeOK
<1>3. NodeInv'
  BY <1>1 DEF IInv, NodeInv, EachRecordOnce
<1>4. ASSUME air' = air PROVE PastInv' /\ AirInv' /\ TurnInv'
  <2>1. PastInv'
    BY <1>1, <1>4 DEF IInv, PastInv, Past
  <2>2. AirInv'
    BY <1>1, <1>4 DEF IInv, AirInv
  <2>3. TurnInv'
    BY <1>1, <1>4 DEF IInv, TurnInv
  <2> QED BY <2>1, <2>2, <2>3
<1>5. ASSUME air' = <<>> PROVE PastInv' /\ AirInv' /\ TurnInv'
  <2>1. PastInv'
    BY <1>1, <1>5 DEF IInv, PastInv, Past
  <2>2. AirInv'
    BY <1>1, <1>5 DEF IInv, AirInv
  <2>3. TurnInv'
    BY <1>1, <1>5 DEF IInv, TurnInv
  <2> QED BY <2>1, <2>2, <2>3
<1>6. SessionInv'
  BY DEF IInv, SessionInv
<1> QED BY <1>2, <1>3, <1>4, <1>5, <1>6 DEF IInv

\* A packet leaves the database's queue.
LEMMA TaskRemoved ==
  ASSUME TypeOK, NEW i \in DOMAIN tasks, tasks' = RemoveAt(tasks, i)
  PROVE  /\ tasks' \in Seq(Tasks) /\ Len(tasks') <= MaxTasks
         /\ InTasks' \subseteq InTasks
         /\ tasks[i] \in Tasks
<1>1. /\ tasks \in Seq(Tasks) /\ Len(tasks) \in Nat /\ DOMAIN tasks = 1..Len(tasks)
      /\ tasks[i] \in Tasks /\ Len(tasks) <= MaxTasks
  BY StateSequences DEF TypeOK
<1>2. /\ tasks' \in Seq(Tasks) /\ Len(tasks') = Len(tasks) - 1
      /\ \A j \in 1..(Len(tasks) - 1) : tasks'[j] = IF j < i THEN tasks[j] ELSE tasks[j + 1]
  BY <1>1, RemoveAtFact
<1>3. DOMAIN tasks' = 1..(Len(tasks) - 1)
  BY <1>2
<1>4. \A j \in DOMAIN tasks' : \E k \in DOMAIN tasks : tasks'[j] = tasks[k]
  BY <1>1, <1>2, <1>3
<1>5. InTasks' \subseteq InTasks
  BY <1>4 DEF InTasks
<1> QED BY <1>1, <1>2, <1>5, TelemetryAssumption

\* The cache keeps its type and its bound, and gains one key at most.
LEMMA RememberFact ==
  ASSUME NEW k \in Types \X Nat, NEW c \in Seq(Types \X Nat), Len(c) <= CacheSize
  PROVE  /\ Remember(c, k) \in Seq(Types \X Nat) /\ Len(Remember(c, k)) <= CacheSize
         /\ ToSet(Remember(c, k)) \subseteq ToSet(c) \cup {k}
<1> DEFINE longer == Append(c, k)
<1>1. CASE k \in ToSet(c)
  BY <1>1 DEF Remember
<1>2. CASE k \notin ToSet(c)
  <2>1. /\ longer \in Seq(Types \X Nat) /\ Len(longer) = Len(c) + 1 /\ Len(c) \in Nat
        /\ \A i \in 1..(Len(c) + 1) : longer[i] = IF i <= Len(c) THEN c[i] ELSE k
        /\ DOMAIN c = 1..Len(c)
    OBVIOUS
  <2> HIDE DEF longer
  <2>2. CacheSize \in Nat
    BY TelemetryAssumption
  <2>3. ToSet(longer) \subseteq ToSet(c) \cup {k}
    <3>1. DOMAIN longer = 1..(Len(c) + 1)
      BY <2>1
    <3> QED BY <2>1, <3>1 DEF ToSet
  <2>4. CASE Len(longer) > CacheSize
    <3>1. Remember(c, k) = Tail(longer)
      BY <1>2, <2>4 DEF Remember, longer
    <3>2. /\ Tail(longer) \in Seq(Types \X Nat) /\ Len(Tail(longer)) = Len(c)
          /\ \A i \in 1..Len(c) : Tail(longer)[i] = longer[i + 1]
      BY <2>1
    <3>3. ToSet(Tail(longer)) \subseteq ToSet(longer)
      <4>1. DOMAIN Tail(longer) = 1..Len(c) /\ DOMAIN longer = 1..(Len(c) + 1)
        BY <2>1, <3>2
      <4>2. ASSUME NEW i \in DOMAIN Tail(longer)
            PROVE  \E j \in DOMAIN longer : Tail(longer)[i] = longer[j]
        <5>0. Len(c) \in Nat /\ i \in 1..Len(c)
          BY <4>1, <4>2
        <5>1. i \in 1..Len(c) /\ i + 1 \in 1..(Len(c) + 1)
          BY <5>0
        <5>2. Tail(longer)[i] = longer[i + 1] /\ i + 1 \in DOMAIN longer
          BY <3>2, <4>1, <5>1
        <5> QED BY <5>2
      <4> QED BY <4>2 DEF ToSet
    <3> QED BY <2>3, <3>1, <3>2, <3>3
  <2>5. CASE ~(Len(longer) > CacheSize)
    <3>1. Remember(c, k) = longer
      BY <1>2, <2>5 DEF Remember, longer
    <3> QED BY <2>1, <2>2, <2>3, <2>5, <3>1
  <2> QED BY <2>4, <2>5
<1> QED BY <1>1, <1>2

\* The packet is committed, and its key remembered afterwards.
LEMMA PersistStep ==
  ASSUME IInv, NEW i \in DOMAIN tasks, Persist(i)
  PROVE  IInv'
<1> DEFINE r == tasks[i].rec
           row == [rec |-> r, session |-> tasks[i].session]
<1>1. /\ readings' = readings \cup {row} /\ tasks' = RemoveAt(tasks, i)
      /\ dedupe' = IF tasks[i].remembers THEN Remember(dedupe, Key(r)) ELSE dedupe
      /\ UNCHANGED <<node, attr, sent>> /\ air' = air /\ link' = link
      /\ session' = session /\ opened' = opened
  BY DEF Persist
<1>2. /\ tasks' \in Seq(Tasks) /\ Len(tasks') <= MaxTasks
      /\ InTasks' \subseteq InTasks /\ tasks[i] \in Tasks
  BY <1>1, TaskRemoved DEF IInv
<1>3. row \in InTasks
  BY DEF InTasks
<1>4. Accepted' \subseteq Accepted
  BY <1>1, <1>2, <1>3 DEF Accepted
<1>5. r \in Records /\ row \in [rec : Records, session : 1..MaxSessions]
  BY <1>2 DEF Tasks
<1>6. Key(r) \in Types \X Nat
  BY <1>5 DEF Key, Records
<1>7. /\ dedupe' \in Seq(Types \X Nat) /\ Len(dedupe') <= CacheSize
      /\ ToSet(dedupe') \subseteq ToSet(dedupe) \cup {Key(r)}
  <2>1. dedupe \in Seq(Types \X Nat) /\ Len(dedupe) <= CacheSize
    BY DEF IInv, TypeOK
  <2>2. /\ Remember(dedupe, Key(r)) \in Seq(Types \X Nat) /\ Len(Remember(dedupe, Key(r))) <= CacheSize
        /\ ToSet(Remember(dedupe, Key(r))) \subseteq ToSet(dedupe) \cup {Key(r)}
    BY <1>6, <2>1, RememberFact
  <2> QED BY <1>1, <2>1, <2>2
<1>8. CacheOnlyStored'
  <2> SUFFICES ASSUME NEW k \in ToSet(dedupe') PROVE \E x \in readings' : Key(x.rec) = k
    BY DEF CacheOnlyStored, Key
  <2>1. CASE k = Key(r)
    <3>1. row \in readings' /\ row.rec = r
      BY <1>1
    <3> QED BY <2>1, <3>1
  <2>2. CASE k \in ToSet(dedupe)
    <3>1. PICK x \in readings : Key(x.rec) = k
      BY <2>2 DEF IInv, CacheOnlyStored
    <3> QED BY <1>1, <3>1
  <2> QED BY <1>7, <2>1, <2>2
<1>9. readings' \subseteq [rec : Records, session : 1..MaxSessions]
  BY <1>1, <1>5 DEF IInv, TypeOK
<1> HIDE DEF r, row
<1> QED BY <1>1, <1>2, <1>4, <1>7, <1>8, <1>9, NothingAccepted

\* The packet is rolled back.
LEMMA RefuseStep ==
  ASSUME IInv, NEW i \in DOMAIN tasks, Refuse(i)
  PROVE  IInv'
<1>1. /\ tasks' = RemoveAt(tasks, i) /\ UNCHANGED <<node, attr, sent>> /\ air' = air /\ link' = link
      /\ session' = session /\ opened' = opened /\ dedupe' = dedupe /\ readings' = readings
  BY DEF Refuse
<1>2. /\ tasks' \in Seq(Tasks) /\ Len(tasks') <= MaxTasks /\ InTasks' \subseteq InTasks
  BY <1>1, TaskRemoved DEF IInv
<1>3. Accepted' \subseteq Accepted
  BY <1>1, <1>2 DEF Accepted
<1>4. CacheOnlyStored'
  BY <1>1 DEF IInv, CacheOnlyStored
<1>5. /\ dedupe' \in Seq(Types \X Nat) /\ Len(dedupe') <= CacheSize
      /\ readings' \subseteq [rec : Records, session : 1..MaxSessions]
  BY <1>1 DEF IInv, TypeOK
<1> QED BY <1>1, <1>2, <1>3, <1>4, <1>5, NothingAccepted

\* The manager stops the connection: the packets at the database stay.
LEMMA StopStep == IInv /\ StopConnection => IInv'
<1> SUFFICES ASSUME IInv, StopConnection PROVE IInv'
  OBVIOUS
<1>1. /\ tasks' = [i \in DOMAIN tasks |->
                     [tasks[i] EXCEPT !.remembers = @ /\ ~tasks[i].polled, !.polled = FALSE]]
      /\ UNCHANGED <<node, attr, sent>> /\ air' = air /\ link' = "down"
      /\ session' = session /\ opened' = opened /\ dedupe' = dedupe /\ readings' = readings
  BY DEF StopConnection
<1>2. Len(tasks) \in Nat /\ DOMAIN tasks = 1..Len(tasks) /\ \A i \in DOMAIN tasks : tasks[i] \in Tasks
  BY StateSequences DEF IInv
<1>3. ASSUME NEW i \in DOMAIN tasks
      PROVE  tasks'[i] \in Tasks /\ tasks'[i].rec = tasks[i].rec /\ tasks'[i].session = tasks[i].session
  BY <1>1, <1>2 DEF Tasks
<1>4. DOMAIN tasks' = 1..Len(tasks)
  BY <1>1, <1>2
<1>5. tasks' \in Seq(Tasks) /\ Len(tasks') = Len(tasks)
  <2>1. tasks' \in [1..Len(tasks) -> Tasks]
    BY <1>1, <1>2, <1>3
  <2> QED BY <1>2, <2>1
<1>6. Accepted' \subseteq Accepted
  BY <1>1, <1>2, <1>3, <1>4 DEF Accepted, InTasks
<1>7. CacheOnlyStored'
  BY <1>1 DEF IInv, CacheOnlyStored
<1>8. /\ dedupe' \in Seq(Types \X Nat) /\ Len(dedupe') <= CacheSize /\ Len(tasks') <= MaxTasks
      /\ readings' \subseteq [rec : Records, session : 1..MaxSessions]
  BY <1>1, <1>5 DEF IInv, TypeOK
<1> QED BY <1>1, <1>5, <1>6, <1>7, <1>8, NothingAccepted

\* The gateway restarts: only the readings stay.
LEMMA RestartStep == IInv /\ Restart => IInv'
<1> SUFFICES ASSUME IInv, Restart PROVE IInv'
  OBVIOUS
<1>1. /\ session' = None /\ dedupe' = <<>> /\ tasks' = <<>> /\ air' = <<>> /\ link' = "down"
      /\ UNCHANGED <<node, attr, sent>> /\ opened' = opened /\ readings' = readings
  BY DEF Restart
<1>2. Accepted' \subseteq Accepted
  BY <1>1 DEF Accepted, InTasks
<1>3. CacheOnlyStored'
  BY <1>1 DEF CacheOnlyStored, ToSet
<1>4. /\ dedupe' \in Seq(Types \X Nat) /\ Len(dedupe') <= CacheSize
      /\ tasks' \in Seq(Tasks) /\ Len(tasks') <= MaxTasks
      /\ readings' \subseteq [rec : Records, session : 1..MaxSessions]
  BY <1>1, TelemetryAssumption DEF IInv, TypeOK
<1> QED BY <1>1, <1>2, <1>3, <1>4, NothingAccepted
\* ingest up to its await: a duplicate changes nothing, another packet goes to
\* the database in a new session, or in the present one when its uptime is not
\* smaller than the last.
LEMMA AcceptFact ==
  ASSUME TypeOK, NEW r \in Records, NEW polled \in BOOLEAN, Accept(r, polled),
         readings' = readings, session # None => session.id = opened
  PROVE  /\ dedupe' = dedupe
         /\ \/ session' = session /\ opened' = opened /\ tasks' = tasks /\ Accepted' = Accepted
            \/ /\ session' \in [id : 1..MaxSessions, last : 0..(Wrap - 1)]
               /\ opened' \in 1..MaxSessions /\ session'.id = opened' /\ session'.last = Uptime(r)
               /\ tasks' \in Seq(Tasks) /\ Len(tasks') <= MaxTasks
               /\ Accepted' = Accepted \cup {[rec |-> r, session |-> opened']}
               /\ \/ opened' = opened + 1
                  \/ session # None /\ opened' = opened /\ session.last <= Uptime(r)
<1>1. CASE Key(r) \in ToSet(dedupe)
  <2>1. session' = session /\ opened' = opened /\ tasks' = tasks /\ dedupe' = dedupe
    BY <1>1 DEF Accept
  <2>2. Accepted' = Accepted
    BY <2>1 DEF Accepted, InTasks
  <2> QED BY <2>1, <2>2
<1>2. CASE Key(r) \notin ToSet(dedupe)
  <2> DEFINE job == [rec |-> r, session |-> session'.id, polled |-> polled, remembers |-> TRUE]
  <2>1. /\ Len(tasks) < MaxTasks /\ session' = SessionFor(r) /\ session'.id <= MaxSessions
        /\ opened' = session'.id /\ tasks' = Append(tasks, job) /\ dedupe' = dedupe
    BY <1>2 DEF Accept
  <2>2. Uptime(r) \in 0..(Wrap - 1) /\ Uptime(r) \in Nat
    BY UptimeFact
  <2>3. /\ opened \in 0..MaxSessions /\ MaxSessions \in Nat
        /\ session # None => session \in [id : 1..MaxSessions, last : 0..(Wrap - 1)]
    BY TelemetryAssumption DEF TypeOK
  <2>4. /\ session' \in [id : 1..MaxSessions, last : 0..(Wrap - 1)]
        /\ session'.last = Uptime(r)
        /\ \/ session'.id = opened + 1
           \/ session # None /\ session'.id = session.id /\ session.last <= Uptime(r)
    <3>1. CASE session = None \/ Uptime(r) < session.last
      <4>1. session' = [id |-> opened + 1, last |-> Uptime(r)]
        BY <2>1, <3>1 DEF SessionFor
      <4>2. opened + 1 \in 1..MaxSessions
        BY <2>1, <2>3, <4>1
      <4> QED BY <2>2, <4>1, <4>2
    <3>2. CASE ~(session = None \/ Uptime(r) < session.last)
      <4>1. session' = [session EXCEPT !.last = Uptime(r)]
        BY <2>1, <3>2 DEF SessionFor
      <4>2. session \in [id : 1..MaxSessions, last : 0..(Wrap - 1)]
        BY <2>3, <3>2
      <4>3. session.last <= Uptime(r)
        <5>1. session.last \in Nat
          BY <4>2, TelemetryAssumption
        <5> QED BY <2>2, <3>2, <5>1
      <4> QED BY <2>2, <3>2, <4>1, <4>2, <4>3
    <3> QED BY <3>1, <3>2
  <2>5. job \in Tasks
    BY <2>4 DEF Tasks
  <2>6. job.rec = r /\ job.session = opened'
    BY <2>1
  <2> HIDE DEF job
  <2>7. tasks \in Seq(Tasks) /\ Len(tasks) \in Nat /\ DOMAIN tasks = 1..Len(tasks)
    BY StateSequences DEF TypeOK
  <2>8. /\ tasks' \in Seq(Tasks) /\ Len(tasks') = Len(tasks) + 1
        /\ DOMAIN tasks' = 1..(Len(tasks) + 1)
        /\ \A i \in 1..(Len(tasks) + 1) : tasks'[i] = IF i <= Len(tasks) THEN tasks[i] ELSE job
    BY <2>1, <2>5, <2>7
  <2>9. InTasks' = InTasks \cup {[rec |-> r, session |-> opened']}
    <3>1. \A i \in DOMAIN tasks : i \in DOMAIN tasks' /\ tasks'[i] = tasks[i]
      BY <2>7, <2>8
    <3>2. /\ Len(tasks) + 1 \in DOMAIN tasks' /\ tasks'[Len(tasks) + 1] = job
          /\ \A i \in DOMAIN tasks' : i \in DOMAIN tasks \/ i = Len(tasks) + 1
      BY <2>7, <2>8
    <3> QED BY <2>6, <3>1, <3>2 DEF InTasks
  <2>10. Accepted' = Accepted \cup {[rec |-> r, session |-> opened']}
    BY <2>9 DEF Accepted
  <2>11. Len(tasks') <= MaxTasks
    BY <2>1, <2>7, <2>8, TelemetryAssumption
  <2> QED BY <2>1, <2>4, <2>8, <2>10, <2>11
<1> QED BY <1>1, <1>2

\* Accepting a record that is inverted with nothing accepted before, and with
\* which nothing still to come is inverted, keeps the invariant.
LEMMA AcceptStep ==
  ASSUME IInv, NEW r \in Records, NEW polled \in BOOLEAN, Accept(r, polled),
         readings' = readings, UNCHANGED <<node, link, attr, sent>>, AirInv',
         air' \in Seq(Records), \A i \in DOMAIN air' : \E j \in DOMAIN air : air'[i] = air[j],
         Past(r),
         \A x \in Accepted : ~Inverted(r, x.rec),
         \A i \in DOMAIN buffer : ~Inverted(buffer[i], r),
         \A i \in DOMAIN air' : ~Inverted(air'[i], r),
         attr # None => ~Inverted(attr, r)
  PROVE  IInv'
<1>1. /\ boot' = boot /\ clock' = clock /\ seq' = seq /\ buffer' = buffer /\ dropped' = dropped
      /\ link' = link /\ attr' = attr /\ sent' = sent
  BY DEF node
<1>2. /\ dedupe' = dedupe
      /\ \/ session' = session /\ opened' = opened /\ tasks' = tasks /\ Accepted' = Accepted
         \/ /\ session' \in [id : 1..MaxSessions, last : 0..(Wrap - 1)]
            /\ opened' \in 1..MaxSessions /\ session'.id = opened' /\ session'.last = Uptime(r)
            /\ tasks' \in Seq(Tasks) /\ Len(tasks') <= MaxTasks
            /\ Accepted' = Accepted \cup {[rec |-> r, session |-> opened']}
            /\ \/ opened' = opened + 1
               \/ session # None /\ opened' = opened /\ session.last <= Uptime(r)
  BY AcceptFact DEF IInv, SessionInv
<1>3. TypeOK'
  <2>1. session' \in [id : 1..MaxSessions, last : 0..(Wrap - 1)] \cup {None}
    BY <1>2 DEF IInv, TypeOK
  <2>2. tasks' \in Seq(Tasks) /\ Len(tasks') <= MaxTasks /\ opened' \in 0..MaxSessions
    BY <1>2, TelemetryAssumption DEF IInv, TypeOK
  <2>3. /\ boot' \in 1..MaxBoots /\ clock' \in 0..MaxClock /\ seq' \in Nat /\ dropped' \in Nat
        /\ buffer' \in Seq(Records) /\ Len(buffer') <= Capacity
        /\ link' \in {"down", "up", "notify", "poll"} /\ attr' \in Records \cup {None}
        /\ dedupe' \in Seq(Types \X Nat) /\ Len(dedupe') <= CacheSize
        /\ readings' \subseteq [rec : Records, session : 1..MaxSessions] /\ sent' \subseteq Nat
    BY <1>1, <1>2 DEF IInv, TypeOK
  <2> QED BY <2>1, <2>2, <2>3 DEF TypeOK
<1>4. NodeInv' /\ CacheOnlyStored'
  BY <1>1, <1>2 DEF IInv, NodeInv, EachRecordOnce, CacheOnlyStored
<1>5. \A x \in Accepted' : x \in Accepted \/ x.rec = r
  BY <1>2
<1>6. PastInv'
  <2>1. \A i \in DOMAIN air' : Past(air'[i])
    BY DEF IInv, PastInv
  <2>2. \A x \in Accepted' : Past(x.rec)
    BY <1>5 DEF IInv, PastInv
  <2> QED BY <1>1, <2>1, <2>2 DEF IInv, PastInv, Past
<1>7. TurnInv'
  <2>1. ASSUME NEW i \in DOMAIN buffer
        PROVE  /\ \A j \in DOMAIN air' : ~Inverted(buffer[i], air'[j])
               /\ \A x \in Accepted' : ~Inverted(buffer[i], x.rec)
    BY <1>5 DEF IInv, TurnInv
  <2>2. ASSUME NEW i \in DOMAIN air', NEW x \in Accepted' PROVE ~Inverted(air'[i], x.rec)
    BY <1>5 DEF IInv, TurnInv
  <2>3. ASSUME attr # None, NEW x \in Accepted' PROVE ~Inverted(attr, x.rec)
    BY <1>5, <2>3 DEF IInv, TurnInv
  <2>4. \A i \in DOMAIN buffer : attr # None => ~Inverted(buffer[i], attr)
    BY DEF IInv, TurnInv
  <2> QED BY <1>1, <2>1, <2>2, <2>3, <2>4 DEF TurnInv
<1>8. SessionInv'
  <2>1. CASE session' = session /\ opened' = opened /\ tasks' = tasks /\ Accepted' = Accepted
    BY <2>1 DEF IInv, SessionInv
  <2>2. CASE /\ session' \in [id : 1..MaxSessions, last : 0..(Wrap - 1)]
             /\ opened' \in 1..MaxSessions /\ session'.id = opened' /\ session'.last = Uptime(r)
             /\ Accepted' = Accepted \cup {[rec |-> r, session |-> opened']}
             /\ \/ opened' = opened + 1
                \/ session # None /\ opened' = opened /\ session.last <= Uptime(r)
    <3>1. /\ \A x \in Accepted : /\ x.session \in Nat /\ Uptime(x.rec) \in Nat /\ x.rec.seq \in Nat
                                 /\ x.session <= opened
          /\ opened \in Nat /\ Uptime(r) \in Nat
      <4>1. \A x \in Accepted : x \in [rec : Records, session : 1..MaxSessions]
        BY AcceptedTyped DEF IInv
      <4>2. \A x \in Accepted : x.session \in 1..MaxSessions /\ x.rec \in Records
        BY <4>1
      <4>3. \A x \in Accepted : Uptime(x.rec) \in Nat /\ x.rec.seq \in Nat
        BY <4>2, RecordFact, UptimeFact
      <4>4. opened \in Nat /\ Uptime(r) \in Nat
        BY UptimeFact, TelemetryAssumption DEF IInv, TypeOK
      <4> QED BY <4>2, <4>3, <4>4, TelemetryAssumption DEF IInv, SessionInv
    <3>2. ASSUME NEW x \in Accepted, x.session = opened' PROVE Uptime(x.rec) <= Uptime(r)
      <4>1. session # None /\ opened' = opened /\ session.last <= Uptime(r)
        BY <2>2, <3>1, <3>2
      <4>2. Uptime(x.rec) <= session.last
        BY <3>2, <4>1 DEF IInv, SessionInv
      <4>3. session.last \in Nat
        BY <4>1, TelemetryAssumption DEF IInv, TypeOK
      <4> QED BY <3>1, <4>1, <4>2, <4>3
    <3> DEFINE new == [rec |-> r, session |-> opened']
    <3>3. new.rec = r /\ new.session = opened' /\ Accepted' = Accepted \cup {new}
      BY <2>2
    <3> HIDE DEF new
    <3>4. ASSUME NEW x \in Accepted' PROVE x.session <= opened'
      BY <2>2, <3>1, <3>3
    <3>5. ASSUME NEW x \in Accepted', x.session = session'.id PROVE Uptime(x.rec) <= session'.last
      BY <2>2, <3>1, <3>2, <3>3, <3>5
    <3>6. ASSUME NEW x \in Accepted', NEW y \in Accepted', x.session = y.session
          PROVE  ~Inverted(x.rec, y.rec)
      <4>1. CASE x \in Accepted /\ y \in Accepted
        BY <3>6, <4>1 DEF IInv, SessionInv
      <4>2. CASE x = new /\ y \in Accepted
        BY <3>3, <4>2
      <4>3. CASE x \in Accepted /\ y = new
        <5>1. Uptime(x.rec) <= Uptime(r)
          BY <3>2, <3>3, <3>6, <4>3
        <5>2. x.rec \in Records
          BY <4>3, AcceptedTyped DEF IInv
        <5>3. Era(x.rec) = Era(r) => x.rec.at <= r.at
          BY <5>1, <5>2, EraOrder
        <5>4. x.rec.at \in Nat /\ r.at \in Nat
          BY <5>2, RecordFact
        <5> QED BY <3>3, <4>3, <5>3, <5>4 DEF Inverted
      <4>4. CASE x = new /\ y = new
        <5>1. r.seq \in Nat
          BY RecordFact
        <5> QED BY <3>3, <4>4, <5>1 DEF Inverted
      <4> QED BY <3>3, <4>1, <4>2, <4>3, <4>4
    <3> QED BY <2>2, <3>4, <3>5, <3>6 DEF SessionInv
  <2> QED BY <1>2, <2>1, <2>2
<1> QED BY <1>3, <1>4, <1>6, <1>7, <1>8 DEF IInv

\* A notification is received.
LEMMA DeliverStep == IInv /\ Deliver => IInv'
<1> SUFFICES ASSUME IInv, Deliver PROVE IInv'
  OBVIOUS
<1> DEFINE r == Head(air)
<1>1. /\ air # <<>> /\ Accept(r, FALSE) /\ air' = Tail(air) /\ readings' = readings
      /\ UNCHANGED <<node, link, attr, sent>>
  BY DEF Deliver
<1>2. air \in Seq(Records) /\ Len(air) \in Nat /\ DOMAIN air = 1..Len(air)
  BY StateSequences DEF IInv, TypeOK
<1>3. 1 \in DOMAIN air /\ r = air[1] /\ r \in Records
  BY <1>1, <1>2
<1>4. /\ air' \in Seq(Records) /\ Len(air') = Len(air) - 1 /\ DOMAIN air' = 1..(Len(air) - 1)
      /\ \A i \in 1..(Len(air) - 1) : air'[i] = air[i + 1]
  BY <1>1, <1>2
<1>5. \A i \in DOMAIN air' : i + 1 \in DOMAIN air /\ air'[i] = air[i + 1] /\ i \in Nat /\ i > 0
  BY <1>2, <1>4
<1> HIDE DEF r
<1>6. AirInv'
  <2>1. link \in {"up", "poll"} => FALSE
    BY <1>1 DEF IInv, AirInv
  <2>2. ASSUME NEW i \in DOMAIN air', NEW j \in DOMAIN air', i < j PROVE air'[i].seq < air'[j].seq
    BY <1>5, <2>2 DEF IInv, AirInv
  <2>3. ASSUME attr # None, NEW i \in DOMAIN air' PROVE air'[i].seq <= attr.seq
    BY <1>5, <2>3 DEF IInv, AirInv
  <2> QED BY <1>1, <2>1, <2>2, <2>3 DEF AirInv
<1>7. \A i \in DOMAIN air' : \E j \in DOMAIN air : air'[i] = air[j]
  BY <1>5
<1>8. \A i \in DOMAIN air' : ~Inverted(air'[i], r)
  <2> SUFFICES ASSUME NEW i \in DOMAIN air' PROVE ~Inverted(air'[i], r)
    OBVIOUS
  <2>1. r.seq < air'[i].seq
    BY <1>3, <1>5 DEF IInv, AirInv
  <2>2. r.seq \in Nat /\ air'[i].seq \in Nat
    BY <1>3, <1>4, RecordFact
  <2> QED BY <2>1, <2>2 DEF Inverted
<1>9. attr # None => ~Inverted(attr, r)
  <2> SUFFICES ASSUME attr # None PROVE ~Inverted(attr, r)
    OBVIOUS
  <2>1. r.seq <= attr.seq
    BY <1>3 DEF IInv, AirInv
  <2>2. r.seq \in Nat /\ attr.seq \in Nat
    BY <1>3, RecordFact DEF IInv, TypeOK
  <2> QED BY <2>1, <2>2 DEF Inverted
<1>10. /\ Past(r) /\ \A x \in Accepted : ~Inverted(r, x.rec)
       /\ \A i \in DOMAIN buffer : ~Inverted(buffer[i], r)
  BY <1>3 DEF IInv, PastInv, TurnInv
<1> QED BY <1>1, <1>3, <1>4, <1>6, <1>7, <1>8, <1>9, <1>10, AcceptStep

\* The characteristic is polled.
LEMMA PollStep == IInv /\ Poll => IInv'
<1> SUFFICES ASSUME IInv, Poll PROVE IInv'
  OBVIOUS
<1>1. /\ link = "poll" /\ attr # None /\ Accept(attr, TRUE) /\ air' = air /\ readings' = readings
      /\ UNCHANGED <<node, link, attr, sent>>
  BY DEF Poll
<1>2. air = <<>> /\ attr \in Records
  BY <1>1 DEF IInv, AirInv, TypeOK
<1>3. AirInv' /\ air' \in Seq(Records) /\ DOMAIN air' = {}
  BY <1>1, <1>2 DEF IInv, AirInv
<1>4. ~Inverted(attr, attr)
  BY <1>2, RecordFact DEF Inverted
<1>5. /\ Past(attr) /\ \A x \in Accepted : ~Inverted(attr, x.rec)
      /\ \A i \in DOMAIN buffer : ~Inverted(buffer[i], attr)
  BY <1>1 DEF IInv, PastInv, TurnInv
<1> QED BY <1>1, <1>2, <1>3, <1>4, <1>5, AcceptStep
\* The offline buffer's records, as the invariant has them.
LEMMA BufferFact ==
  ASSUME IInv
  PROVE  /\ buffer \in Seq(Records) /\ Len(buffer) \in Nat /\ DOMAIN buffer = 1..Len(buffer)
         /\ seq \in Nat /\ clock \in Nat /\ boot \in Nat /\ MaxClock \in Nat
         /\ \A i \in DOMAIN buffer : /\ buffer[i] \in Records /\ buffer[i].seq \in Nat
                                     /\ buffer[i].at \in Nat /\ buffer[i].boot = boot
                                     /\ buffer[i].seq < seq /\ buffer[i].seq \notin sent
                                     /\ buffer[i].at < clock
         /\ \A i, j \in DOMAIN buffer : i < j => buffer[i].seq < buffer[j].seq
<1>1. /\ buffer \in Seq(Records) /\ Len(buffer) \in Nat /\ DOMAIN buffer = 1..Len(buffer)
      /\ \A i \in DOMAIN buffer : buffer[i] \in Records
      /\ seq \in Nat /\ clock \in Nat /\ boot \in Nat /\ MaxClock \in Nat
  BY StateSequences, TelemetryAssumption DEF IInv, TypeOK
<1>2. \A i \in DOMAIN buffer : buffer[i].boot = boot /\ buffer[i].seq \in 0..(seq - 1) \ sent
  BY DEF IInv, NodeInv, EachRecordOnce
<1>3. \A i \in DOMAIN buffer : buffer[i].at < clock
  BY <1>2 DEF IInv, PastInv, Past
<1>4. \A i, j \in DOMAIN buffer : i < j => buffer[i].seq < buffer[j].seq
  BY DEF IInv, NodeInv, EachRecordOnce
<1> QED BY <1>1, <1>2, <1>3, <1>4, RecordFact

\* The measurement of an unconnected node goes to the offline buffer, or is
\* counted as dropped.
LEMMA ReportStep == IInv /\ ReportOffline => IInv'
<1> SUFFICES ASSUME IInv, ReportOffline PROVE IInv'
  OBVIOUS
<1> DEFINE r == Record("measurement", seq, clock + 1)
<1>1. /\ clock + 2 <= MaxClock /\ Push(r) /\ seq' = seq + 1 /\ clock' = clock + 2
      /\ boot' = boot /\ link' = link /\ attr' = attr /\ air' = air /\ sent' = sent /\ UNCHANGED gateway
  BY DEF ReportOffline
<1>b. /\ buffer \in Seq(Records) /\ Len(buffer) \in Nat /\ DOMAIN buffer = 1..Len(buffer)
      /\ seq \in Nat /\ clock \in Nat /\ boot \in Nat /\ MaxClock \in Nat
      /\ \A i \in DOMAIN buffer : /\ buffer[i] \in Records /\ buffer[i].seq \in Nat
                                  /\ buffer[i].at \in Nat /\ buffer[i].boot = boot
                                  /\ buffer[i].seq < seq /\ buffer[i].seq \notin sent
                                  /\ buffer[i].at < clock
      /\ \A i, j \in DOMAIN buffer : i < j => buffer[i].seq < buffer[j].seq
  BY BufferFact
<1>2. r \in Records /\ r.boot = boot /\ r.seq = seq /\ r.at = clock + 1
  <2>1. clock + 1 \in 0..MaxClock /\ boot \in 1..MaxBoots
    BY <1>1, <1>b DEF IInv, TypeOK
  <2> QED BY <1>b, <2>1 DEF Record, Records, Types
<1> HIDE DEF r
<1>3. /\ session' = session /\ opened' = opened /\ Accepted' = Accepted /\ CacheOnlyStored'
      /\ SessionInv' /\ dedupe' = dedupe /\ tasks' = tasks /\ readings' = readings
  BY <1>1, GatewayKept DEF IInv
<1>4. /\ \/ /\ Len(buffer) < Capacity /\ dropped' = dropped /\ Len(buffer') = Len(buffer) + 1
            /\ \A i \in 1..(Len(buffer) + 1) : buffer'[i] = IF i <= Len(buffer) THEN buffer[i] ELSE r
         \/ dropped' = dropped + 1 /\ buffer' = buffer
      /\ buffer' \in Seq(Records)
  <2>1. CASE Len(buffer) < Capacity
    <3>1. buffer' = Append(buffer, r) /\ dropped' = dropped
      BY <1>1, <2>1 DEF Push
    <3>2. buffer \in Seq(Records)
      BY DEF IInv, TypeOK
    <3> QED BY <1>2, <2>1, <3>1, <3>2
  <2>2. CASE ~(Len(buffer) < Capacity)
    BY <1>1, <2>2 DEF Push, IInv, TypeOK
  <2> QED BY <2>1, <2>2
<1>5. DOMAIN buffer' = 1..Len(buffer')
  BY <1>4
<1>6. \A i \in DOMAIN buffer' : (i \in DOMAIN buffer /\ buffer'[i] = buffer[i])
                                \/ (i = Len(buffer) + 1 /\ buffer'[i] = r)
  <2>1. CASE buffer' = buffer
    BY <2>1
  <2>2. CASE /\ Len(buffer') = Len(buffer) + 1
             /\ \A i \in 1..(Len(buffer) + 1) : buffer'[i] = IF i <= Len(buffer) THEN buffer[i] ELSE r
    <3> SUFFICES ASSUME NEW i \in DOMAIN buffer'
                 PROVE  (i \in DOMAIN buffer /\ buffer'[i] = buffer[i])
                        \/ (i = Len(buffer) + 1 /\ buffer'[i] = r)
      OBVIOUS
    <3>1. i \in 1..(Len(buffer) + 1)
      BY <1>5, <2>2
    <3>2. buffer'[i] = IF i <= Len(buffer) THEN buffer[i] ELSE r
      BY <2>2, <3>1
    <3> QED BY <1>b, <3>1, <3>2
  <2> QED BY <1>4, <2>1, <2>2
<1>7. TypeOK'
  <2>1. dropped \in Nat /\ Len(buffer) <= Capacity /\ Capacity \in Nat
    BY TelemetryAssumption DEF IInv, TypeOK
  <2>2. Len(buffer') <= Capacity /\ dropped' \in Nat
    BY <1>4, <1>b, <2>1
  <2>3. clock' \in 0..MaxClock /\ seq' \in Nat /\ boot' \in 1..MaxBoots
    BY <1>1, <1>b DEF IInv, TypeOK
  <2> QED BY <1>1, <1>3, <1>4, <2>2, <2>3 DEF IInv, TypeOK
<1>8. NodeInv'
  <2>1. ASSUME NEW i \in DOMAIN buffer', NEW j \in DOMAIN buffer', i < j
        PROVE  buffer'[i].seq < buffer'[j].seq
    BY <1>2, <1>6, <1>b, <2>1
  <2>2. sent \subseteq 0..(seq - 1) /\ IsFiniteSet(sent) /\ seq = Cardinality(sent) + Len(buffer) + dropped
    BY DEF IInv, NodeInv, EachRecordOnce
  <2>3. ASSUME NEW i \in DOMAIN buffer'
        PROVE  buffer'[i].boot = boot' /\ buffer'[i].seq \in 0..(seq' - 1) \ sent'
    BY <1>1, <1>2, <1>6, <1>b, <2>2
  <2>4. Cardinality(sent) \in Nat /\ dropped \in Nat
    BY <2>2, FS_CardinalityType DEF IInv, TypeOK
  <2>5. seq' = Cardinality(sent') + Len(buffer') + dropped'
    <3>1. Cardinality(sent') = Cardinality(sent)
      BY <1>1
    <3>2. Len(buffer') + dropped' = Len(buffer) + dropped + 1
      <4>1. CASE dropped' = dropped /\ Len(buffer') = Len(buffer) + 1
        BY <1>b, <2>4, <4>1
      <4>2. CASE dropped' = dropped + 1 /\ Len(buffer') = Len(buffer)
        BY <1>b, <2>4, <4>2
      <4> QED BY <1>4, <4>1, <4>2
    <3>3. Len(buffer') \in Nat /\ dropped' \in Nat
      BY <1>7, StateSequences, <1>4 DEF TypeOK
    <3> DEFINE C == Cardinality(sent)
               L == Len(buffer')
               d == dropped'
    <3>4. /\ C \in Nat /\ L \in Nat /\ d \in Nat /\ Len(buffer) \in Nat /\ dropped \in Nat
          /\ L + d = Len(buffer) + dropped + 1 /\ seq = C + Len(buffer) + dropped
      BY <1>b, <2>2, <2>4, <3>2, <3>3
    <3> HIDE DEF C, L, d
    <3>5. seq + 1 = C + L + d
      BY <3>4
    <3> QED BY <1>1, <3>1, <3>5 DEF C, L, d
  <2>6. sent' \subseteq 0..(seq' - 1)
    BY <1>1, <1>b, <2>2
  <2> QED BY <1>1, <2>1, <2>2, <2>3, <2>5, <2>6 DEF NodeInv, EachRecordOnce
<1>9. PastInv'
  <2>1. \A x \in Records : Past(x) => Past(x)'
    BY <1>1, <1>b, RecordFact DEF Past
  <2>2. \A i \in DOMAIN air : air[i] \in Records
    BY StateSequences DEF IInv
  <2>3. \A x \in Accepted : x.rec \in Records
    BY AcceptedTyped DEF IInv
  <2>4. \A i \in DOMAIN air : Past(air[i])'
    BY <1>1, <2>1, <2>2 DEF IInv, PastInv, Past
  <2>5. \A x \in Accepted : Past(x.rec)'
    BY <2>1, <2>3 DEF IInv, PastInv, Past
  <2>6. attr # None => Past(attr)'
    BY <1>1, <2>1 DEF IInv, PastInv, TypeOK, Past
  <2>7. \A i \in DOMAIN buffer' :
          /\ buffer'[i].boot <= boot'
          /\ buffer'[i].boot = boot' => buffer'[i].seq < seq' /\ buffer'[i].at < clock'
    BY <1>1, <1>2, <1>6, <1>b
  <2> QED BY <1>1, <1>3, <2>4, <2>5, <2>6, <2>7 DEF PastInv, Past
<1>10. AirInv'
  BY <1>1 DEF IInv, AirInv
<1>11. TurnInv'
  <2>1. \A x \in Records : Past(x) => ~Inverted(r, x)
    BY <1>2, <1>b, RecordFact DEF Past, Inverted
  <2>2. \A i \in DOMAIN air : ~Inverted(r, air[i])
    BY <2>1, StateSequences DEF IInv, PastInv
  <2>3. \A x \in Accepted : ~Inverted(r, x.rec)
    BY <2>1, AcceptedTyped DEF IInv, PastInv
  <2>4. attr # None => ~Inverted(r, attr)
    BY <2>1 DEF IInv, PastInv, TypeOK
  <2>5. ASSUME NEW i \in DOMAIN buffer'
        PROVE  /\ \A j \in DOMAIN air : ~Inverted(buffer'[i], air[j])
               /\ attr # None => ~Inverted(buffer'[i], attr)
               /\ \A x \in Accepted : ~Inverted(buffer'[i], x.rec)
    BY <1>6, <2>2, <2>3, <2>4, <2>5 DEF IInv, TurnInv
  <2> QED BY <1>1, <1>3, <2>5 DEF IInv, TurnInv
<1> QED BY <1>3, <1>7, <1>8, <1>9, <1>10, <1>11 DEF IInv

\* One more number is published.
LEMMA AddNumber ==
  ASSUME NEW S, IsFiniteSet(S), NEW n, n \notin S
  PROVE  IsFiniteSet(S \cup {n}) /\ Cardinality(S \cup {n}) = Cardinality(S) + 1
BY FS_AddElement

\* An iteration with a central: the numbers it publishes leave the buffer or are
\* new, and each is published once.
LEMMA PublishCounts ==
  ASSUME IInv, NEW report \in BOOLEAN, NEW beat \in BOOLEAN, Publish(report, beat)
  PROVE  /\ NodeInv'
         /\ buffer' \in Seq(Records) /\ Len(buffer') <= Len(buffer)
         /\ \A i \in DOMAIN buffer' : \E j \in DOMAIN buffer : buffer'[i] = buffer[j]
<1>b. /\ buffer \in Seq(Records) /\ Len(buffer) \in Nat /\ DOMAIN buffer = 1..Len(buffer)
      /\ seq \in Nat
      /\ \A i \in DOMAIN buffer : /\ buffer[i].seq \in Nat /\ buffer[i].boot = boot
                                  /\ buffer[i].seq < seq /\ buffer[i].seq \notin sent
      /\ \A i, j \in DOMAIN buffer : i < j => buffer[i].seq < buffer[j].seq
  BY BufferFact
<1>1. /\ buffer' = Popped(report) /\ boot' = boot /\ dropped' = dropped
      /\ seq' = seq + (IF report THEN 1 ELSE 0) + (IF beat THEN 1 ELSE 0)
  BY DEF Publish
<1> DEFINE pop == report /\ buffer # <<>>
           D == IF pop THEN {Head(buffer).seq} ELSE {}
           M == IF report THEN {seq} ELSE {}
           B == IF beat THEN {IF report THEN seq + 1 ELSE seq} ELSE {}
<1>2. sent' = sent \cup D \cup M \cup B
  BY <1>b, Publishes DEF IInv
<1>3. /\ sent \subseteq 0..(seq - 1) /\ IsFiniteSet(sent)
      /\ seq = Cardinality(sent) + Len(buffer) + dropped
      /\ Cardinality(sent) \in Nat /\ dropped \in Nat
  BY FS_CardinalityType DEF IInv, NodeInv, EachRecordOnce, TypeOK
<1>4. pop => Head(buffer) = buffer[1] /\ 1 \in DOMAIN buffer /\ Len(buffer) > 0
  BY <1>b
<1>5. /\ buffer' \in Seq(Records)
      /\ Len(buffer') = IF pop THEN Len(buffer) - 1 ELSE Len(buffer)
      /\ \A i \in 1..Len(buffer') : buffer'[i] = IF pop THEN buffer[i + 1] ELSE buffer[i]
  <2>1. CASE pop
    <3>1. buffer' = Tail(buffer) /\ buffer # <<>>
      BY <1>1, <2>1 DEF Popped
    <3> QED BY <1>b, <2>1, <3>1
  <2>2. CASE ~pop
    <3>1. buffer' = buffer
      BY <1>1, <2>2 DEF Popped
    <3> QED BY <1>b, <2>2, <3>1
  <2> QED BY <2>1, <2>2
<1>6. DOMAIN buffer' = 1..Len(buffer') /\ Len(buffer') \in Nat
  BY <1>5
<1> DEFINE up == IF pop THEN 1 ELSE 0
<1>7. /\ up \in {0, 1} /\ Len(buffer') = Len(buffer) - up
      /\ \A i \in DOMAIN buffer' : i + up \in DOMAIN buffer /\ buffer'[i] = buffer[i + up] /\ i \in Nat /\ i > 0
  <2>1. CASE pop
    <3>1. up = 1 /\ Len(buffer') = Len(buffer) - 1
      BY <1>5, <2>1
    <3>2. \A i \in 1..Len(buffer') : buffer'[i] = buffer[i + 1]
      BY <1>5, <2>1
    <3> HIDE DEF up, pop
    <3> QED BY <1>6, <1>b, <3>1, <3>2
  <2>2. CASE ~pop
    <3>1. up = 0 /\ Len(buffer') = Len(buffer)
      BY <1>5, <2>2
    <3>2. \A i \in 1..Len(buffer') : buffer'[i] = buffer[i]
      BY <1>5, <2>2
    <3> HIDE DEF up, pop
    <3> QED BY <1>6, <1>b, <3>1, <3>2
  <2> QED BY <2>1, <2>2
<1>8. /\ IsFiniteSet(sent \cup D) /\ Cardinality(sent \cup D) = Cardinality(sent) + up
      /\ sent \cup D \subseteq 0..(seq - 1)
  <2>1. CASE pop
    <3>1. Head(buffer).seq \notin sent /\ Head(buffer).seq \in 0..(seq - 1)
      BY <1>4, <1>b, <2>1
    <3>2. D = {Head(buffer).seq} /\ up = 1
      BY <2>1
    <3> HIDE DEF D, up, pop
    <3>3. /\ IsFiniteSet(sent \cup {Head(buffer).seq})
          /\ Cardinality(sent \cup {Head(buffer).seq}) = Cardinality(sent) + 1
      BY <1>3, <3>1, AddNumber
    <3>4. sent \cup {Head(buffer).seq} \subseteq 0..(seq - 1)
      BY <1>3, <3>1
    <3> QED BY <3>2, <3>3, <3>4
  <2>2. CASE ~pop
    <3>1. sent \cup D = sent /\ up = 0
      BY <2>2
    <3> HIDE DEF D, up, pop
    <3>2. Cardinality(sent) = Cardinality(sent) + up
      BY <1>3, <3>1
    <3> QED BY <1>3, <3>1, <3>2
  <2> QED BY <2>1, <2>2
<1>9. /\ IsFiniteSet(sent \cup D \cup M)
      /\ Cardinality(sent \cup D \cup M) = Cardinality(sent) + up + (IF report THEN 1 ELSE 0)
      /\ sent \cup D \cup M \subseteq 0..(seq + (IF report THEN 1 ELSE 0) - 1)
  <2> HIDE DEF D, up, pop
  <2>1. CASE report
    <3>1. seq \notin sent \cup D
      BY <1>8, <1>b
    <3>2. sent \cup D \cup M = (sent \cup D) \cup {seq}
      BY <2>1
    <3>3. /\ IsFiniteSet(sent \cup D \cup M)
          /\ Cardinality(sent \cup D \cup M) = Cardinality(sent \cup D) + 1
      BY <1>8, <3>1, <3>2, AddNumber
    <3>4. sent \cup D \cup M \subseteq 0..seq
      BY <1>8, <1>b, <3>2
    <3> QED BY <1>8, <1>b, <2>1, <3>3, <3>4
  <2>2. CASE ~report
    <3>1. sent \cup D \cup M = sent \cup D
      BY <2>2
    <3> QED BY <1>3, <1>7, <1>8, <1>b, <2>2, <3>1
  <2> QED BY <2>1, <2>2
<1>10. /\ IsFiniteSet(sent')
       /\ Cardinality(sent') = Cardinality(sent) + up + (IF report THEN 1 ELSE 0) + (IF beat THEN 1 ELSE 0)
       /\ sent' \subseteq 0..(seq' - 1)
  <2> DEFINE S == sent \cup D \cup M
             n == seq + (IF report THEN 1 ELSE 0)
  <2>1. n \in Nat /\ S \subseteq 0..(n - 1)
    BY <1>9, <1>b
  <2>2. sent' = IF beat THEN S \cup {n} ELSE S
    BY <1>2, <1>b
  <2>3. n \notin S
    <3> HIDE DEF S, n
    <3> QED BY <2>1
  <2>4. IsFiniteSet(S \cup {n}) /\ Cardinality(S \cup {n}) = Cardinality(S) + 1
    <3> HIDE DEF S, n
    <3>1. IsFiniteSet(S)
      BY <1>9 DEF S
    <3> QED BY <2>3, <3>1, AddNumber
  <2>5. seq' = n + (IF beat THEN 1 ELSE 0)
    BY <1>1, <1>b
  <2>6. IsFiniteSet(S) /\ Cardinality(S) = Cardinality(sent) + up + (IF report THEN 1 ELSE 0)
    BY <1>9
  <2> HIDE DEF S, n, up
  <2>7. CASE beat
    BY <1>3, <2>1, <2>2, <2>4, <2>5, <2>6, <2>7
  <2>8. CASE ~beat
    BY <1>3, <1>7, <2>1, <2>2, <2>5, <2>6, <2>8
  <2> QED BY <2>7, <2>8
<1> HIDE DEF up
<1>11. seq' = Cardinality(sent') + Len(buffer') + dropped'
  <2> DEFINE made == (IF report THEN 1 ELSE 0) + (IF beat THEN 1 ELSE 0)
             left == Len(buffer)
             gone == Cardinality(sent)
  <2>1. made \in Nat /\ left \in Nat /\ gone \in Nat /\ up \in Nat /\ dropped \in Nat
    BY <1>3, <1>7, <1>b
  <2>2. seq' = seq + made
    BY <1>1, <1>b
  <2>3. Cardinality(sent') = gone + up + made
    BY <1>3, <1>7, <1>10
  <2>4. Len(buffer') = left - up /\ seq = gone + left + dropped
    BY <1>3, <1>7
  <2>5. dropped' = dropped
    BY <1>1
  <2> HIDE DEF made, left, gone
  <2> QED BY <2>1, <2>2, <2>3, <2>4, <2>5
<1>12. ASSUME NEW i \in DOMAIN buffer', NEW j \in DOMAIN buffer', i < j PROVE buffer'[i].seq < buffer'[j].seq
  BY <1>7, <1>12, <1>b
<1>13. ASSUME NEW i \in DOMAIN buffer'
       PROVE  buffer'[i].boot = boot' /\ buffer'[i].seq \in 0..(seq' - 1) \ sent'
  <2>1. i + up \in DOMAIN buffer /\ buffer'[i] = buffer[i + up] /\ i \in Nat /\ i > 0
    BY <1>7
  <2>2. /\ buffer'[i].seq \in Nat /\ buffer'[i].boot = boot
        /\ buffer'[i].seq < seq /\ buffer'[i].seq \notin sent
    BY <1>b, <2>1
  <2>3. buffer'[i].seq \notin D
    <3>1. CASE pop
      <4>1. up = 1 /\ Head(buffer).seq = buffer[1].seq /\ 1 \in DOMAIN buffer /\ 1 < i + up
        BY <1>4, <2>1, <3>1 DEF up
      <4>2. buffer[1].seq < buffer'[i].seq /\ buffer[1].seq \in Nat
        BY <1>b, <2>1, <4>1
      <4> QED BY <2>2, <4>1, <4>2
    <3>2. CASE ~pop
      BY <3>2
    <3> QED BY <3>1, <3>2
  <2>4. buffer'[i].seq \notin M /\ buffer'[i].seq \notin B
    BY <1>b, <2>2
  <2>5. seq' \in Nat /\ seq <= seq'
    BY <1>1, <1>b
  <2> HIDE DEF D, M, B
  <2> QED BY <1>1, <1>2, <1>b, <2>2, <2>3, <2>4, <2>5
<1>14. NodeInv'
  BY <1>10, <1>11, <1>12, <1>13 DEF NodeInv, EachRecordOnce
<1>15. \A i \in DOMAIN buffer' : \E j \in DOMAIN buffer : buffer'[i] = buffer[j]
  BY <1>7
<1>16. Len(buffer') <= Len(buffer)
  BY <1>7, <1>b
<1> QED BY <1>5, <1>14, <1>15, <1>16
\* An iteration with a central keeps the invariant.
LEMMA PublishStep ==
  ASSUME IInv, NEW report \in BOOLEAN, NEW beat \in BOOLEAN, Publish(report, beat)
  PROVE  IInv'
<1>b. /\ buffer \in Seq(Records) /\ Len(buffer) \in Nat /\ DOMAIN buffer = 1..Len(buffer)
      /\ seq \in Nat /\ clock \in Nat /\ boot \in Nat /\ MaxClock \in Nat
      /\ \A i \in DOMAIN buffer : /\ buffer[i] \in Records /\ buffer[i].seq \in Nat
                                  /\ buffer[i].at \in Nat /\ buffer[i].boot = boot
                                  /\ buffer[i].seq < seq /\ buffer[i].seq \notin sent
                                  /\ buffer[i].at < clock
      /\ \A i, j \in DOMAIN buffer : i < j => buffer[i].seq < buffer[j].seq
  BY BufferFact
<1>1. /\ clock + 2 <= MaxClock /\ clock' = clock + 2 /\ (report \/ beat)
      /\ seq' = seq + (IF report THEN 1 ELSE 0) + (IF beat THEN 1 ELSE 0)
      /\ boot' = boot /\ dropped' = dropped /\ link' = link /\ UNCHANGED gateway
  BY DEF Publish
<1>2. /\ air' \in Seq(Records)
      /\ link # "notify" => air' = <<>>
      /\ \A i \in 1..Len(air') : New(air'[i]) \/ (buffer # <<>> /\ air'[i] = Head(buffer))
      /\ \A i, j \in 1..Len(air') : i < j => air'[i].seq < air'[j].seq
      /\ New(attr') /\ attr'.seq = seq' - 1
      /\ \A i \in 1..Len(air') : air'[i].seq <= attr'.seq
  BY <1>b, Publishes DEF IInv
<1>3. /\ NodeInv' /\ buffer' \in Seq(Records) /\ Len(buffer') <= Len(buffer)
      /\ \A i \in DOMAIN buffer' : \E j \in DOMAIN buffer : buffer'[i] = buffer[j]
  BY PublishCounts
<1>4. /\ session' = session /\ opened' = opened /\ Accepted' = Accepted /\ CacheOnlyStored'
      /\ SessionInv' /\ dedupe' = dedupe /\ tasks' = tasks /\ readings' = readings
  BY <1>1, GatewayKept DEF IInv
<1>5. DOMAIN air' = 1..Len(air') /\ \A i \in DOMAIN air' : air'[i] \in Records
  BY <1>2
<1>6. ASSUME NEW i \in DOMAIN air'
      PROVE  New(air'[i]) \/ (1 \in DOMAIN buffer /\ air'[i] = buffer[1])
  BY <1>2, <1>5, <1>6, <1>b
<1>s. seq' \in Nat /\ seq <= seq' /\ clock' \in Nat
  BY <1>1, <1>b
<1>7. TypeOK'
  <2>1. Len(buffer') <= Capacity
    <3>1. Len(buffer) <= Capacity /\ Capacity \in Nat /\ Len(buffer') \in Nat
      BY <1>3, TelemetryAssumption DEF IInv, TypeOK
    <3> QED BY <1>3, <1>b, <3>1
  <2>2. clock' \in 0..MaxClock /\ seq' \in Nat /\ attr' \in Records
    BY <1>1, <1>2, <1>b, <1>s DEF New
  <2>3. sent' \subseteq Nat
    <3>1. sent' \subseteq 0..(seq' - 1)
      BY <1>3 DEF NodeInv
    <3>2. 0..(seq' - 1) \subseteq Nat
      BY <1>1, <1>b
    <3> QED BY <3>1, <3>2
  <2> QED BY <1>1, <1>2, <1>3, <1>4, <2>1, <2>2, <2>3 DEF IInv, TypeOK
<1>8. AirInv'
  BY <1>1, <1>2, <1>5 DEF AirInv
<1>p. \A x \in Records : Past(x) => /\ x.boot <= boot'
                                    /\ x.boot = boot' => x.seq < seq' /\ x.at < clock'
  BY <1>1, <1>b, <1>s, RecordFact DEF Past
<1>9. PastInv'
  <2>1. ASSUME NEW x \in Records, New(x), x.seq <= seq' - 1
        PROVE  /\ x.boot <= boot'
               /\ x.boot = boot' => x.seq < seq' /\ x.at < clock'
    BY <1>1, <1>b, <1>s, <2>1, RecordFact DEF New
  <2>2. \A i \in DOMAIN buffer : Past(buffer[i])
    BY DEF IInv, PastInv
  <2>3. \A i \in DOMAIN buffer' : /\ buffer'[i].boot <= boot'
                                  /\ buffer'[i].boot = boot' => buffer'[i].seq < seq' /\ buffer'[i].at < clock'
    BY <1>3, <1>b, <1>p, <2>2
  <2>4. ASSUME NEW i \in DOMAIN air'
        PROVE  /\ air'[i].boot <= boot'
               /\ air'[i].boot = boot' => air'[i].seq < seq' /\ air'[i].at < clock'
    <3>1. air'[i] \in Records /\ air'[i].seq <= seq' - 1
      BY <1>2, <1>5
    <3>2. CASE New(air'[i])
      BY <2>1, <3>1, <3>2
    <3>3. CASE 1 \in DOMAIN buffer /\ air'[i] = buffer[1]
      BY <1>p, <2>2, <3>1, <3>3
    <3> QED BY <1>6, <3>2, <3>3
  <2>5. attr'.boot <= boot' /\ (attr'.boot = boot' => attr'.seq < seq' /\ attr'.at < clock')
    <3>1. attr' \in Records /\ New(attr')
      BY <1>2 DEF New
    <3>2. attr'.seq <= seq' - 1
      <4>1. attr'.seq = seq' - 1
        BY <1>2
      <4>2. seq' - 1 <= seq' - 1
        BY <1>1, <1>b
      <4> QED BY <4>1, <4>2
    <3> QED BY <2>1, <3>1, <3>2
  <2>6. \A x \in Accepted : /\ x.rec.boot <= boot'
                            /\ x.rec.boot = boot' => x.rec.seq < seq' /\ x.rec.at < clock'
    <3>1. \A x \in Accepted : x.rec \in Records /\ Past(x.rec)
      BY AcceptedTyped DEF IInv, PastInv
    <3> QED BY <1>p, <3>1
  <2> QED BY <1>4, <2>3, <2>4, <2>5, <2>6 DEF PastInv, Past
<1>10. TurnInv'
  <2>1. ASSUME NEW i \in DOMAIN buffer, NEW x \in Records, New(x) PROVE ~Inverted(buffer[i], x)
    BY <1>b, <2>1, RecordFact DEF New, Inverted
  <2>2. ASSUME NEW x \in Accepted, NEW r \in Records, New(r) PROVE ~Inverted(r, x.rec)
    <3>1. x.rec \in Records /\ Past(x.rec)
      BY AcceptedTyped DEF IInv, PastInv
    <3>2. x.rec.seq \in Nat /\ r.seq \in Nat /\ r.boot = boot /\ r.seq >= seq
      BY <1>b, <2>2, <3>1, RecordFact DEF New
    <3> QED BY <1>b, <3>1, <3>2 DEF Past, Inverted
  <2>3. ASSUME NEW i \in DOMAIN buffer, 1 \in DOMAIN buffer PROVE ~Inverted(buffer[i], buffer[1])
    <3>1. i = 1 \/ 1 < i
      BY <1>b, <2>3
    <3> QED BY <1>b, <2>3, <3>1 DEF Inverted
  <2>4. ASSUME NEW i \in DOMAIN buffer, NEW j \in DOMAIN air' PROVE ~Inverted(buffer[i], air'[j])
    <3>1. CASE New(air'[j])
      BY <1>5, <2>1, <3>1
    <3>2. CASE 1 \in DOMAIN buffer /\ air'[j] = buffer[1]
      BY <2>3, <3>2
    <3> QED BY <1>6, <3>1, <3>2
  <2>5. attr' \in Records /\ New(attr')
    BY <1>2 DEF New
  <2>6. ASSUME NEW i \in DOMAIN buffer
        PROVE  /\ \A j \in DOMAIN air' : ~Inverted(buffer[i], air'[j])
               /\ ~Inverted(buffer[i], attr')
               /\ \A x \in Accepted : ~Inverted(buffer[i], x.rec)
    BY <2>1, <2>4, <2>5 DEF IInv, TurnInv
  <2>7. ASSUME NEW i \in DOMAIN buffer'
        PROVE  /\ \A j \in DOMAIN air' : ~Inverted(buffer'[i], air'[j])
               /\ ~Inverted(buffer'[i], attr')
               /\ \A x \in Accepted : ~Inverted(buffer'[i], x.rec)
    <3>1. PICK k \in DOMAIN buffer : buffer'[i] = buffer[k]
      BY <1>3
    <3> QED BY <2>6, <3>1
  <2>8. ASSUME NEW i \in DOMAIN air', NEW x \in Accepted PROVE ~Inverted(air'[i], x.rec)
    <3>1. CASE New(air'[i])
      BY <1>5, <2>2, <3>1
    <3>2. CASE 1 \in DOMAIN buffer /\ air'[i] = buffer[1]
      BY <2>6, <3>2
    <3> QED BY <1>6, <3>1, <3>2
  <2>9. \A x \in Accepted : ~Inverted(attr', x.rec)
    BY <2>2, <2>5
  <2> QED BY <1>4, <2>7, <2>8, <2>9 DEF TurnInv
<1> QED BY <1>3, <1>4, <1>7, <1>8, <1>9, <1>10 DEF IInv

\* Every step keeps the invariant.
LEMMA NextInv == IInv /\ [Next]_vars => IInv'
<1> SUFFICES ASSUME IInv, [Next]_vars PROVE IInv'
  OBVIOUS
<1>1. CASE ReportOffline
  BY <1>1, ReportStep
<1>2. ASSUME NEW report \in BOOLEAN, NEW beat \in BOOLEAN, Publish(report, beat) PROVE IInv'
  BY <1>2, PublishStep
<1>3. CASE Reboot
  BY <1>3, RebootStep
<1>4. CASE Connect
  BY <1>4, LinkStep DEF Connect
<1>5. ASSUME NEW mode \in {"notify", "poll"}, Subscribe(mode) PROVE IInv'
  <2>1. air = <<>>
    BY <1>5 DEF Subscribe, IInv, AirInv
  <2> QED BY <1>5, <2>1, LinkStep DEF Subscribe
<1>6. CASE Disconnect
  BY <1>6, LinkStep DEF Disconnect
<1>7. CASE Deliver
  BY <1>7, DeliverStep
<1>8. CASE Poll
  BY <1>8, PollStep
<1>9. ASSUME NEW i \in DOMAIN tasks, Persist(i) \/ Refuse(i) PROVE IInv'
  BY <1>9, PersistStep, RefuseStep
<1>10. CASE StopConnection
  BY <1>10, StopStep
<1>11. CASE Restart
  BY <1>11, RestartStep
<1>12. CASE UNCHANGED vars
  <2>1. UNCHANGED <<node, attr, air, gateway, sent>> /\ link' = link
    BY <1>12 DEF vars
  <2> QED BY <2>1, LinkStep DEF IInv, TypeOK, AirInv
<1> QED BY <1>1, <1>2, <1>3, <1>4, <1>5, <1>6, <1>7, <1>8, <1>9, <1>10, <1>11, <1>12 DEF Next

\* The invariant holds in every reachable state.
LEMMA Invariance == Spec => []IInv
BY InitInv, NextInv, PTL DEF Spec

-----------------------------------------------------------------------------
(* The theorems.                                                           *)

\* Every variable keeps its type, the offline buffer its capacity and the
\* duplicate cache its bound.
THEOREM TypeCorrect == Spec => []TypeOK
<1>1. IInv => TypeOK
  BY DEF IInv
<1> QED BY Invariance, <1>1, PTL

\* Every sequence number of a boot was published once, waits in the offline
\* buffer in its order, or is counted in dropped_count.
THEOREM RecordsAccountedFor == Spec => []EachRecordOnce
<1>1. IInv => EachRecordOnce
  BY DEF IInv, NodeInv
<1> QED BY Invariance, <1>1, PTL

\* ingest remembers no packet whose rows were not committed.
THEOREM CacheIsStored == Spec => []CacheOnlyStored
<1>1. IInv => CacheOnlyStored
  BY DEF IInv
<1> QED BY Invariance, <1>1, PTL

\* Inside a session the readings a boot made between two rollovers of millis()
\* have their uptimes in the order of their sequence numbers: _session_for
\* opens a session for every record that would break it, the heartbeat of the
\* same iteration and the delayed records of the offline buffer included, and
\* no rollover or reboot before them changes that.
THEOREM SessionsInOrder == Spec => []SessionOrder
<1>1. IInv => SessionOrder
  <2> SUFFICES ASSUME IInv, NEW x \in readings, NEW y \in readings,
                      x.session = y.session, x.rec.boot = y.rec.boot,
                      Era(x.rec) = Era(y.rec), x.rec.seq < y.rec.seq
               PROVE  Uptime(x.rec) <= Uptime(y.rec)
    BY DEF SessionOrder
  <2>1. x \in Accepted /\ y \in Accepted
    BY DEF Accepted
  <2>2. ~Inverted(x.rec, y.rec)
    BY <2>1 DEF IInv, SessionInv
  <2>3. x.rec \in Records /\ y.rec \in Records
    BY <2>1, AcceptedTyped DEF IInv
  <2>4. x.rec.at \in Nat /\ y.rec.at \in Nat
    BY <2>3, RecordFact
  <2>5. x.rec.at <= y.rec.at
    BY <2>2, <2>4 DEF Inverted
  <2> QED BY <2>3, <2>5, EraOrder
<1> QED BY Invariance, <1>1, PTL
=============================================================================
