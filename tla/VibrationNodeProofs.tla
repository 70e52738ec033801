------------------------- MODULE VibrationNodeProofs -------------------------
(* Proofs about VibrationNode, for FIFOs, windows, bounds and sequence       *)
(* numbers of any size.                                                      *)
EXTENDS VibrationNode, TLAPS

\* While frames are missing that the next status word can show, OVER_RUN is up;
\* a batch is read only after a status without it, or a wrong one, so that no
\* such gap gets into a buffer or a window.
GapTraced ==
  /\ gap = "visible" => overrun /\ stage # "read"
  /\ \A h \in Halves : buf[h].gap # "visible"
  /\ latest.gap # "visible"

\* A batch is read only where the loop had room for one.
ReadHasRoom == stage = "read" => batches < MaxBatches

\* The inductive invariant.
IInv == TypeOK /\ OneBufferFills /\ ReadHasRoom /\ GapTraced

\* The worse of two gaps is one of them, and visible only where one of them is.
LEMMA WorseOfTwo ==
  ASSUME NEW g \in Gaps, NEW h \in Gaps
  PROVE  /\ Worse(g, h) \in Gaps
         /\ g # "visible" /\ h # "visible" => Worse(g, h) # "visible"
BY DEF Worse, Gaps

\* What the arithmetic of window_sequence needs of its modulus.
LEMMA NextSequenceType ==
  ASSUME latest.seq \in Nat
  PROVE  NextSequence \in 0..(SeqModulus - 1)
BY NodeAssumption DEF NextSequence

\* Where a buffer is ready, acquireReady finds one of them.
LEMMA ReadyHalfReady ==
  ASSUME \E h \in Halves : buf[h].st = "READY"
  PROVE  ReadyHalf \in Halves /\ buf[ReadyHalf].st = "READY"
<1>1. \E h \in Halves : buf[h].st = "READY" /\ \A k \in Halves : buf[k].st = "READY" => h <= k
  <2>1. CASE buf[0].st = "READY"
    BY <2>1 DEF Halves
  <2>2. CASE buf[0].st # "READY"
    BY <2>2 DEF Halves
  <2> QED BY <2>1, <2>2
<1> QED BY <1>1 DEF ReadyHalf

\* Init has the invariant: both buffers are empty, nothing is latched.
LEMMA InitInv == Init => IInv
<1> SUFFICES ASSUME Init PROVE IInv
  OBVIOUS
<1>1. TypeOK
  <2>1. buf \in [Halves -> [st : {"FREE", "FILLING", "READY"}, gap : Gaps]]
    BY DEF Init, Halves, Free, Filling, Gaps
  <2>2. latest \in [seq : 0..(SeqModulus - 1), validity : Validities, gap : Gaps]
    BY NodeAssumption DEF Init, Validities, Gaps
  <2>3. /\ 0 \in 0..MaxBatches /\ 0 \in 0..FifoBatches
        /\ 0 \in 0..(WindowBatches - 1) /\ 0 \in 0..(SeqModulus - 1)
    BY NodeAssumption
  <2> QED BY <2>1, <2>2, <2>3 DEF Init, TypeOK, Halves, Gaps
<1>2. OneBufferFills
  BY NodeAssumption DEF Init, OneBufferFills, Halves, Free, Filling
<1>3. ReadHasRoom /\ GapTraced
  BY DEF Init, ReadHasRoom, GapTraced, Halves, Free, Filling
<1> QED BY <1>1, <1>2, <1>3 DEF IInv

\* append() of a window's last batch keeps the two buffers' discipline, and the
\* marks on them.
LEMMA CompleteBuffers ==
  ASSUME TypeOK, OneBufferFills, filling # None,
         NEW m \in Gaps \ {"visible"},
         Complete([buf[filling] EXCEPT !.gap = m])
  PROVE  /\ buf' \in [Halves -> [st : {"FREE", "FILLING", "READY"}, gap : Gaps]]
         /\ filling' \in Halves \cup {None} /\ fill' = 0
         /\ OneBufferFills'
         /\ \A h \in Halves : buf'[h].gap \in {buf[h].gap, m, "none"}
<1> DEFINE f == filling
           o == Other(f)
<1>1. f \in Halves /\ o \in Halves /\ o # f /\ Halves = {f, o}
  BY DEF TypeOK, Halves, Other
<1>2. buf[f].st = "FILLING" /\ buf[o].st # "FILLING" /\ None \notin Halves
  BY <1>1, NodeAssumption DEF OneBufferFills, Halves
<1>3. /\ buf[o].st \in {"FREE", "READY"}
      /\ \A h \in Halves : buf[h] \in [st : {"FREE", "FILLING", "READY"}, gap : Gaps]
  BY <1>1, <1>2 DEF TypeOK
<1>4. /\ buf'[f] = [buf[f] EXCEPT !.gap = m, !.st = "READY"]
      /\ buf'[o] = (IF buf[o].st = "FREE" THEN Filling ELSE buf[o])
      /\ filling' = (IF buf[o].st = "FREE" THEN o ELSE None)
      /\ fill' = 0 /\ buf' = [h \in Halves |-> buf'[h]]
  BY <1>1 DEF Complete
<1>5. /\ buf'[f].st = "READY" /\ buf'[f].gap = m
      /\ buf'[f] \in [st : {"FREE", "FILLING", "READY"}, gap : Gaps]
  BY <1>1, <1>3, <1>4
<1>6. /\ buf'[o] \in [st : {"FREE", "FILLING", "READY"}, gap : Gaps]
      /\ buf'[o].gap \in {buf[o].gap, "none"}
      /\ buf[o].st = "FREE" => buf'[o].st = "FILLING"
      /\ buf[o].st # "FREE" => buf'[o].st = "READY"
  BY <1>1, <1>3, <1>4 DEF Filling, Gaps
<1>7. buf' \in [Halves -> [st : {"FREE", "FILLING", "READY"}, gap : Gaps]]
  BY <1>1, <1>4, <1>5, <1>6
<1>8. OneBufferFills'
  BY <1>1, <1>2, <1>4, <1>5, <1>6 DEF OneBufferFills
<1>9. \A h \in Halves : buf'[h].gap \in {buf[h].gap, m, "none"}
  BY <1>1, <1>5, <1>6
<1> QED BY <1>1, <1>4, <1>7, <1>8, <1>9

\* release() keeps the discipline of the two buffers and marks none.
LEMMA ReleaseBuffers ==
  ASSUME TypeOK, OneBufferFills,
         NEW r \in Halves, buf[r].st = "READY", Release(r)
  PROVE  /\ buf' \in [Halves -> [st : {"FREE", "FILLING", "READY"}, gap : Gaps]]
         /\ filling' \in Halves \cup {None}
         /\ OneBufferFills'
         /\ \A h \in Halves : buf'[h].gap \in {buf[h].gap, "none"}
<1>1. /\ None \notin Halves /\ filling # r
      /\ buf \in [Halves -> [st : {"FREE", "FILLING", "READY"}, gap : Gaps]]
      /\ filling \in Halves \cup {None}
  BY NodeAssumption DEF TypeOK, OneBufferFills, Halves
<1>2. CASE filling = None
  <2>1. buf' = [buf EXCEPT ![r] = Filling] /\ filling' = r
    BY <1>2 DEF Release
  <2> QED BY <1>1, <1>2, <2>1 DEF OneBufferFills, Filling, Gaps
<1>3. CASE filling # None
  <2>1. buf' = [buf EXCEPT ![r] = Free] /\ filling' = filling
    BY <1>3 DEF Release
  <2> QED BY <1>1, <1>3, <2>1 DEF OneBufferFills, Free, Gaps
<1> QED BY <1>2, <1>3

\* markFault keeps the window it shows.
LEMMA FaultType ==
  ASSUME TypeOK, NEW v \in Validities \ {"VALID"}, NEW fatal \in BOOLEAN, Fault(v, fatal)
  PROVE  /\ latest' \in [seq : 0..(SeqModulus - 1), validity : Validities, gap : Gaps]
         /\ latest'.gap = latest.gap
         /\ life' \in {"degraded", "failed"}
BY DEF TypeOK, Fault

\* Steps that leave the buffers alone, and whose gap is traced, keep the
\* invariant.
LEMMA BuffersKept ==
  ASSUME IInv, TypeOK', UNCHANGED buffers, ReadHasRoom', latest'.gap = latest.gap,
         gap' = "visible" => overrun' /\ stage' # "read"
  PROVE  IInv'
<1>1. OneBufferFills'
  BY DEF IInv, OneBufferFills, buffers
<1>2. GapTraced'
  BY DEF IInv, GapTraced, buffers
<1> QED BY <1>1, <1>2 DEF IInv

\* Reading a batch takes what is missing before it out of the FIFO.
LEMMA TakeBatchRing ==
  ASSUME TypeOK, NEW g \in Gaps \ {"visible"}, TakeBatch(g)
  PROVE  fifo' \in 0..FifoBatches /\ overrun' \in BOOLEAN /\ gap' \in Gaps \ {"visible"}
<1>1. fifo' \in 0..FifoBatches
  BY NodeAssumption DEF TypeOK, TakeBatch
<1>2. overrun' \in BOOLEAN /\ gap' = g
  BY DEF TypeOK, TakeBatch
<1> QED BY <1>1, <1>2

\* Every step of the node keeps the invariant.
LEMMA NextInv == IInv /\ [Next]_vars => IInv'
<1> SUFFICES ASSUME IInv, [Next]_vars PROVE IInv'
  OBVIOUS
<1> USE NodeAssumption
<1>t. TypeOK
  BY DEF IInv
<1>v. {"UNAVAILABLE", "READ_ERROR", "BUFFER_OVERRUN", "FIFO_OVERRUN", "ALIGNMENT_ERROR"}
        \subseteq Validities \ {"VALID"}
  BY DEF Validities
<1>1. ASSUME NEW ok \in BOOLEAN, Begin(ok) PROVE IInv'
  <2>1. /\ latest' \in [seq : 0..(SeqModulus - 1), validity : Validities, gap : Gaps]
        /\ latest'.gap = latest.gap
        /\ life' \in {"acquiring", "degraded", "failed"}
    BY <1>1, <1>t, <1>v, FaultType DEF Begin, TypeOK
  <2>2. TypeOK'
    BY <1>1, <1>t, <2>1 DEF Begin, TypeOK, ring, buffers
  <2>3. ReadHasRoom'
    BY <1>1, <2>1 DEF Begin, IInv, ReadHasRoom
  <2> QED BY <1>1, <2>1, <2>2, <2>3, BuffersKept DEF Begin, ring, IInv, GapTraced
<1>2. CASE Sample
  <2>1. /\ fifo' \in 0..FifoBatches /\ overrun' \in BOOLEAN /\ gap' \in Gaps
        /\ gap' = "visible" => overrun' /\ stage # "read"
    <3>1. CASE fifo < FifoBatches
      <4>1. /\ fifo' = fifo + 1 /\ gap' = gap
            /\ overrun' = overrun \/ overrun' = (overrun \/ fifo' = FifoBatches)
        BY <1>2, <3>1 DEF Sample
      <4>2. fifo' \in 0..FifoBatches
        BY <1>t, <3>1, <4>1 DEF TypeOK
      <4>3. overrun' \in BOOLEAN /\ (overrun => overrun')
        BY <1>t, <4>1 DEF TypeOK
      <4> QED BY <1>t, <4>1, <4>2, <4>3 DEF TypeOK, IInv, GapTraced
    <3>2. CASE ~ fifo < FifoBatches
      <4>1. /\ fifo' = fifo /\ overrun' = TRUE
            /\ gap' = Worse(gap, IF stage = "read" THEN "hidden" ELSE "visible")
        BY <1>2, <3>2 DEF Sample
      <4>2. gap \in Gaps /\ {"hidden", "visible"} \subseteq Gaps
        BY <1>t DEF TypeOK, Gaps
      <4>3. CASE stage = "read"
        BY <1>t, <4>1, <4>2, <4>3, WorseOfTwo DEF TypeOK, IInv, GapTraced
      <4>4. CASE stage # "read"
        BY <1>t, <4>1, <4>2, <4>4, WorseOfTwo DEF TypeOK
      <4> QED BY <4>3, <4>4
    <3> QED BY <3>1, <3>2
  <2>2. TypeOK'
    BY <1>2, <1>t, <2>1 DEF Sample, TypeOK, buffers
  <2>3. ReadHasRoom'
    BY <1>2, <1>t, <2>1 DEF Sample, IInv, ReadHasRoom, TypeOK
  <2> QED BY <1>2, <2>1, <2>2, <2>3, BuffersKept DEF Sample
<1>3. CASE Service
  <2>1. TypeOK'
    BY <1>3, <1>t DEF Service, TypeOK, ring, buffers
  <2>2. ReadHasRoom'
    BY <1>3 DEF Service, IInv, ReadHasRoom
  <2> QED BY <1>3, <2>1, <2>2, BuffersKept DEF Service, ring, IInv, GapTraced
<1>4. CASE StatusFails
  <2>1. /\ latest' \in [seq : 0..(SeqModulus - 1), validity : Validities, gap : Gaps]
        /\ latest'.gap = latest.gap /\ life' \in {"degraded", "failed"}
    BY <1>4, <1>t, <1>v, FaultType DEF StatusFails
  <2>2. TypeOK'
    BY <1>4, <1>t, <2>1 DEF StatusFails, TypeOK, ring, buffers
  <2>3. ReadHasRoom'
    BY <1>4, <2>1 DEF StatusFails, ReadHasRoom
  <2> QED BY <1>4, <2>1, <2>2, <2>3, BuffersKept DEF StatusFails, ring, IInv, GapTraced
<1>5. ASSUME NEW s \in StatusWords, StatusLatches(s) PROVE IInv'
  <2>1. /\ latest' \in [seq : 0..(SeqModulus - 1), validity : Validities, gap : Gaps]
        /\ latest'.gap = latest.gap /\ life' \in {"degraded", "failed"}
    <3>1. (IF s.over THEN "FIFO_OVERRUN" ELSE "ALIGNMENT_ERROR") \in Validities \ {"VALID"}
      BY <1>v
    <3> QED BY <1>5, <1>t, <3>1, FaultType DEF StatusLatches
  <2>2. TypeOK'
    BY <1>5, <1>t, <2>1 DEF StatusLatches, TypeOK, ring, buffers
  <2>3. ReadHasRoom'
    BY <1>5, <2>1 DEF StatusLatches, ReadHasRoom
  <2> QED BY <1>5, <2>1, <2>2, <2>3, BuffersKept DEF StatusLatches, ring, IInv, GapTraced
<1>6. ASSUME NEW s \in StatusWords, DrainStarts(s) PROVE IInv'
  <2>0. gap' \in Gaps \ {"visible"}
    <3>1. overrun \in BOOLEAN /\ gap \in Gaps /\ "hidden" \in Gaps
      BY <1>t DEF TypeOK, Gaps
    <3>2. gap = "visible" => s.over # StatusOverrun
      BY <1>6, <3>1 DEF DrainStarts, StatusOverrun, IInv, GapTraced
    <3> QED BY <1>6, <3>1, <3>2 DEF DrainStarts
  <2>1. TypeOK'
    BY <1>6, <1>t, <2>0 DEF DrainStarts, TypeOK, buffers
  <2>2. ReadHasRoom'
    BY <1>6 DEF DrainStarts, InLoop, ReadHasRoom
  <2> QED BY <1>6, <2>0, <2>1, <2>2, BuffersKept DEF DrainStarts
<1>7. ASSUME NEW s \in StatusWords, DrainEnds(s) PROVE IInv'
  <2>1. TypeOK'
    BY <1>7, <1>t DEF DrainEnds, TypeOK, ring, buffers
  <2>2. ReadHasRoom'
    BY <1>7 DEF DrainEnds, IInv, ReadHasRoom
  <2> QED BY <1>7, <2>1, <2>2, BuffersKept DEF DrainEnds, ring, IInv, GapTraced
<1>8. CASE ReadFails
  <2>1. /\ latest' \in [seq : 0..(SeqModulus - 1), validity : Validities, gap : Gaps]
        /\ latest'.gap = latest.gap /\ life' \in {"degraded", "failed"}
    BY <1>8, <1>t, <1>v, FaultType DEF ReadFails
  <2>2. /\ fifo' \in 0..FifoBatches /\ overrun' \in BOOLEAN /\ skewed' \in BOOLEAN
        /\ gap' \in Gaps \ {"visible"}
    <3>1. CASE UNCHANGED ring
      BY <1>8, <1>t, <3>1 DEF ReadFails, IInv, GapTraced, TypeOK, ring
    <3>2. CASE TakeBatch("hidden") /\ skewed' \in BOOLEAN
      <4>1. "hidden" \in Gaps \ {"visible"}
        BY DEF Gaps
      <4> QED BY <1>t, <3>2, <4>1, TakeBatchRing
    <3> QED BY <1>8, <3>1, <3>2 DEF ReadFails
  <2>3. TypeOK'
    BY <1>8, <1>t, <2>1, <2>2 DEF ReadFails, TypeOK, buffers
  <2>4. ReadHasRoom'
    BY <1>8, <2>1 DEF ReadFails, ReadHasRoom
  <2> QED BY <1>8, <2>1, <2>2, <2>3, <2>4, BuffersKept DEF ReadFails
<1>9. CASE ReadDropped
  <2>1. /\ latest' \in [seq : 0..(SeqModulus - 1), validity : Validities, gap : Gaps]
        /\ latest'.gap = latest.gap /\ life' \in {"degraded", "failed"}
    BY <1>9, <1>t, <1>v, FaultType DEF ReadDropped
  <2>2. fifo' \in 0..FifoBatches /\ overrun' \in BOOLEAN /\ gap' \in Gaps \ {"visible"}
    <3>1. "none" \in Gaps \ {"visible"}
      BY DEF Gaps
    <3> QED BY <1>9, <1>t, <3>1, TakeBatchRing DEF ReadDropped
  <2>3. TypeOK'
    BY <1>9, <1>t, <2>1, <2>2 DEF ReadDropped, TypeOK, buffers
  <2>4. ReadHasRoom'
    BY <1>9, <2>1 DEF ReadDropped, ReadHasRoom
  <2> QED BY <1>9, <2>1, <2>2, <2>3, <2>4, BuffersKept DEF ReadDropped
<1>10. CASE ReadOk
  <2> DEFINE here == IF fifo = 0 THEN Worse(gap, "hidden") ELSE gap
             m == Worse(buf[filling].gap, here)
             marked == [buf[filling] EXCEPT !.gap = m]
  <2>1. /\ filling \in Halves /\ fill \in 0..(WindowBatches - 1)
        /\ buf \in [Halves -> [st : {"FREE", "FILLING", "READY"}, gap : Gaps]]
        /\ gap \in Gaps \ {"visible"} /\ OneBufferFills /\ GapTraced
    BY <1>10, <1>t DEF ReadOk, TypeOK, IInv, GapTraced
  <2>2. m \in Gaps \ {"visible"}
    <3>1. "hidden" \in Gaps \ {"visible"}
      BY DEF Gaps
    <3>2. here \in Gaps \ {"visible"}
      BY <2>1, <3>1, WorseOfTwo
    <3>3. buf[filling].gap \in Gaps \ {"visible"}
      BY <2>1 DEF GapTraced
    <3> HIDE DEF here
    <3> QED BY <3>2, <3>3, WorseOfTwo
  <2>3. /\ buf' \in [Halves -> [st : {"FREE", "FILLING", "READY"}, gap : Gaps]]
        /\ filling' \in Halves \cup {None} /\ fill' \in 0..(WindowBatches - 1)
        /\ OneBufferFills'
        /\ \A h \in Halves : buf'[h].gap # "visible"
    <3>1. CASE fill + 1 = WindowBatches
      <4>1. Complete(marked)
        BY <1>10, <3>1 DEF ReadOk
      <4>2. 0 \in 0..(WindowBatches - 1)
        OBVIOUS
      <4> HIDE DEF m
      <4> QED BY <1>10, <1>t, <2>1, <2>2, <4>1, <4>2, CompleteBuffers DEF ReadOk, GapTraced
    <3>2. CASE fill + 1 # WindowBatches
      <4>1. buf' = [buf EXCEPT ![filling] = marked] /\ fill' = fill + 1 /\ filling' = filling
        BY <1>10, <3>2 DEF ReadOk
      <4> HIDE DEF m
      <4>2. fill' \in 0..(WindowBatches - 1)
        BY <2>1, <3>2, <4>1
      <4>3. /\ marked.gap = m /\ marked.st = buf[filling].st
            /\ marked \in [st : {"FREE", "FILLING", "READY"}, gap : Gaps]
        BY <2>1, <2>2
      <4>4. \A h \in Halves : buf'[h].st = buf[h].st
        BY <2>1, <4>1, <4>3
      <4>5. \A h \in Halves : buf'[h].gap # "visible"
        BY <2>1, <2>2, <4>1, <4>3 DEF GapTraced
      <4>6. OneBufferFills'
        BY <2>1, <4>1, <4>4 DEF OneBufferFills
      <4>7. buf' \in [Halves -> [st : {"FREE", "FILLING", "READY"}, gap : Gaps]]
        BY <2>1, <4>1, <4>3
      <4> QED BY <2>1, <4>1, <4>2, <4>5, <4>6, <4>7
    <3> QED BY <3>1, <3>2
  <2>4. /\ fifo' \in 0..FifoBatches /\ overrun' \in BOOLEAN /\ gap' \in Gaps \ {"visible"}
        /\ batches' \in 0..MaxBatches
    <3>1. "none" \in Gaps \ {"visible"}
      BY DEF Gaps
    <3>2. batches' \in 0..MaxBatches
      BY <1>10, <1>t DEF ReadOk, IInv, ReadHasRoom, TypeOK
    <3> QED BY <1>10, <1>t, <3>1, <3>2, TakeBatchRing DEF ReadOk
  <2>5. TypeOK'
    BY <1>10, <1>t, <2>3, <2>4 DEF ReadOk, TypeOK
  <2>6. ReadHasRoom' /\ GapTraced'
    BY <1>10, <2>1, <2>3, <2>4 DEF ReadOk, ReadHasRoom, GapTraced
  <2> QED BY <2>3, <2>5, <2>6 DEF IInv
<1>11. CASE Process
  <2>1. OneBufferFills /\ GapTraced /\ stage' = "publish" /\ UNCHANGED ring
    BY <1>11 DEF Process, IInv
  <2>2. CASE \E h \in Halves : buf[h].st = "READY"
    <3>1. ReadyHalf \in Halves /\ buf[ReadyHalf].st = "READY"
      BY <2>2, ReadyHalfReady
    <3>2. Release(ReadyHalf)
      BY <1>11, <2>2 DEF Process
    <3>3. /\ buf' \in [Halves -> [st : {"FREE", "FILLING", "READY"}, gap : Gaps]]
          /\ filling' \in Halves \cup {None} /\ OneBufferFills'
          /\ \A h \in Halves : buf'[h].gap \in {buf[h].gap, "none"}
      BY <1>t, <2>1, <3>1, <3>2, ReleaseBuffers
    <3>4. buf[ReadyHalf].gap \in Gaps \ {"visible"}
      BY <1>t, <2>1, <3>1 DEF GapTraced, TypeOK
    <3>5. /\ latest' = [seq |-> NextSequence, validity |-> "VALID",
                        gap |-> buf[ReadyHalf].gap]
          /\ life' \in {"acquiring", "failed"}
      BY <1>11, <2>2 DEF Process
    <3>6. latest' \in [seq : 0..(SeqModulus - 1), validity : Validities, gap : Gaps]
      BY <1>t, <3>4, <3>5, NextSequenceType DEF TypeOK, Validities
    <3>7. TypeOK'
      BY <1>11, <1>t, <3>3, <3>5, <3>6 DEF Process, TypeOK, ring
    <3>8. ReadHasRoom' /\ GapTraced'
      BY <2>1, <3>3, <3>4, <3>5 DEF ReadHasRoom, GapTraced, ring
    <3> QED BY <3>3, <3>7, <3>8 DEF IInv
  <2>3. CASE ~ \E h \in Halves : buf[h].st = "READY"
    <3>1. UNCHANGED <<batches, ring, buffers, life, latest, shown>>
      BY <1>11, <2>3 DEF Process, buffers
    <3>2. TypeOK'
      BY <1>t, <2>1, <3>1 DEF TypeOK, ring, buffers
    <3>3. ReadHasRoom'
      BY <2>1, <3>1 DEF IInv, ReadHasRoom
    <3> QED BY <2>1, <3>1, <3>2, <3>3, BuffersKept DEF GapTraced, ring
  <2> QED BY <2>2, <2>3
<1>12. CASE Publish
  <2>1. TypeOK'
    BY <1>12, <1>t DEF Publish, TypeOK, ring, buffers
  <2>2. ReadHasRoom'
    BY <1>12 DEF Publish, IInv, ReadHasRoom
  <2> QED BY <1>12, <2>1, <2>2, BuffersKept DEF Publish, ring, IInv, GapTraced
<1>13. CASE Reboot
  <2>1. TypeOK' /\ OneBufferFills'
    <3>1. buf' \in [Halves -> [st : {"FREE", "FILLING", "READY"}, gap : Gaps]]
      BY <1>13 DEF Reboot, Halves, Free, Filling, Gaps
    <3>2. latest' \in [seq : 0..(SeqModulus - 1), validity : Validities, gap : Gaps]
      BY <1>13 DEF Reboot, Validities, Gaps
    <3>3. /\ 0 \in 0..MaxBatches /\ 0 \in 0..FifoBatches
          /\ 0 \in 0..(WindowBatches - 1) /\ 0 \in 0..(SeqModulus - 1)
      OBVIOUS
    <3>4. TypeOK'
      BY <1>13, <3>1, <3>2, <3>3 DEF Reboot, TypeOK, Halves, Gaps
    <3>5. OneBufferFills'
      BY <1>13 DEF Reboot, OneBufferFills, Halves, Free, Filling
    <3> QED BY <3>4, <3>5
  <2>2. ReadHasRoom' /\ GapTraced'
    BY <1>13 DEF Reboot, ReadHasRoom, GapTraced, Halves, Free, Filling
  <2> QED BY <2>1, <2>2 DEF IInv
<1>14. CASE UNCHANGED vars
  BY <1>14 DEF vars, ring, buffers, IInv, TypeOK, OneBufferFills, ReadHasRoom, GapTraced
<1> QED
  BY <1>1, <1>2, <1>3, <1>4, <1>5, <1>6, <1>7, <1>8, <1>9, <1>10, <1>11, <1>12, <1>13, <1>14
     DEF Next, Loop

\* service() never drains more than kMaximumBatchesPerService batches in one
\* call and never writes past a window, for every size of either.
THEOREM TypeCorrect == Spec => []TypeOK
<1>1. IInv => TypeOK
  BY DEF IInv
<1> QED BY InitInv, NextInv, <1>1, PTL DEF Spec

\* The double buffer always has the buffer filling_index_ names in state
\* FILLING and no other, and none only when both wait to be processed.
THEOREM BufferDiscipline == Spec => []OneBufferFills
<1>1. IInv => OneBufferFills
  BY DEF IInv
<1> QED BY InitInv, NextInv, <1>1, PTL DEF Spec

\* No valid window spans frames that were overwritten while the next status
\* word could still show it, for every size of FIFO and window, every moment of
\* the overrun, and however OVER_RUN goes down with the words that are read.
THEOREM NoFabricatedWindow == Spec => []VisibleOverrunNeverValid
<1>1. IInv => VisibleOverrunNeverValid
  BY DEF IInv, GapTraced, VisibleOverrunNeverValid
<1> QED BY InitInv, NextInv, <1>1, PTL DEF Spec
=============================================================================
