---------------------------- MODULE VibrationNode ----------------------------
(* ProductionVibrationService of the firmware: the IMU's FIFO, the bounded    *)
(* drain of service(), the two window buffers of VibrationDoubleBuffer, the   *)
(* faults that degrade or latch the subsystem, and ble_publish_vibration.     *)
(*                                                                            *)
(* The FIFO is counted in batches of 16 frames, a window in batches.  The     *)
(* IMU fills the FIFO at any time, also inside service(); everything else is  *)
(* one thread, loop().  What the DSP computes is left out.                    *)
(*                                                                            *)
(* The code has no say in the OVER_RUN bit: it is up once frames were         *)
(* overwritten, may be up as soon as the FIFO is full, and may go down with   *)
(* any word that is read.  fifoGetStatus() returns no error, so that the      *)
(* status word of a failed transfer is any word.                              *)
EXTENDS Naturals, FiniteSets

CONSTANTS
  FifoBatches,     \* batches the IMU's FIFO holds
  WindowBatches,   \* batches of one window (16)
  MaxBatches,      \* kMaximumBatchesPerService (16)
  PriorityBatches, \* kPriorityOccupancyWords in batches (4)
  SeqModulus,      \* window_sequence is counted modulo 2^32
  None

ASSUME NodeAssumption ==
  /\ {FifoBatches, WindowBatches, MaxBatches, PriorityBatches} \subseteq Nat \ {0}
  /\ SeqModulus \in Nat /\ SeqModulus > 1
  /\ None \notin {0, 1}

VARIABLES
  stage,     \* where loop() is: "begin", "idle", "drain", "read", "process", "publish"
  batches,   \* batches drained by this call of service()
  fifo,      \* occupancy, in batches
  overrun,   \* FIFO status: the OVER_RUN bit
  skewed,    \* FIFO pattern: the next word is not the first of a frame
  gap,       \* history: frames are missing before the next word, and whether
             \* the next status word tells ("none", "hidden", "visible")
  buf,       \* the two buffers: state, and the gap inside
  filling,   \* filling_index_
  fill,      \* batches in the filling buffer
  life,      \* lifecycle_
  latest,    \* latest_: sequence, validity, and the gap inside
  shown      \* last_vibration_summary_sequence

ring == <<fifo, overrun, skewed, gap>>
buffers == <<buf, filling, fill>>
vars == <<stage, batches, ring, buffers, life, latest, shown>>

Halves == {0, 1}
Free == [st |-> "FREE", gap |-> "none"]
Filling == [st |-> "FILLING", gap |-> "none"]

Init ==
  /\ stage = "begin" /\ batches = 0
  /\ fifo = 0 /\ overrun = FALSE /\ skewed = FALSE /\ gap = "none"
  /\ buf = [h \in Halves |-> IF h = 0 THEN Filling ELSE Free]
  /\ filling = 0 /\ fill = 0
  /\ life = "uninitialized"
  /\ latest = [seq |-> 0, validity |-> "INITIALIZING", gap |-> "none"]
  /\ shown = 0

-----------------------------------------------------------------------------
\* available()
Available == life \notin {"uninitialized", "failed"}

\* markFault.
Fault(validity, fatal) ==
  /\ latest' = [latest EXCEPT !.validity = validity]
  /\ life' = IF fatal THEN "failed" ELSE "degraded"

\* begin(), once the BLE database is built; a FIFO that cannot be configured
\* leaves the subsystem failed for this boot.
Begin(ok) ==
  /\ stage = "begin"
  /\ IF ok THEN life' = "acquiring" /\ UNCHANGED latest
           ELSE Fault("UNAVAILABLE", TRUE)
  /\ stage' = "idle"
  /\ UNCHANGED <<batches, ring, buffers, shown>>

\* The worse of two gaps.
Worse(g, h) == IF "visible" \in {g, h} THEN "visible" ELSE IF g = "none" THEN h ELSE g

\* The IMU adds a batch, or overwrites the oldest frames of a full FIFO.  The
\* next status shows that, unless a batch is being read: its words may take
\* the OVER_RUN bit down again.
Sample ==
  /\ stage # "begin"
  /\ IF fifo < FifoBatches
       THEN /\ fifo' = fifo + 1
            /\ overrun' \in {overrun, overrun \/ fifo' = FifoBatches}
            /\ UNCHANGED gap
       ELSE /\ overrun' = TRUE
            /\ gap' = Worse(gap, IF stage = "read" THEN "hidden" ELSE "visible")
            /\ UNCHANGED fifo
  /\ UNCHANGED <<stage, batches, skewed, buffers, life, latest, shown>>

\* loop() calls service(), except while a factory reset is under way.
Service ==
  /\ stage = "idle"
  /\ stage' \in IF Available THEN {"drain", "publish"} ELSE {"publish"}
  /\ batches' = 0
  /\ UNCHANGED <<ring, buffers, life, latest, shown>>

\* Mutant: the drain has no bound of its own.
InLoopUnbounded == stage = "drain"

InLoop == stage = "drain" /\ batches < MaxBatches

\* Mutant: the status is masked with the wrong bit.
StatusOverrunMasked == FALSE

\* The overrun bit of readFifoStatus.
StatusOverrun == overrun

\* What fifoGetStatus() returns: the FIFO's status, or after a failed transfer
\* any word.
StatusWords == [over : BOOLEAN, words : 0..FifoBatches]

\* A register of the pattern cannot be read: readFifoStatus fails, inside the loop or after its last pass.
StatusFails ==
  /\ stage = "drain"
  /\ Fault("READ_ERROR", FALSE)
  /\ stage' = "publish"
  /\ UNCHANGED <<batches, ring, buffers, shown>>

\* An overrun, or words that are not whole frames, latch the subsystem failed.
StatusLatches(s) ==
  /\ stage = "drain" /\ (s.over \/ skewed)
  /\ Fault(IF s.over THEN "FIFO_OVERRUN" ELSE "ALIGNMENT_ERROR", TRUE)
  /\ stage' = "publish"
  /\ UNCHANGED <<batches, ring, buffers, shown>>

\* The FIFO is drained, or this call has drained enough.  A backlog seen now
\* goes before a ready window.
DrainEnds(s) ==
  /\ stage = "drain" /\ ~s.over /\ ~skewed
  /\ s.words = 0 \/ ~InLoop
  /\ stage' = IF s.words < PriorityBatches THEN "process" ELSE "publish"
  /\ UNCHANGED <<batches, ring, buffers, life, latest, shown>>

\* A good status promises a batch; the words are read one by one after it.
DrainStarts(s) ==
  /\ InLoop /\ ~s.over /\ ~skewed /\ s.words > 0
  /\ gap' = IF gap = "visible" /\ s.over # StatusOverrun THEN "hidden" ELSE gap
  /\ stage' = "read"
  /\ UNCHANGED <<batches, fifo, overrun, skewed, buffers, life, latest, shown>>

\* Words are read: the batch and what was missing before it leave the FIFO,
\* and OVER_RUN may go down.  An empty FIFO has no batch to give.
TakeBatch(after) ==
  /\ fifo' = IF fifo = 0 THEN 0 ELSE fifo - 1
  /\ overrun' \in {overrun, FALSE}
  /\ gap' = after

\* readWords fails: after no word, after whole frames, or inside a frame. The
\* words that were read are lost, and no status tells.
ReadFails ==
  /\ stage = "read"
  /\ \/ UNCHANGED ring
     \/ TakeBatch("hidden") /\ skewed' \in BOOLEAN
  /\ Fault("READ_ERROR", FALSE)
  /\ stage' = "publish"
  /\ UNCHANGED <<batches, buffers, shown>>

\* Mutant: what drainBatch returns is not looked at.
ReadDroppedIgnored ==
  /\ stage = "read" /\ filling = None
  /\ TakeBatch("none") /\ UNCHANGED skewed
  /\ Fault("BUFFER_OVERRUN", FALSE)
  /\ stage' = "drain"
  /\ UNCHANGED <<batches, buffers, shown>>

\* No buffer takes the batch: samples_dropped, BUFFER_OVERRUN.
ReadDropped ==
  /\ stage = "read" /\ filling = None
  /\ TakeBatch("none") /\ UNCHANGED skewed
  /\ Fault("BUFFER_OVERRUN", FALSE)
  /\ stage' = "publish"
  /\ UNCHANGED <<batches, buffers, shown>>

\* The other of the two buffers.
Other(h) == 1 - h

\* append() of the last batch of a window: the buffer is ready, and the other
\* one is filled next if it is free.
Complete(marked) ==
  /\ buf' = [h \in Halves |->
               CASE h = filling -> [marked EXCEPT !.st = "READY"]
                 [] h # filling /\ buf[h].st = "FREE" -> Filling
                 [] OTHER -> buf[h]]
  /\ filling' = IF buf[Other(filling)].st = "FREE" THEN Other(filling) ELSE None
  /\ fill' = 0

\* A batch is appended, with what is missing before it; from an empty FIFO it
\* is no samples at all.
ReadOk ==
  /\ stage = "read" /\ filling # None
  /\ TakeBatch("none") /\ UNCHANGED skewed
  /\ LET marked == [buf[filling] EXCEPT !.gap =
                      Worse(@, IF fifo = 0 THEN Worse(gap, "hidden") ELSE gap)]
     IN  IF fill + 1 = WindowBatches THEN Complete(marked)
         ELSE /\ buf' = [buf EXCEPT ![filling] = marked]
              /\ fill' = fill + 1
              /\ UNCHANGED filling
  /\ batches' = batches + 1
  /\ stage' = "drain"
  /\ UNCHANGED <<life, latest, shown>>

\* acquireReady takes the lower index first.
ReadyHalf == CHOOSE h \in Halves :
  buf[h].st = "READY" /\ \A k \in Halves : buf[k].st = "READY" => h <= k

NextSequence == (latest.seq + 1) % SeqModulus

\* Mutant: acquisition is not resumed with the buffer that becomes free.
ReleaseOnly(h) == buf' = [buf EXCEPT ![h] = Free] /\ UNCHANGED filling

\* release(): the buffer is free again, and filled next if none is.
Release(h) ==
  /\ buf' = [buf EXCEPT ![h] = IF filling = None THEN Filling ELSE Free]
  /\ filling' = IF filling = None THEN h ELSE filling

\* processReadyWindow.  A full window never fails processor_.process().
Process ==
  /\ stage = "process"
  /\ IF \E h \in Halves : buf[h].st = "READY"
     THEN /\ latest' = [seq |-> NextSequence, validity |-> "VALID",
                        gap |-> buf[ReadyHalf].gap]
          /\ Release(ReadyHalf)
          /\ life' = IF life = "failed" THEN life ELSE "acquiring"
     ELSE UNCHANGED <<latest, buf, filling, life>>
  /\ stage' = "publish"
  /\ UNCHANGED <<batches, ring, fill, shown>>

\* ble_publish_vibration: a new valid window is written and notified.
Publish ==
  /\ stage = "publish"
  /\ shown' \in IF latest.validity = "VALID" /\ latest.seq \notin {0, shown}
                THEN {shown, latest.seq} ELSE {shown}
  /\ stage' = "idle"
  /\ UNCHANGED <<batches, ring, buffers, life, latest>>

Reboot ==
  /\ stage # "begin"
  /\ stage' = "begin" /\ batches' = 0
  /\ fifo' = 0 /\ overrun' = FALSE /\ skewed' = FALSE /\ gap' = "none"
  /\ buf' = [h \in Halves |-> IF h = 0 THEN Filling ELSE Free]
  /\ filling' = 0 /\ fill' = 0
  /\ life' = "uninitialized"
  /\ latest' = [seq |-> 0, validity |-> "INITIALIZING", gap |-> "none"]
  /\ shown' = 0

Loop ==
  \/ \E ok \in BOOLEAN : Begin(ok)
  \/ Service \/ StatusFails
  \/ \E s \in StatusWords : StatusLatches(s) \/ DrainStarts(s) \/ DrainEnds(s)
  \/ ReadFails \/ ReadDropped \/ ReadOk \/ Process \/ Publish

Next == Loop \/ Sample \/ Reboot

Spec == Init /\ [][Next]_vars

\* loop() is called again and again; the IMU owes nothing.
FairSpec == Spec /\ WF_vars(Loop)

-----------------------------------------------------------------------------
(* Correctness.                                                            *)

Gaps == {"none", "hidden", "visible"}
Validities == {"INITIALIZING", "VALID", "FIFO_OVERRUN", "BUFFER_OVERRUN",
               "READ_ERROR", "ALIGNMENT_ERROR", "UNAVAILABLE"}

\* Types; among them that service() drains at most kMaximumBatchesPerService
\* batches and that no window holds more batches than it has room for.
TypeOK ==
  /\ stage \in {"begin", "idle", "drain", "read", "process", "publish"}
  /\ batches \in 0..MaxBatches
  /\ fifo \in 0..FifoBatches /\ overrun \in BOOLEAN /\ skewed \in BOOLEAN /\ gap \in Gaps
  /\ buf \in [Halves -> [st : {"FREE", "FILLING", "READY"}, gap : Gaps]]
  /\ filling \in Halves \cup {None} /\ fill \in 0..(WindowBatches - 1)
  /\ life \in {"uninitialized", "acquiring", "degraded", "failed"}
  /\ latest \in [seq : 0..(SeqModulus - 1), validity : Validities, gap : Gaps]
  /\ shown \in 0..(SeqModulus - 1)

\* The double buffer: one buffer is being filled, and it is the one
\* filling_index_ names; only when both hold unprocessed windows there is none.
OneBufferFills ==
  /\ \A h \in Halves : buf[h].st = "FILLING" <=> filling = h
  /\ filling = None <=> \A h \in Halves : buf[h].st = "READY"

\* "rather than ... fabricating a valid window", as far as the status tells: no
\* valid window spans frames that were overwritten while the next status word
\* could still show it, however batches, faults and buffers follow.  A gap stays
\* hidden only if the overrun fell between a status and the batch it promised,
\* if that status word was wrong, or if a failed read lost the words.
VisibleOverrunNeverValid == latest.validity = "VALID" => latest.gap # "visible"

\* service() is bounded: it returns however fast the IMU fills the FIFO, so
\* that BLE and commands get their turn.
ServiceReturns == stage = "drain" ~> stage \in {"publish", "begin"}
=============================================================================
