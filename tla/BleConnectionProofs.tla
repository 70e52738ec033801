------------------------ MODULE BleConnectionProofs ------------------------
(***************************************************************************)
(* Proofs about BleConnection, for any finite set of requests, any sets of *)
(* worker threads and commands, any queue size, any largest exponent and   *)
(* any number of overwritten entries.                                      *)
(***************************************************************************)
EXTENDS BleConnection, FiniteSetTheorems, TLAPS

-----------------------------------------------------------------------------
(* The inductive invariant                                                 *)

\* Who can still reach a connection: it is that of the entry, or exactly one
\* request waits for the end of its task, unless connect_device overwrote it;
\* and a forgotten one has no commands.
ManagedInv ==
  /\ \A c \in Conns : conn[c].pc # "unused" => c = entry \/ Stopping(c) \/ c \in displaced
  /\ entry # None => conn[entry].pc # "unused"
  /\ \A r \in Requests : req[r].pc = "stopping" =>
       req[r].conn \in Conns /\ req[r].conn # entry /\ conn[req[r].conn].pc # "unused"
  /\ \A r, s \in Requests :
       req[r].pc = "stopping" /\ req[s].pc = "stopping" /\ req[r].conn = req[s].conn => r = s
  /\ \A c \in Conns : conn[c].pc = "unused" => conn[c].queue = <<>>
  /\ \A c \in Conns : conn[c].pc = "writing" => conn[c].queue # <<>>

Queued(m) == \E c \in Conns : \E i \in 1 .. Len(conn[c].queue) : conn[c].queue[i] = m

\* A command is in one place of one queue until it is written, and is not
\* written before it leaves it; a caller that waits has its command there.
CommandInv ==
  /\ \A c, d \in Conns : \A i \in 1 .. Len(conn[c].queue), j \in 1 .. Len(conn[d].queue) :
       conn[c].queue[i] = conn[d].queue[j] => c = d /\ i = j
  /\ \A m \in Commands : Queued(m) => written[m] = 0 /\ cmd[m] \in {"waiting", "failed"}
  /\ \A m \in Commands : cmd[m] = "waiting" => Queued(m)
  /\ \A m \in Commands : cmd[m] = "idle" => written[m] = 0
  /\ \A m \in Commands : cmd[m] = "accepted" => written[m] = 1
  /\ \A m \in Commands : written[m] <= 1

IInv == TypeOK /\ ManagedInv /\ CommandInv

ConnType == [pc : LivePcs \cup {"unused", "none", "ended"}, failures : 0 .. (MaxExponent + 1),
             queue : BoundedSeq(Commands, QueueSize + 1)]

-----------------------------------------------------------------------------
(* Queues and connections                                                  *)

\* What is in a bounded sequence.
LEMMA BoundedSeqFact ==
  ASSUME NEW S, NEW n \in Nat, NEW q
  PROVE  q \in BoundedSeq(S, n) <=> q \in Seq(S) /\ Len(q) <= n
<1>1. ASSUME q \in BoundedSeq(S, n) PROVE q \in Seq(S) /\ Len(q) <= n
  <2>1. PICK k \in 0 .. n : q \in [1 .. k -> S]
    BY <1>1 DEF BoundedSeq, SeqOf
  <2> QED BY <2>1
<1>2. ASSUME q \in Seq(S), Len(q) <= n PROVE q \in BoundedSeq(S, n)
  <2>1. Len(q) \in 0 .. n /\ q \in [1 .. Len(q) -> S]
    BY <1>2
  <2> QED BY <2>1 DEF BoundedSeq, SeqOf
<1> QED BY <1>1, <1>2

\* The queue without its head.
LEMMA TailFact ==
  ASSUME NEW S, NEW q \in Seq(S), q # <<>>
  PROVE  /\ Tail(q) \in Seq(S) /\ Len(Tail(q)) = Len(q) - 1 /\ Len(q) \in Nat \ {0}
         /\ \A i \in 1 .. (Len(q) - 1) : Tail(q)[i] = q[i + 1]
         /\ Head(q) = q[1] /\ Head(q) \in S
  OBVIOUS

\* More connections than requests and overwritten entries: where nothing is
\* managed, or one more entry may be overwritten, one is unused.
LEMMA FreshFact ==
  ASSUME TypeOK, ManagedInv, entry = None \/ Cardinality(displaced) < MaxDisplaced
  PROVE  Fresh \in Conns /\ conn[Fresh].pc = "unused"
<1>1. SUFFICES ASSUME \A c \in Conns : conn[c].pc # "unused" PROVE FALSE
  BY DEF Fresh
<1> DEFINE D == displaced \cup ({entry} \ {None})
           S == Conns \ D
           f == [c \in S |-> CHOOSE r \in Requests : req[r].pc = "stopping" /\ req[r].conn = c]
<1>2. /\ Cardinality(Requests) \in Nat /\ IsFiniteSet(Requests)
  BY RequestsAssumption, FS_CardinalityType
<1>3. IsFiniteSet(Conns) /\ Cardinality(Conns) = Cardinality(Requests) + 1 + MaxDisplaced
  <2> DEFINE n == Cardinality(Requests) + 1 + MaxDisplaced
  <2>1. n \in Nat /\ n >= 1
    BY <1>2, DisplacedAssumption
  <2> HIDE DEF n
  <2>2. IsFiniteSet(1 .. n) /\ Cardinality(1 .. n) = n
    BY <2>1, FS_Interval
  <2> QED BY <2>2 DEF Conns, n
<1>4. displaced \subseteq Conns /\ Cardinality(displaced) <= MaxDisplaced /\ entry \in Conns \cup {None}
  BY DEF TypeOK
<1>5. D \subseteq Conns /\ IsFiniteSet(D) /\ Cardinality(D) \in Nat /\ Cardinality(D) <= MaxDisplaced
  <2>1. IsFiniteSet(displaced) /\ Cardinality(displaced) \in Nat
    BY <1>3, <1>4, FS_Subset, FS_CardinalityType
  <2>2. CASE entry = None
    <3>1. D = displaced
      BY <2>2
    <3> QED BY <1>4, <2>1, <3>1
  <2>3. CASE entry # None
    <3>1. D = displaced \cup {entry}
      BY <2>3
    <3>2. IsFiniteSet(D) /\ (Cardinality(D) = Cardinality(displaced) \/ Cardinality(D) = Cardinality(displaced) + 1)
      BY <2>1, <3>1, FS_AddElement
    <3>3. Cardinality(displaced) < MaxDisplaced
      BY <2>3
    <3> QED BY <1>4, <2>1, <2>3, <3>1, <3>2, <3>3, DisplacedAssumption
  <2> QED BY <2>2, <2>3
<1>6. \A c \in S : Stopping(c)
  <2> SUFFICES ASSUME NEW c \in S PROVE Stopping(c)
    OBVIOUS
  <2>1. c \in Conns /\ c \notin displaced /\ c # entry
    BY NoneAssumption
  <2> QED BY <1>1, <2>1 DEF ManagedInv
<1>7. \A c \in S : f[c] \in Requests /\ req[f[c]].conn = c
  BY <1>6 DEF Stopping
<1>8. f \in [S -> Requests]
  BY <1>7
<1> HIDE DEF D
<1>9. IsFiniteSet(S) /\ Cardinality(Requests) < Cardinality(S)
  <2>1. Conns \cap D = D
    BY <1>5
  <2>2. IsFiniteSet(S) /\ Cardinality(S) = Cardinality(Conns) - Cardinality(D)
    BY <1>3, <2>1, FS_Difference
  <2> QED BY <1>2, <1>3, <1>5, <2>2, DisplacedAssumption
<1> HIDE DEF f, S
<1>10. \E c, d \in S : c # d /\ f[c] = f[d]
  BY <1>2, <1>8, <1>9, FS_PigeonHole
<1> QED BY <1>7, <1>10

-----------------------------------------------------------------------------
(* A step of a task                                                        *)

\* What a task may make of its connection: its queue stays, or its head leaves
\* it and the caller learns what became of the write.
Advances(c, k) ==
  /\ conn[c].queue # <<>> /\ k.queue = Tail(conn[c].queue)
  /\ \E n \in 0 .. 1, outcome \in {"accepted", "failed"} :
       /\ outcome = "accepted" => n = 1
       /\ written' = [written EXCEPT ![Head(conn[c].queue)] = @ + n]
       /\ Resolve({Head(conn[c].queue)}, outcome)

TaskEffect(c, k) ==
  /\ k \in ConnType /\ conn' = [conn EXCEPT ![c] = k]
  /\ conn[c].pc # "unused" /\ k.pc # "unused"
  /\ k.pc = "writing" => k.queue # <<>>
  /\ UNCHANGED <<entry, req, calls>>
  /\ \/ k.queue = conn[c].queue /\ UNCHANGED <<cmd, written>>
     \/ Advances(c, k)

\* The connection of the type invariant.
LEMMA ConnFact ==
  ASSUME TypeOK, NEW c \in Conns
  PROVE  /\ conn \in [Conns -> ConnType]
         /\ conn[c] \in ConnType
         /\ conn[c].queue \in Seq(Commands) /\ Len(conn[c].queue) \in 0 .. (QueueSize + 1)
<1>1. conn \in [Conns -> ConnType]
  BY DEF TypeOK, ConnType
<1>2. conn[c].queue \in BoundedSeq(Commands, QueueSize + 1)
  BY <1>1 DEF ConnType
<1> QED BY <1>1, <1>2, BoundedSeqFact, QueueAssumption

\* A shorter queue is still a queue.
LEMMA QueueTail ==
  ASSUME TypeOK, NEW c \in Conns, conn[c].queue # <<>>
  PROVE  Tail(conn[c].queue) \in BoundedSeq(Commands, QueueSize + 1)
<1>1. conn[c].queue \in Seq(Commands) /\ Len(conn[c].queue) \in 0 .. (QueueSize + 1)
  BY ConnFact
<1>2. Tail(conn[c].queue) \in Seq(Commands) /\ Len(Tail(conn[c].queue)) = Len(conn[c].queue) - 1
  BY <1>1, TailFact
<1>3. QueueSize + 1 \in Nat /\ Len(Tail(conn[c].queue)) <= QueueSize + 1
  BY <1>1, <1>2, QueueAssumption
<1> QED BY <1>2, <1>3, BoundedSeqFact

\* A connection nobody has, and one that has just been started.
LEMMA UnusedFact ==
  /\ Unused \in ConnType /\ Unused.pc = "unused" /\ Unused.queue = <<>>
  /\ [Unused EXCEPT !.pc = "begin"] \in ConnType
  /\ [Unused EXCEPT !.pc = "begin"].pc = "begin" /\ [Unused EXCEPT !.pc = "begin"].queue = <<>>
<1> DEFINE none == <<>>
<1>1. <<>> \in Seq(Commands) /\ Len(<<>>) = 0
  OBVIOUS
<1>2. QueueSize + 1 \in Nat /\ 0 <= QueueSize + 1 /\ 0 \in 0 .. (MaxExponent + 1)
  BY QueueAssumption, ExponentAssumption
<1>3. none \in Seq(Commands) /\ Len(none) = 0
  BY <1>1
<1> HIDE DEF none
<1>4. none \in BoundedSeq(Commands, QueueSize + 1)
  <2>1. Len(none) <= QueueSize + 1
    BY <1>2, <1>3
  <2> QED BY <1>2, <1>3, <2>1, BoundedSeqFact
<1>5. Unused = [pc |-> "unused", failures |-> 0, queue |-> none]
  BY DEF Unused, none
<1>6. none = <<>>
  BY DEF none
<1> QED BY <1>2, <1>4, <1>5, <1>6 DEF ConnType, LivePcs

\* What the except clause of run() leaves.
LEMMA FailedFact ==
  ASSUME NEW k \in ConnType, NEW f \in 0 .. (MaxExponent + 1)
  PROVE  /\ Failed(k, f) \in ConnType /\ Failed(k, f).queue = k.queue
         /\ Failed(k, f).pc \in {"ended", "backoff"}
<1>1. 0 \in 0 .. (MaxExponent + 1) /\ (~(f > MaxExponent) => f + 1 \in 0 .. (MaxExponent + 1))
  BY ExponentAssumption
<1>2. \A n \in 0 .. (MaxExponent + 1), p \in {"ended", "backoff"} :
        LET g == [k EXCEPT !.pc = p, !.failures = n]
        IN  g \in ConnType /\ g.queue = k.queue /\ g.pc = p
  BY DEF ConnType, LivePcs
<1> QED BY <1>1, <1>2 DEF Failed

\* Every step of a task has one of these effects.
LEMMA TaskStep ==
  ASSUME IInv, NEW c \in Conns, Task(c) \/ LinkLost(c)
  PROVE  \E k : TaskEffect(c, k)
<1> DEFINE now == conn[c]
<1>0. TypeOK /\ ManagedInv /\ CommandInv
  BY DEF IInv
<1>1. now \in ConnType /\ now.failures \in 0 .. (MaxExponent + 1) /\ 0 \in 0 .. (MaxExponent + 1)
  BY <1>0, ConnFact, ExponentAssumption DEF ConnType
<1>2. ASSUME NEW pc \in LivePcs, now.pc # "unused", pc = "writing" => now.queue # <<>>,
             conn' = [conn EXCEPT ![c].pc = pc], UNCHANGED <<entry, req, cmd, written, calls>>
      PROVE  \E k : TaskEffect(c, k)
  <2> DEFINE k == [now EXCEPT !.pc = pc]
  <2>1. conn' = [conn EXCEPT ![c] = k]
    BY <1>0, <1>2, ConnFact
  <2>2. k \in ConnType /\ k.pc = pc /\ k.queue = now.queue
    BY <1>1 DEF ConnType
  <2>3. pc # "unused"
    BY DEF LivePcs
  <2> HIDE DEF k
  <2> QED BY <1>2, <2>1, <2>2, <2>3 DEF TaskEffect
<1>3. ASSUME NEW f \in 0 .. (MaxExponent + 1), now.pc # "unused",
             conn' = [conn EXCEPT ![c] = Failed(now, f)], UNCHANGED <<entry, req, cmd, written, calls>>
      PROVE  \E k : TaskEffect(c, k)
  <2>1. /\ Failed(now, f) \in ConnType /\ Failed(now, f).queue = now.queue
        /\ Failed(now, f).pc \in {"ended", "backoff"}
    BY <1>1, FailedFact
  <2> QED BY <1>3, <2>1 DEF TaskEffect
<1>4. CASE RunBegin(c)
  BY <1>2, <1>4 DEF RunBegin, LivePcs
<1>5. CASE Acquire(c)
  BY <1>2, <1>5 DEF Acquire, LivePcs
<1>6. CASE BackoffOver(c)
  BY <1>2, <1>6 DEF BackoffOver, LivePcs
<1>7. CASE TakeCommand(c)
  BY <1>2, <1>7 DEF TakeCommand, LivePcs
<1>8. CASE ConnectOk(c)
  BY <1>2, <1>8 DEF ConnectOk, LivePcs
<1>9. CASE ConnectFails(c)
  BY <1>1, <1>3, <1>9 DEF ConnectFails
<1>10. CASE LinkLost(c)
  BY <1>1, <1>3, <1>10 DEF LinkLost
<1>11. CASE WriteOk(c)
  <2> DEFINE k == [now EXCEPT !.pc = "linked", !.queue = Tail(@)]
  <2>1. now.pc = "writing" /\ now.queue # <<>>
    BY <1>0, <1>11 DEF WriteOk, ManagedInv
  <2>2. conn' = [conn EXCEPT ![c] = k]
    BY <1>0, <1>11, ConnFact DEF WriteOk
  <2>3. k \in ConnType /\ k.pc = "linked" /\ k.queue = Tail(now.queue)
    BY <1>0, <1>1, <2>1, QueueTail DEF ConnType, LivePcs
  <2> HIDE DEF k
  <2>4. Advances(c, k)
    BY <1>11, <2>1, <2>3 DEF WriteOk, Advances
  <2>5. UNCHANGED <<entry, req, calls>>
    BY <1>11 DEF WriteOk
  <2> QED BY <2>1, <2>2, <2>3, <2>4, <2>5 DEF TaskEffect
<1>12. CASE WriteFails(c)
  <2> DEFINE shorter == [now EXCEPT !.queue = Tail(@)]
  <2>1. now.pc = "writing" /\ now.queue # <<>>
    BY <1>0, <1>12 DEF WriteFails, ManagedInv
  <2>2. PICK f \in {0, now.failures}, n \in 0 .. 1 :
          /\ conn' = [conn EXCEPT ![c] = Failed(shorter, f)]
          /\ written' = [written EXCEPT ![Head(now.queue)] = @ + n]
    BY <1>12 DEF WriteFails
  <2>3. shorter \in ConnType /\ shorter.queue = Tail(now.queue)
    BY <1>0, <1>1, <2>1, QueueTail DEF ConnType
  <2> HIDE DEF shorter
  <2> DEFINE k == Failed(shorter, f)
  <2>4. k \in ConnType /\ k.queue = Tail(now.queue) /\ k.pc \in {"ended", "backoff"}
    BY <1>1, <2>3, FailedFact
  <2>5. conn' = [conn EXCEPT ![c] = k]
    BY <2>2
  <2> HIDE DEF k
  <2>6. Advances(c, k)
    BY <1>12, <2>1, <2>2, <2>4 DEF WriteFails, Advances
  <2>7. UNCHANGED <<entry, req, calls>>
    BY <1>12 DEF WriteFails
  <2> QED BY <2>1, <2>4, <2>5, <2>6, <2>7 DEF TaskEffect
<1>13. CASE Cancelled(c)
  <2>0. now.pc # "unused" /\ UNCHANGED <<entry, req, calls>>
    BY <1>13 DEF Cancelled, Live, LivePcs
  <2>1. CASE now.pc = "writing"
    <3> DEFINE k == [now EXCEPT !.pc = "ended", !.failures = 0, !.queue = Tail(@)]
    <3>1. now.queue # <<>>
      BY <1>0, <2>1 DEF ManagedInv
    <3>2. conn' = [conn EXCEPT ![c] = k]
      BY <1>0, <1>13, <2>1, ConnFact DEF Cancelled
    <3>3. k \in ConnType /\ k.pc = "ended" /\ k.queue = Tail(now.queue)
      BY <1>0, <1>1, <3>1, QueueTail DEF ConnType
    <3> HIDE DEF k
    <3>4. Advances(c, k)
      BY <1>13, <2>1, <3>1, <3>3 DEF Cancelled, Advances
    <3> QED BY <2>0, <3>2, <3>3, <3>4 DEF TaskEffect
  <2>2. CASE now.pc # "writing"
    <3> DEFINE k == [now EXCEPT !.pc = "ended", !.failures = 0]
    <3>1. conn' = [conn EXCEPT ![c] = k] /\ UNCHANGED <<cmd, written>>
      BY <1>0, <1>13, <2>2, ConnFact DEF Cancelled
    <3>2. k \in ConnType /\ k.pc = "ended" /\ k.queue = now.queue
      BY <1>1 DEF ConnType
    <3> HIDE DEF k
    <3> QED BY <2>0, <3>1, <3>2 DEF TaskEffect
  <2> QED BY <2>1, <2>2
<1> QED BY <1>4, <1>5, <1>6, <1>7, <1>8, <1>9, <1>10, <1>11, <1>12, <1>13 DEF Task

-----------------------------------------------------------------------------
(* What keeps the commands in order                                        *)

\* A command leaves a queue from its head, with a result; what stays in the
\* queues stays in its order and is not touched.
LEMMA CommandsLeave ==
  ASSUME CommandInv, \A d \in Conns : Len(conn[d].queue) \in Nat /\ Len(conn'[d].queue) \in Nat,
         NEW shift \in [Conns -> Nat],
         \A d \in Conns :
           /\ Len(conn'[d].queue) = Len(conn[d].queue) - shift[d]
           /\ \A i \in 1 .. Len(conn'[d].queue) : conn'[d].queue[i] = conn[d].queue[i + shift[d]],
         NEW out,
         \A m : m \in out <=> \E d \in Conns : \E i \in 1 .. shift[d] : conn[d].queue[i] = m,
         \A m \in Commands : m \in out =>
           cmd'[m] \in {"accepted", "failed"} /\ (cmd'[m] = "accepted" => written'[m] = 1)
             /\ written'[m] <= 1,
         \A m \in Commands : m \notin out => cmd'[m] = cmd[m] /\ written'[m] = written[m]
  PROVE  CommandInv'
<1>0. ASSUME NEW c \in Conns, NEW d \in Conns, NEW x \in 1 .. Len(conn[c].queue),
             NEW y \in 1 .. Len(conn[d].queue), conn[c].queue[x] = conn[d].queue[y]
      PROVE  c = d /\ x = y
  <2>1. \A a, b \in Conns : \A i \in 1 .. Len(conn[a].queue), j \in 1 .. Len(conn[b].queue) :
          conn[a].queue[i] = conn[b].queue[j] => a = b /\ i = j
    BY DEF CommandInv
  <2> QED BY <1>0, <2>1
<1>1. ASSUME NEW d \in Conns, NEW i \in 1 .. Len(conn'[d].queue)
      PROVE  i + shift[d] \in 1 .. Len(conn[d].queue) /\ conn'[d].queue[i] = conn[d].queue[i + shift[d]]
  OBVIOUS
<1>2. ASSUME NEW c \in Conns, NEW d \in Conns, NEW i \in 1 .. Len(conn'[c].queue),
             NEW j \in 1 .. Len(conn'[d].queue), conn'[c].queue[i] = conn'[d].queue[j]
      PROVE  c = d /\ i = j
  <2>1. i + shift[c] \in 1 .. Len(conn[c].queue) /\ j + shift[d] \in 1 .. Len(conn[d].queue)
    BY <1>1
  <2>2. conn[c].queue[i + shift[c]] = conn[d].queue[j + shift[d]]
    BY <1>1, <1>2
  <2>3. c = d /\ i + shift[c] = j + shift[d]
    BY <1>0, <2>1, <2>2
  <2> QED BY <2>3
<1>3. ASSUME NEW m, Queued(m)'
      PROVE  Queued(m) /\ m \notin out
  <2>0. PICK d \in Conns : \E i \in 1 .. Len(conn'[d].queue) : conn'[d].queue[i] = m
    BY <1>3 DEF Queued
  <2>1. PICK i \in 1 .. Len(conn'[d].queue) : conn'[d].queue[i] = m
    BY <2>0
  <2>2. i + shift[d] \in 1 .. Len(conn[d].queue) /\ conn[d].queue[i + shift[d]] = m
    BY <1>1, <2>1
  <2>3. ASSUME m \in out PROVE FALSE
    <3>0. PICK e \in Conns : \E j \in 1 .. shift[e] : conn[e].queue[j] = m
      BY <2>3
    <3>1. PICK j \in 1 .. shift[e] : conn[e].queue[j] = m
      BY <3>0
    <3>2. j \in 1 .. Len(conn[e].queue)
      BY <3>1
    <3> DEFINE x == i + shift[d]
    <3>3. x \in 1 .. Len(conn[d].queue) /\ conn[e].queue[j] = conn[d].queue[x]
      BY <2>2, <3>1
    <3> HIDE DEF x
    <3>4. e = d /\ j = x
      BY <1>0, <3>2, <3>3
    <3> QED BY <3>1, <3>4 DEF x
  <2> QED BY <2>2, <2>3 DEF Queued
<1>4. ASSUME NEW m, Queued(m), m \notin out
      PROVE  Queued(m)'
  <2>0. PICK d \in Conns : \E i \in 1 .. Len(conn[d].queue) : conn[d].queue[i] = m
    BY <1>4 DEF Queued
  <2>1. PICK i \in 1 .. Len(conn[d].queue) : conn[d].queue[i] = m
    BY <2>0
  <2>2. i > shift[d]
    BY <1>4, <2>1
  <2> DEFINE j == i - shift[d]
  <2>3. j \in 1 .. Len(conn'[d].queue) /\ j + shift[d] = i
    BY <2>1, <2>2
  <2> HIDE DEF j
  <2>4. conn'[d].queue[j] = m
    BY <1>1, <2>1, <2>3
  <2> QED BY <2>3, <2>4 DEF Queued
<1>5. \A m \in Commands : m \in out => Queued(m)
  <2> SUFFICES ASSUME NEW m \in Commands, m \in out PROVE Queued(m)
    OBVIOUS
  <2>0. PICK d \in Conns : \E i \in 1 .. shift[d] : conn[d].queue[i] = m
    OBVIOUS
  <2>1. PICK i \in 1 .. shift[d] : conn[d].queue[i] = m
    BY <2>0
  <2>2. i \in 1 .. Len(conn[d].queue)
    BY <2>1
  <2> QED BY <2>1, <2>2 DEF Queued
<1> QED BY <1>2, <1>3, <1>4, <1>5 DEF CommandInv

\* Nothing about the queues changes.
LEMMA CommandsStay ==
  ASSUME CommandInv, \A d \in Conns : conn'[d].queue = conn[d].queue, UNCHANGED <<cmd, written>>
  PROVE  CommandInv'
<1>1. \A m : Queued(m)' <=> Queued(m)
  BY DEF Queued
<1> QED BY <1>1 DEF CommandInv

-----------------------------------------------------------------------------
(* Every step keeps the invariant                                          *)

DeviceType == [life : {"active", "disabled", "removed"}, status : {"link_state", "disabled"}]
ReqType == [pc : {"idle", "stopping", "working"}, conn : Conns \cup {None}, again : BOOLEAN]

\* A request that has not begun, or goes on after its stop().
LEMMA ReqFact ==
  /\ NoReq \in ReqType
  /\ [NoReq EXCEPT !.pc = "working"] \in ReqType
  /\ \A c \in Conns, b \in BOOLEAN : [pc |-> "stopping", conn |-> c, again |-> b] \in ReqType
<1>1. NoReq \in ReqType
  BY Zenon DEF NoReq, ReqType
<1>2. [NoReq EXCEPT !.pc = "working"] \in ReqType
  BY <1>1 DEF ReqType
<1>3. \A c \in Conns, b \in BOOLEAN : [pc |-> "stopping", conn |-> c, again |-> b] \in ReqType
  BY Zenon DEF ReqType
<1> QED BY <1>1, <1>2, <1>3

\* The row keeps its type whoever writes it.
LEMMA DeviceStep ==
  ASSUME TypeOK, [Next]_vars
  PROVE  device' \in DeviceType
<1>0. device \in DeviceType
  BY DEF TypeOK, DeviceType
<1>1. \/ device' = device
      \/ StatusWritten
      \/ device' = [device EXCEPT !.life = "disabled"]
      \/ device' = [device EXCEPT !.life = "active"]
      \/ device' = [life |-> "removed", status |-> "disabled"]
      \/ device' = [life |-> "active", status |-> "link_state"]
  <2>1. ASSUME NEW c \in Conns, Task(c) \/ LinkLost(c)
        PROVE  device' = device \/ StatusWritten
    BY <2>1 DEF Task, RunBegin, Acquire, BackoffOver, TakeCommand, Cancelled, ConnectOk,
                ConnectFails, WriteOk, WriteFails, LinkLost
  <2> QED BY <2>1 DEF Next, vars, StopEnds, WorkEnds, BeginStop, Kinds, SendCommand,
                      CommandTimeout, Activate, Admit, LookUp, Enter, Restart
<1> QED BY <1>0, <1>1 DEF StatusWritten, DeviceType

\* A step of a task.
LEMMA TaskInv ==
  ASSUME IInv, [Next]_vars, NEW c \in Conns, Task(c) \/ LinkLost(c)
  PROVE  IInv'
<1>0. TypeOK /\ ManagedInv /\ CommandInv
  BY DEF IInv
<1>1. PICK k : TaskEffect(c, k)
  BY TaskStep
<1>2. conn \in [Conns -> ConnType] /\ conn[c] \in ConnType
  BY <1>0, ConnFact
<1>3. \A d \in Conns : conn'[d] = IF d = c THEN k ELSE conn[d]
  BY <1>1, <1>2 DEF TaskEffect
<1>4. conn' \in [Conns -> ConnType]
  BY <1>1, <1>2 DEF TaskEffect
<1>5. cmd' \in [Commands -> {"idle", "waiting", "accepted", "failed"}] /\ written' \in [Commands -> Nat]
  BY <1>0, <1>1 DEF TaskEffect, Advances, Resolve, TypeOK
<1>6. TypeOK'
  <2>1. device' \in DeviceType
    BY <1>0, DeviceStep
  <2> QED BY <1>0, <1>1, <1>4, <1>5, <2>1 DEF TypeOK, TaskEffect, DeviceType, ConnType, calls
<1>7. ManagedInv'
  BY <1>0, <1>1, <1>3 DEF ManagedInv, TaskEffect, Stopping, calls
<1>8. CommandInv'
  <2>1. CASE k.queue = conn[c].queue /\ UNCHANGED <<cmd, written>>
    BY <1>0, <1>3, <2>1, CommandsStay
  <2>2. CASE Advances(c, k)
    <3> DEFINE q == conn[c].queue
               shift == [d \in Conns |-> IF d = c THEN 1 ELSE 0]
    <3>1. q \in Seq(Commands) /\ q # <<>> /\ k.queue = Tail(q)
      BY <1>0, <2>2, ConnFact DEF Advances
    <3>2. /\ Len(q) \in Nat \ {0} /\ Len(k.queue) = Len(q) - 1 /\ q[1] = Head(q)
          /\ \A i \in 1 .. Len(k.queue) : k.queue[i] = q[i + 1]
          /\ Head(q) \in Commands
      BY <3>1, TailFact
    <3>3. \A d \in Conns : Len(conn[d].queue) \in Nat /\ Len(conn'[d].queue) \in Nat
      BY <1>0, <1>6, ConnFact, <1>3, <3>2
    <3>4. \A d \in Conns :
            /\ Len(conn'[d].queue) = Len(conn[d].queue) - shift[d]
            /\ \A i \in 1 .. Len(conn'[d].queue) : conn'[d].queue[i] = conn[d].queue[i + shift[d]]
      <4> SUFFICES ASSUME NEW d \in Conns
                   PROVE  /\ Len(conn'[d].queue) = Len(conn[d].queue) - shift[d]
                          /\ \A i \in 1 .. Len(conn'[d].queue) :
                               conn'[d].queue[i] = conn[d].queue[i + shift[d]]
        OBVIOUS
      <4>1. CASE d = c
        <5>1. shift[d] = 1 /\ conn'[d].queue = k.queue /\ conn[d].queue = q
          BY <1>3, <4>1
        <5> HIDE DEF shift, q
        <5> QED BY <3>2, <5>1
      <4>2. CASE d # c
        <5>1. shift[d] = 0 /\ conn'[d].queue = conn[d].queue
          BY <1>3, <4>2
        <5> HIDE DEF shift
        <5> QED BY <3>3, <5>1
      <4> QED BY <4>1, <4>2
    <3>5. \A m : m \in {Head(q)} <=>
                   \E d \in Conns : \E i \in 1 .. shift[d] : conn[d].queue[i] = m
      BY <3>2
    <3>6. written[Head(q)] = 0 /\ cmd[Head(q)] \in {"waiting", "failed"}
      <4>1. Queued(Head(q))
        BY <3>2 DEF Queued
      <4> QED BY <1>0, <3>2, <4>1 DEF CommandInv
    <3>7. PICK n \in 0 .. 1, outcome \in {"accepted", "failed"} :
            /\ outcome = "accepted" => n = 1
            /\ written' = [written EXCEPT ![Head(q)] = @ + n]
            /\ Resolve({Head(q)}, outcome)
      BY <2>2 DEF Advances
    <3>8. /\ cmd'[Head(q)] \in {"accepted", "failed"}
          /\ cmd'[Head(q)] = "accepted" => written'[Head(q)] = 1
          /\ written'[Head(q)] <= 1
      BY <1>0, <3>2, <3>6, <3>7 DEF Resolve, TypeOK
    <3>9. \A m \in Commands : m \notin {Head(q)} => cmd'[m] = cmd[m] /\ written'[m] = written[m]
      BY <1>0, <3>7 DEF Resolve, TypeOK
    <3>10. shift \in [Conns -> Nat]
      OBVIOUS
    <3>11. \A m \in Commands : m \in {Head(q)} =>
             cmd'[m] \in {"accepted", "failed"} /\ (cmd'[m] = "accepted" => written'[m] = 1)
               /\ written'[m] <= 1
      BY <3>8
    <3> HIDE DEF shift, q
    <3> QED BY <1>0, <3>3, <3>4, <3>5, <3>9, <3>10, <3>11, CommandsLeave
  <2> QED BY <1>1, <2>1, <2>2 DEF TaskEffect
<1> QED BY <1>6, <1>7, <1>8 DEF IInv

\* The row of a new entry, or of an old one whose task starts again.
LEMMA ScheduleInv ==
  ASSUME TypeOK, ManagedInv, CommandInv, Schedule, UNCHANGED <<cmd, written, displaced>>,
         NEW r \in Requests,
         req' = req \/ (req[r].pc # "stopping" /\ req' = [req EXCEPT ![r] = NoReq])
  PROVE  /\ conn' \in [Conns -> ConnType] /\ entry' \in Conns
         /\ ManagedInv' /\ CommandInv'
<1>1. conn \in [Conns -> ConnType]
  BY ConnFact DEF TypeOK, ConnType
<1>2. /\ \A s \in Requests : req'[s].pc = "stopping" => req'[s] = req[s]
      /\ \A d : Stopping(d)' <=> Stopping(d)
  <2>1. req \in [Requests -> ReqType]
    BY DEF TypeOK, ReqType
  <2>2. \A s \in Requests : req'[s] = req[s] \/ (req'[s].pc = "idle" /\ req[s].pc # "stopping")
    BY <2>1 DEF NoReq
  <2> QED BY <2>2 DEF Stopping
<1>3. CASE entry = None
  <2>1. Fresh \in Conns /\ conn[Fresh].pc = "unused"
    BY <1>3, FreshFact
  <2>2. entry' = Fresh /\ conn' = [conn EXCEPT ![Fresh].pc = "begin"]
    BY <1>3 DEF Schedule
  <2> DEFINE new == [conn[Fresh] EXCEPT !.pc = "begin"]
  <2>3. new \in ConnType /\ new.pc = "begin" /\ new.queue = conn[Fresh].queue
    BY <1>1, <2>1 DEF ConnType, LivePcs
  <2>4. \A d \in Conns : conn'[d] = IF d = Fresh THEN new ELSE conn[d]
    BY <1>1, <2>1, <2>2
  <2>5. conn' \in [Conns -> ConnType]
    BY <1>1, <2>1, <2>2, <2>3
  <2> HIDE DEF new
  <2>6. ManagedInv'
    <3>1. \A d \in Conns : conn'[d].pc # "unused" => d = entry' \/ Stopping(d)' \/ d \in displaced'
      BY <1>2, <1>3, <2>2, <2>4, NoneAssumption DEF ManagedInv
    <3>2. \A s \in Requests : req'[s].pc = "stopping" =>
            req'[s].conn \in Conns /\ req'[s].conn # entry' /\ conn'[req'[s].conn].pc # "unused"
      <4> SUFFICES ASSUME NEW s \in Requests, req'[s].pc = "stopping"
                   PROVE  /\ req'[s].conn \in Conns /\ req'[s].conn # entry'
                          /\ conn'[req'[s].conn].pc # "unused"
        OBVIOUS
      <4>1. req'[s] = req[s] /\ req[s].conn \in Conns /\ conn[req[s].conn].pc # "unused"
        BY <1>2 DEF ManagedInv
      <4>2. req[s].conn # Fresh
        BY <2>1, <4>1
      <4> QED BY <2>2, <2>4, <4>1, <4>2
    <3>3. \A a, b \in Requests : req'[a].pc = "stopping" /\ req'[b].pc = "stopping"
                                  /\ req'[a].conn = req'[b].conn => a = b
      BY <1>2 DEF ManagedInv
    <3> QED BY <2>1, <2>2, <2>3, <2>4, <3>1, <3>2, <3>3 DEF ManagedInv
  <2>7. CommandInv'
    BY <2>3, <2>4, CommandsStay
  <2> QED BY <2>1, <2>2, <2>5, <2>6, <2>7
<1>4. CASE entry # None
  <2>0. entry \in Conns
    BY <1>4 DEF TypeOK
  <2> DEFINE new == IF Live(entry) THEN conn[entry] ELSE [conn[entry] EXCEPT !.pc = "begin"]
  <2>1. /\ new \in ConnType /\ new.queue = conn[entry].queue
        /\ new.pc # "unused"
        /\ new.pc = "writing" => conn[entry].pc = "writing"
    BY <1>1, <1>4, <2>0 DEF ConnType, LivePcs, ManagedInv
  <2>2. entry' = entry /\ \A d \in Conns : conn'[d] = IF d = entry THEN new ELSE conn[d]
    BY <1>1, <1>4, <2>0 DEF Schedule
  <2>3. conn' \in [Conns -> ConnType]
    BY <1>1, <1>4, <2>0, <2>1 DEF Schedule
  <2> HIDE DEF new
  <2>4. ManagedInv'
    BY <1>2, <1>4, <2>0, <2>1, <2>2 DEF ManagedInv
  <2>5. CommandInv'
    BY <2>1, <2>2, CommandsStay
  <2> QED BY <2>0, <2>2, <2>3, <2>4, <2>5
<1> QED BY <1>3, <1>4

\* The end of an exchange, and the activation of the sensor.
LEMMA ScheduledInv ==
  ASSUME IInv, [Next]_vars, (\E r \in Requests : WorkEnds(r)) \/ Activate
  PROVE  IInv'
<1>0. TypeOK /\ ManagedInv /\ CommandInv
  BY DEF IInv
<1>1. device' \in DeviceType
  BY <1>0, DeviceStep
<1>2. PICK r \in Requests :
        /\ Schedule /\ UNCHANGED <<cmd, written, call, displaced>>
        /\ req' = req \/ (req[r].pc # "stopping" /\ req' = [req EXCEPT ![r] = NoReq])
  BY RequestsAssumption DEF WorkEnds, Activate, calls
<1>3. conn' \in [Conns -> ConnType] /\ entry' \in Conns /\ ManagedInv' /\ CommandInv'
  BY <1>0, <1>2, ScheduleInv
<1>4. req' \in [Requests -> ReqType]
  <2>1. req \in [Requests -> ReqType]
    BY <1>0 DEF TypeOK, ReqType
  <2> QED BY <1>2, <2>1, ReqFact
<1>5. TypeOK'
  BY <1>0, <1>1, <1>2, <1>3, <1>4 DEF TypeOK, DeviceType, ConnType, ReqType
<1> QED BY <1>3, <1>5 DEF IInv

\* connect_device reads the row and looks for an entry.
LEMMA CallInv ==
  ASSUME IInv, NEW t \in Threads, Admit(t) \/ LookUp(t)
  PROVE  IInv'
<1>1. UNCHANGED <<device, entry, conn, req, cmd, written, displaced>>
  BY DEF Admit, LookUp
<1>2. call' \in [Threads -> {"idle", "admitted", "entering"}]
  BY DEF Admit, LookUp, IInv, TypeOK
<1>3. ManagedInv'
  BY <1>1 DEF IInv, ManagedInv, Stopping
<1>4. CommandInv'
  BY <1>1, CommandsStay DEF IInv
<1>5. TypeOK'
  BY <1>1, <1>2 DEF IInv, TypeOK
<1> QED BY <1>3, <1>4, <1>5 DEF IInv

\* connect_device enters a connection whose task never starts, over another
\* that may have been entered meanwhile.
LEMMA EnterInv ==
  ASSUME IInv, NEW t \in Threads, Enter(t)
  PROVE  IInv'
<1>0. TypeOK /\ ManagedInv /\ CommandInv /\ conn \in [Conns -> ConnType]
  BY ConnFact DEF IInv, TypeOK, ConnType
<1>1. Fresh \in Conns /\ conn[Fresh].pc = "unused"
  BY <1>0, FreshFact DEF Enter
<1>2. /\ entry' = Fresh /\ conn' = [conn EXCEPT ![Fresh].pc = "none"]
      /\ displaced' = displaced \cup ({entry} \ {None})
      /\ call' = [call EXCEPT ![t] = "idle"] /\ UNCHANGED <<device, req, cmd, written>>
  BY DEF Enter
<1> DEFINE new == [conn[Fresh] EXCEPT !.pc = "none"]
<1>3. new \in ConnType /\ new.pc = "none" /\ new.queue = conn[Fresh].queue
  BY <1>0, <1>1 DEF ConnType
<1>4. \A d \in Conns : conn'[d] = IF d = Fresh THEN new ELSE conn[d]
  BY <1>0, <1>1, <1>2
<1>5. conn' \in [Conns -> ConnType]
  BY <1>0, <1>1, <1>2, <1>3
<1> HIDE DEF new
<1>6. ManagedInv'
  <2>1. \A d \in Conns : Stopping(d)' <=> Stopping(d)
    BY <1>2 DEF Stopping
  <2>2. \A d \in Conns : conn'[d].pc # "unused" => d = entry' \/ Stopping(d)' \/ d \in displaced'
    BY <1>0, <1>2, <1>4, <2>1, NoneAssumption DEF ManagedInv
  <2> QED BY <1>0, <1>1, <1>2, <1>3, <1>4, <2>2 DEF ManagedInv
<1>7. CommandInv'
  BY <1>0, <1>2, <1>3, <1>4, CommandsStay
<1>8. displaced' \subseteq Conns /\ Cardinality(displaced') <= MaxDisplaced
  <2>1. displaced \subseteq Conns /\ Cardinality(displaced) <= MaxDisplaced /\ entry \in Conns \cup {None}
    BY <1>0 DEF TypeOK
  <2>2. CASE entry = None
    <3>1. displaced' = displaced
      BY <1>2, <2>2
    <3> QED BY <2>1, <3>1
  <2>3. CASE entry # None
    <3>1. displaced' = displaced \cup {entry} /\ Cardinality(displaced) < MaxDisplaced
      BY <1>2, <2>3 DEF Enter
    <3>2. IsFiniteSet(displaced) /\ Cardinality(displaced) \in Nat
      <4>1. IsFiniteSet(Conns)
        BY RequestsAssumption, FS_CardinalityType, FS_Interval, DisplacedAssumption DEF Conns
      <4> QED BY <2>1, <4>1, FS_Subset, FS_CardinalityType
    <3> DEFINE more == displaced \cup {entry}
    <3>3. Cardinality(more) = Cardinality(displaced) \/ Cardinality(more) = Cardinality(displaced) + 1
      BY <3>2, FS_AddElement
    <3> HIDE DEF more
    <3>4. Cardinality(more) <= MaxDisplaced
      BY <3>1, <3>2, <3>3, DisplacedAssumption
    <3> QED BY <2>1, <2>3, <3>1, <3>4 DEF more
  <2> QED BY <2>2, <2>3
<1>9. TypeOK'
  <2>1. call' \in [Threads -> {"idle", "admitted", "entering"}]
    BY <1>0, <1>2 DEF TypeOK
  <2> QED BY <1>0, <1>1, <1>2, <1>5, <1>8, <2>1 DEF TypeOK, ConnType
<1> QED BY <1>6, <1>7, <1>9 DEF IInv

\* A request takes the entry away and waits for its task.
LEMMA BeginStopInv ==
  ASSUME IInv, [Next]_vars, NEW r \in Requests, NEW kind \in Kinds, BeginStop(r, kind)
  PROVE  IInv'
<1>0. TypeOK /\ ManagedInv /\ CommandInv /\ req \in [Requests -> ReqType]
  BY DEF IInv, TypeOK, ReqType
<1>1. /\ req[r].pc = "idle" /\ entry' = None /\ UNCHANGED <<conn, cmd, written, call, displaced>>
      /\ req' = [req EXCEPT ![r] =
           IF entry # None THEN [pc |-> "stopping", conn |-> entry, again |-> kind = "exchange"]
           ELSE IF kind = "exchange" THEN [NoReq EXCEPT !.pc = "working"] ELSE NoReq]
  BY DEF BeginStop, calls
<1>2. CASE entry # None
  <2> DEFINE wait == [pc |-> "stopping", conn |-> entry, again |-> kind = "exchange"]
  <2>1. entry \in Conns
    BY <1>0, <1>2 DEF TypeOK
  <2>2. wait \in ReqType
    <3>1. (kind = "exchange") \in BOOLEAN
      OBVIOUS
    <3> QED BY <2>1, <3>1, ReqFact
  <2>3. wait.pc = "stopping" /\ wait.conn = entry
    OBVIOUS
  <2>4. req' \in [Requests -> ReqType] /\ \A s \in Requests : req'[s] = IF s = r THEN wait ELSE req[s]
    BY <1>0, <1>1, <1>2, <2>2
  <2> HIDE DEF wait
  <2>5. \A d \in Conns : d = entry \/ Stopping(d) => Stopping(d)'
    BY <1>1, <2>3, <2>4 DEF Stopping
  <2>6. ManagedInv'
    <3>1. \A d \in Conns : conn'[d].pc # "unused" => d = entry' \/ Stopping(d)' \/ d \in displaced'
      BY <1>0, <1>1, <2>5 DEF ManagedInv
    <3>2. \A s \in Requests : req'[s].pc = "stopping" =>
            req'[s].conn \in Conns /\ req'[s].conn # entry' /\ conn'[req'[s].conn].pc # "unused"
      BY <1>0, <1>1, <1>2, <2>1, <2>3, <2>4, NoneAssumption DEF ManagedInv
    <3>3. \A a, b \in Requests : req'[a].pc = "stopping" /\ req'[b].pc = "stopping"
                                  /\ req'[a].conn = req'[b].conn => a = b
      BY <1>0, <2>3, <2>4 DEF ManagedInv
    <3> QED BY <1>0, <1>1, <3>1, <3>2, <3>3 DEF ManagedInv
  <2> QED BY <1>0, <1>1, <2>4, <2>6, CommandsStay, DeviceStep DEF IInv, TypeOK, ReqType, DeviceType
<1>3. CASE entry = None
  <2>1. req'[r].pc # "stopping" /\ req' \in [Requests -> ReqType]
    BY <1>0, <1>1, <1>3, ReqFact DEF NoReq
  <2>2. \A s \in Requests : req'[s] = req[s] \/ (req'[s].pc # "stopping" /\ req[s].pc # "stopping")
    BY <1>0, <1>1, <2>1
  <2>3. \A d : Stopping(d)' <=> Stopping(d)
    BY <2>2 DEF Stopping
  <2>4. ManagedInv'
    BY <1>0, <1>1, <1>3, <2>2, <2>3 DEF ManagedInv
  <2> QED BY <1>0, <1>1, <2>1, <2>4, CommandsStay, DeviceStep DEF IInv, TypeOK, ReqType, DeviceType
<1> QED BY <1>2, <1>3

\* A request whose task is over cancels what is queued and forgets the
\* connection, which nobody else was waiting for.
LEMMA StopEndsInv ==
  ASSUME IInv, [Next]_vars, NEW r \in Requests, StopEnds(r)
  PROVE  IInv'
<1> DEFINE c == req[r].conn
<1>0. TypeOK /\ ManagedInv /\ CommandInv /\ req \in [Requests -> ReqType] /\ conn \in [Conns -> ConnType]
  BY ConnFact DEF IInv, TypeOK, ReqType, ConnType
<1>1. /\ req[r].pc = "stopping" /\ UNCHANGED <<entry, written, call, displaced>>
      /\ Resolve(ToSet(conn[c].queue), "failed")
      /\ conn' = [conn EXCEPT ![c] = Unused]
      /\ req' = [req EXCEPT ![r] = IF @.again THEN [NoReq EXCEPT !.pc = "working"] ELSE NoReq]
  BY DEF StopEnds, calls
<1>2. c \in Conns /\ c # entry
  BY <1>0, <1>1 DEF ManagedInv
<1>3. Unused \in ConnType /\ Unused.pc = "unused" /\ Unused.queue = <<>>
  BY UnusedFact
<1>4. conn' \in [Conns -> ConnType] /\ \A d \in Conns : conn'[d] = IF d = c THEN Unused ELSE conn[d]
  BY <1>0, <1>1, <1>2, <1>3
<1>5. req' \in [Requests -> ReqType] /\ req'[r].pc # "stopping"
      /\ \A s \in Requests : s # r => req'[s] = req[s]
  BY <1>0, <1>1, ReqFact DEF NoReq
<1>6. cmd' \in [Commands -> {"idle", "waiting", "accepted", "failed"}]
  BY <1>0, <1>1 DEF Resolve, TypeOK
<1>7. TypeOK'
  BY <1>0, <1>1, <1>4, <1>5, <1>6, DeviceStep DEF TypeOK, ReqType, DeviceType, ConnType
<1>8. ManagedInv'
  <2>1. \A d \in Conns : d # c => (Stopping(d)' <=> Stopping(d))
    BY <1>0, <1>1, <1>5 DEF Stopping
  <2>2. \A d \in Conns : conn'[d].pc # "unused" => d = entry' \/ Stopping(d)' \/ d \in displaced'
    BY <1>0, <1>1, <1>3, <1>4, <2>1 DEF ManagedInv
  <2>3. \A s \in Requests : req'[s].pc = "stopping" =>
          s # r /\ req'[s] = req[s] /\ req[s].conn \in Conns /\ req[s].conn # c
    BY <1>0, <1>1, <1>5 DEF ManagedInv
  <2>4. \A s \in Requests : req'[s].pc = "stopping" =>
          req'[s].conn \in Conns /\ req'[s].conn # entry' /\ conn'[req'[s].conn].pc # "unused"
    <3> HIDE DEF c
    <3> QED BY <1>0, <1>1, <1>4, <2>3 DEF ManagedInv
  <2>5. \A a, b \in Requests : req'[a].pc = "stopping" /\ req'[b].pc = "stopping"
                                /\ req'[a].conn = req'[b].conn => a = b
    <3> HIDE DEF c
    <3> QED BY <1>0, <2>3 DEF ManagedInv
  <2>6. entry' # None => conn'[entry'].pc # "unused"
    <3> HIDE DEF c
    <3> QED BY <1>0, <1>1, <1>2, <1>4 DEF ManagedInv, TypeOK
  <2>7. /\ \A d \in Conns : conn'[d].pc = "unused" => conn'[d].queue = <<>>
        /\ \A d \in Conns : conn'[d].pc = "writing" => conn'[d].queue # <<>>
    <3> HIDE DEF c
    <3> QED BY <1>0, <1>3, <1>4 DEF ManagedInv
  <2> QED BY <2>2, <2>4, <2>5, <2>6, <2>7 DEF ManagedInv
<1>9. CommandInv'
  <2> DEFINE q == conn[c].queue
             shift == [d \in Conns |-> IF d = c THEN Len(q) ELSE 0]
             out == ToSet(q)
  <2>1. q \in Seq(Commands) /\ Len(q) \in Nat
    BY <1>0, <1>2, ConnFact
  <2>2. out = {q[i] : i \in 1 .. Len(q)}
    BY <2>1 DEF ToSet
  <2>3. \A d \in Conns : Len(conn[d].queue) \in Nat /\ Len(conn'[d].queue) \in Nat
    <3>1. \A d \in Conns : Len(conn[d].queue) \in Nat
      BY <1>0, ConnFact
    <3> HIDE DEF c
    <3> QED BY <1>3, <1>4, <3>1
  <2>4. shift \in [Conns -> Nat]
    BY <2>1
  <2>5. \A d \in Conns :
          /\ Len(conn'[d].queue) = Len(conn[d].queue) - shift[d]
          /\ \A i \in 1 .. Len(conn'[d].queue) : conn'[d].queue[i] = conn[d].queue[i + shift[d]]
    <3> SUFFICES ASSUME NEW d \in Conns
                 PROVE  /\ Len(conn'[d].queue) = Len(conn[d].queue) - shift[d]
                        /\ \A i \in 1 .. Len(conn'[d].queue) :
                             conn'[d].queue[i] = conn[d].queue[i + shift[d]]
      OBVIOUS
    <3>1. CASE d = c
      <4>1. conn'[d].queue = <<>> /\ shift[d] = Len(q) /\ conn[d].queue = q
        BY <1>3, <1>4, <3>1
      <4>2. Len(conn'[d].queue) = 0
        BY <4>1
      <4> HIDE DEF shift, q
      <4> QED BY <2>1, <4>1, <4>2
    <3>2. CASE d # c
      <4>1. conn'[d].queue = conn[d].queue /\ shift[d] = 0
        BY <1>4, <3>2
      <4> HIDE DEF shift, q
      <4> QED BY <2>3, <4>1
    <3> QED BY <3>1, <3>2
  <2>6. \A m : m \in out <=> \E d \in Conns : \E i \in 1 .. shift[d] : conn[d].queue[i] = m
    <3>1. \A d \in Conns : d # c => shift[d] = 0
      OBVIOUS
    <3>2. shift[c] = Len(q)
      BY <1>2
    <3> HIDE DEF out, shift
    <3> QED BY <1>2, <2>1, <2>2, <3>1, <3>2
  <2>7. \A m \in Commands : m \in out =>
          cmd'[m] \in {"accepted", "failed"} /\ (cmd'[m] = "accepted" => written'[m] = 1)
            /\ written'[m] <= 1
    <3> SUFFICES ASSUME NEW m \in Commands, m \in out
                 PROVE  cmd'[m] = "failed" /\ written'[m] = 0
      OBVIOUS
    <3>1. Queued(m)
      BY <1>2, <2>1, <2>2 DEF Queued
    <3>2. cmd[m] \in {"waiting", "failed"} /\ written[m] = 0
      BY <1>0, <3>1 DEF CommandInv
    <3> HIDE DEF c
    <3> QED BY <1>1, <3>2 DEF Resolve
  <2>8. \A m \in Commands : m \notin out => cmd'[m] = cmd[m] /\ written'[m] = written[m]
    BY <1>1 DEF Resolve
  <2> HIDE DEF out, shift, q, c
  <2> QED BY <1>0, <2>3, <2>4, <2>5, <2>6, <2>7, <2>8, CommandsLeave
<1> QED BY <1>7, <1>8, <1>9 DEF IInv

\* A command joins the queue of the connected entry, behind the others.
LEMMA SendCommandInv ==
  ASSUME IInv, [Next]_vars, NEW m \in Commands, SendCommand(m)
  PROVE  IInv'
<1> DEFINE q == conn[entry].queue
           longer == Append(q, m)
           k == [conn[entry] EXCEPT !.queue = longer]
<1>0. TypeOK /\ ManagedInv /\ CommandInv /\ conn \in [Conns -> ConnType]
  BY ConnFact DEF IInv, TypeOK, ConnType
<1>1. /\ cmd[m] = "idle" /\ entry \in Conns /\ Connected(entry)
      /\ Len(q) < QueueSize + (IF conn[entry].pc = "writing" THEN 1 ELSE 0)
      /\ conn' = [conn EXCEPT ![entry].queue = longer]
      /\ cmd' = [cmd EXCEPT ![m] = "waiting"]
      /\ UNCHANGED <<device, entry, req, written, call, displaced>>
  BY <1>0 DEF SendCommand, TypeOK, calls
<1>2. q \in Seq(Commands) /\ Len(q) \in Nat
  BY <1>0, <1>1, ConnFact
<1>3. /\ longer \in Seq(Commands) /\ Len(longer) = Len(q) + 1 /\ longer # <<>>
      /\ \A i \in 1 .. Len(longer) : longer[i] = IF i <= Len(q) THEN q[i] ELSE m
  BY <1>2
<1>4. longer \in BoundedSeq(Commands, QueueSize + 1)
  <2>1. QueueSize + 1 \in Nat /\ Len(longer) <= QueueSize + 1
    BY <1>1, <1>2, <1>3, QueueAssumption
  <2> QED BY <1>3, <2>1, BoundedSeqFact
<1>5. k \in ConnType /\ k.pc = conn[entry].pc /\ k.queue = longer
  <2> HIDE DEF longer
  <2> QED BY <1>0, <1>1, <1>4 DEF ConnType
<1>6. conn' \in [Conns -> ConnType] /\ \A d \in Conns : conn'[d] = IF d = entry THEN k ELSE conn[d]
  <2>1. conn' = [conn EXCEPT ![entry] = k]
    BY <1>0, <1>1
  <2> HIDE DEF k
  <2> QED BY <1>0, <1>1, <1>5, <2>1
<1> HIDE DEF k, longer
<1>7. TypeOK'
  BY <1>0, <1>1, <1>6 DEF TypeOK, ConnType
<1>8. ManagedInv'
  <2>1. conn[entry].pc # "unused"
    BY <1>1 DEF Connected
  <2> QED BY <1>0, <1>1, <1>3, <1>5, <1>6, <2>1 DEF ManagedInv, Stopping
<1>9. CommandInv'
  <2>0. \A d \in Conns : Len(conn[d].queue) \in Nat
    BY <1>0, ConnFact
  <2>1. ~Queued(m) /\ written[m] = 0
    BY <1>0, <1>1 DEF CommandInv
  <2>7. \A c, d \in Conns : \A i \in 1 .. Len(conn[c].queue), j \in 1 .. Len(conn[d].queue) :
          conn[c].queue[i] = conn[d].queue[j] => c = d /\ i = j
    BY <1>0 DEF CommandInv
  <2>2. ASSUME NEW d \in Conns, NEW i \in 1 .. Len(conn'[d].queue)
        PROVE  \/ d = entry /\ i = Len(q) + 1 /\ conn'[d].queue[i] = m
               \/ i \in 1 .. Len(conn[d].queue) /\ conn'[d].queue[i] = conn[d].queue[i]
    BY <1>2, <1>3, <1>5, <1>6, <2>0
  <2>3. ASSUME NEW c \in Conns, NEW d \in Conns, NEW i \in 1 .. Len(conn'[c].queue),
               NEW j \in 1 .. Len(conn'[d].queue), conn'[c].queue[i] = conn'[d].queue[j]
        PROVE  c = d /\ i = j
    <3>1. CASE i \in 1 .. Len(conn[c].queue) /\ conn'[c].queue[i] = conn[c].queue[i]
      <4>1. conn'[d].queue[j] # m
        BY <2>1, <2>3, <3>1 DEF Queued
      <4>2. j \in 1 .. Len(conn[d].queue) /\ conn'[d].queue[j] = conn[d].queue[j]
        BY <2>2, <4>1
      <4>3. conn[c].queue[i] = conn[d].queue[j]
        BY <2>3, <3>1, <4>2
      <4> QED BY <2>7, <3>1, <4>2, <4>3
    <3>2. CASE c = entry /\ i = Len(q) + 1 /\ conn'[c].queue[i] = m
      <4>1. ~(j \in 1 .. Len(conn[d].queue) /\ conn'[d].queue[j] = conn[d].queue[j])
        BY <2>1, <2>3, <3>2 DEF Queued
      <4> QED BY <2>2, <3>2, <4>1
    <3> QED BY <2>2, <3>1, <3>2
  <2>4. ASSUME NEW n, Queued(n)' PROVE n = m \/ Queued(n)
    <3>1. PICK d \in Conns : \E i \in 1 .. Len(conn'[d].queue) : conn'[d].queue[i] = n
      BY <2>4 DEF Queued
    <3>2. PICK i \in 1 .. Len(conn'[d].queue) : conn'[d].queue[i] = n
      BY <3>1
    <3> QED BY <2>2, <3>2 DEF Queued
  <2>5. ASSUME NEW n, n = m \/ Queued(n) PROVE Queued(n)'
    <3>1. CASE n = m
      <4>1. Len(q) + 1 \in 1 .. Len(longer) /\ longer[Len(q) + 1] = m
        BY <1>2, <1>3
      <4>2. conn'[entry].queue = longer
        BY <1>1, <1>5, <1>6
      <4> QED BY <1>1, <3>1, <4>1, <4>2 DEF Queued
    <3>2. CASE Queued(n)
      <4>1. PICK d \in Conns : \E i \in 1 .. Len(conn[d].queue) : conn[d].queue[i] = n
        BY <3>2 DEF Queued
      <4>2. PICK i \in 1 .. Len(conn[d].queue) : conn[d].queue[i] = n
        BY <4>1
      <4>3. CASE d = entry
        <5>1. i \in 1 .. Len(longer) /\ longer[i] = n /\ conn'[d].queue = longer
          BY <1>2, <1>3, <1>5, <1>6, <4>2, <4>3
        <5> QED BY <5>1 DEF Queued
      <4>4. CASE d # entry
        BY <1>6, <4>2, <4>4 DEF Queued
      <4> QED BY <4>3, <4>4
    <3> QED BY <2>5, <3>1, <3>2
  <2>6. cmd'[m] = "waiting" /\ \A n \in Commands : n # m => cmd'[n] = cmd[n]
    BY <1>0, <1>1 DEF TypeOK
  <2> QED BY <1>0, <1>1, <2>1, <2>3, <2>4, <2>5, <2>6 DEF CommandInv
<1> QED BY <1>7, <1>8, <1>9 DEF IInv

\* A caller that gives up leaves its command where it is.
LEMMA CommandTimeoutInv ==
  ASSUME IInv, NEW m \in Commands, CommandTimeout(m)
  PROVE  IInv'
<1>0. TypeOK /\ ManagedInv /\ CommandInv
  BY DEF IInv
<1>1. cmd[m] = "waiting" /\ cmd' = [cmd EXCEPT ![m] = "failed"] /\ UNCHANGED <<device, entry, conn, req, written, call, displaced>>
  BY DEF CommandTimeout, calls
<1>2. cmd'[m] = "failed" /\ \A n \in Commands : n # m => cmd'[n] = cmd[n]
  BY <1>0, <1>1 DEF TypeOK
<1>3. \A n : Queued(n)' <=> Queued(n)
  BY <1>1 DEF Queued
<1>4. CommandInv'
  BY <1>0, <1>1, <1>2, <1>3 DEF CommandInv
<1> QED BY <1>0, <1>1, <1>4 DEF IInv, TypeOK, ManagedInv, Stopping

\* A gateway that has just started: at most the entry, and nothing queued.
Started ==
  /\ conn = [c \in Conns |-> IF c = entry THEN [Unused EXCEPT !.pc = "begin"] ELSE Unused]
  /\ req = [r \in Requests |-> NoReq]
  /\ entry \in Conns \cup {None}

Untouched ==
  /\ conn \in [Conns -> ConnType] /\ req \in [Requests -> ReqType] /\ ManagedInv
  /\ \A c \in Conns : conn[c].queue = <<>>

\* Such a gateway manages what it should.
LEMMA StartedFact ==
  Started => Untouched
<1> SUFFICES ASSUME Started PROVE Untouched
  OBVIOUS
<1> DEFINE begun == [Unused EXCEPT !.pc = "begin"]
<1>1. Unused \in ConnType /\ Unused.pc = "unused" /\ Unused.queue = <<>>
  BY UnusedFact
<1>2. begun \in ConnType /\ begun.pc = "begin" /\ begun.queue = <<>>
  BY UnusedFact
<1> HIDE DEF begun
<1>3. \A c \in Conns : conn[c] = IF c = entry THEN begun ELSE Unused
  BY DEF Started, begun
<1>4. conn \in [Conns -> ConnType]
  BY <1>1, <1>2 DEF Started, begun
<1>5. req \in [Requests -> ReqType] /\ \A r \in Requests : req[r].pc = "idle"
  BY ReqFact DEF Started, NoReq
<1>6. ManagedInv
  BY <1>1, <1>2, <1>3, <1>5 DEF ManagedInv, Started
<1> QED BY <1>1, <1>2, <1>3, <1>4, <1>5, <1>6 DEF Untouched

\* The state the gateway starts in.
LEMMA InitInv == Init => IInv
<1> SUFFICES ASSUME Init PROVE IInv
  OBVIOUS
<1>1. 1 \in Conns
  BY RequestsAssumption, FS_CardinalityType, DisplacedAssumption DEF Conns
<1>2. Started
  BY <1>1 DEF Started, Init
<1>3. \A m : ~Queued(m)
  BY <1>2, StartedFact DEF Queued, Untouched
<1>e. Cardinality({}) = 0 /\ 0 <= MaxDisplaced
  BY FS_EmptySet, DisplacedAssumption
<1>4. TypeOK
  BY <1>1, <1>2, <1>e, StartedFact DEF TypeOK, Init, ConnType, ReqType, Untouched
<1>5. CommandInv
  BY <1>2, <1>3, StartedFact DEF CommandInv, Init, Untouched
<1> QED BY <1>2, <1>4, <1>5, StartedFact DEF IInv, Untouched

\* The process dies with its queues and fails its callers.
LEMMA RestartInv ==
  ASSUME IInv, Restart
  PROVE  IInv'
<1>0. TypeOK /\ CommandInv
  BY DEF IInv
<1>1. 1 \in Conns
  BY RequestsAssumption, FS_CardinalityType, DisplacedAssumption DEF Conns
<1>2. Started'
  BY <1>1 DEF Started, Restart
<1>3. /\ conn' \in [Conns -> ConnType] /\ req' \in [Requests -> ReqType] /\ ManagedInv'
      /\ \A c \in Conns : conn'[c].queue = <<>>
  <2>1. Untouched'
    BY <1>2, StartedFact, PTL
  <2> QED BY <2>1 DEF Untouched
<1>4. \A m : ~Queued(m)'
  BY <1>3 DEF Queued
<1>5. /\ device' = device /\ written' = written /\ entry' \in Conns \cup {None}
      /\ cmd' = [m \in Commands |-> IF cmd[m] = "waiting" THEN "failed" ELSE cmd[m]]
  BY <1>1 DEF Restart, Resolve
<1>e. call' \in [Threads -> {"idle", "admitted", "entering"}] /\ displaced' = {}
      /\ Cardinality({}) = 0 /\ 0 <= MaxDisplaced
  BY FS_EmptySet, DisplacedAssumption DEF Restart
<1>6. TypeOK'
  BY <1>0, <1>3, <1>5, <1>e DEF TypeOK, ConnType, ReqType
<1>7. CommandInv'
  BY <1>0, <1>3, <1>4, <1>5 DEF CommandInv, TypeOK
<1> QED BY <1>3, <1>6, <1>7 DEF IInv

\* Every step keeps the invariant.
LEMMA NextInv == IInv /\ [Next]_vars => IInv'
<1> SUFFICES ASSUME IInv, [Next]_vars PROVE IInv'
  OBVIOUS
<1>1. CASE \E c \in Conns : Task(c) \/ LinkLost(c)
  BY <1>1, TaskInv
<1>2. CASE \E r \in Requests : StopEnds(r)
  BY <1>2, StopEndsInv
<1>3. CASE (\E r \in Requests : WorkEnds(r)) \/ Activate
  BY <1>3, ScheduledInv
<1>4. CASE \E r \in Requests, kind \in Kinds : BeginStop(r, kind)
  BY <1>4, BeginStopInv
<1>5. CASE \E m \in Commands : SendCommand(m)
  BY <1>5, SendCommandInv
<1>6. CASE \E m \in Commands : CommandTimeout(m)
  BY <1>6, CommandTimeoutInv
<1>7. CASE \E t \in Threads : Admit(t) \/ LookUp(t)
  BY <1>7, CallInv
<1>10. CASE \E t \in Threads : Enter(t)
  BY <1>10, EnterInv
<1>8. CASE Restart
  BY <1>8, RestartInv
<1>9. CASE UNCHANGED vars
  BY <1>9 DEF vars, IInv, TypeOK, ManagedInv, CommandInv, Queued, Stopping
<1> QED BY <1>1, <1>2, <1>3, <1>4, <1>5, <1>6, <1>7, <1>8, <1>9, <1>10 DEF Next

-----------------------------------------------------------------------------
(* The theorems                                                            *)

\* The invariant of every run of the manager.
THEOREM Invariance == Spec => []IInv
<1> QED BY InitInv, NextInv, PTL DEF Spec

\* The failure count stays where reconnect_delay is defined and no queue grows
\* past its bound, whatever the requests, the radio and the callers do.
THEOREM TypeCorrect == Spec => []TypeOK
<1>1. IInv => TypeOK
  BY DEF IInv
<1> QED BY <1>1, Invariance, PTL

\* No reconnect task outlives its place in `connections` unobserved, unless
\* connect_device overwrote that place from its worker thread.
THEOREM NoOrphan == Spec => []NoOrphanTask
<1>1. IInv => NoOrphanTask
  BY DEF IInv, ManagedInv, NoOrphanTask, Live, LivePcs
<1> QED BY <1>1, Invariance, PTL

\* No caller of send_command waits for a queue that nobody drains.
THEOREM NoStranded == Spec => []NoStrandedCommand
<1>1. IInv => NoStrandedCommand
  <2> SUFFICES ASSUME IInv, NEW m \in Commands, cmd[m] = "waiting"
               PROVE  \E c \in Conns : m \in ToSet(conn[c].queue) /\ (c = entry \/ Stopping(c) \/ c \in displaced)
    BY DEF NoStrandedCommand
  <2>0. TypeOK /\ ManagedInv /\ CommandInv
    BY DEF IInv
  <2>1. PICK c \in Conns : \E i \in 1 .. Len(conn[c].queue) : conn[c].queue[i] = m
    BY <2>0 DEF CommandInv, Queued
  <2>2. conn[c].queue \in Seq(Commands) /\ Len(conn[c].queue) \in Nat
    BY <2>0, ConnFact
  <2>3. m \in ToSet(conn[c].queue)
    BY <2>1, <2>2 DEF ToSet
  <2>4. conn[c].queue # <<>>
    BY <2>1, <2>2
  <2>5. c = entry \/ Stopping(c) \/ c \in displaced
    BY <2>0, <2>4 DEF ManagedInv
  <2> QED BY <2>3, <2>5
<1> QED BY <1>1, Invariance, PTL

\* No command reaches the sensor twice, through reconnects and timeouts.
THEOREM WrittenOnce == Spec => []CommandWrittenOnce
<1>1. IInv => CommandWrittenOnce
  BY DEF IInv, CommandInv, CommandWrittenOnce
<1> QED BY <1>1, Invariance, PTL
=============================================================================
