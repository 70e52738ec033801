------------------------------ MODULE Telemetry ------------------------------
(* The telemetry path of one node: the firmware's report and heartbeat of    *)
(* loop(), its offline TelemetryBuffer, the BLE characteristic, and the      *)
(* gateway's TelemetryService.ingest with TelemetryPersistenceService.       *)
(*                                                                           *)
(* A record is what tells two packets apart: the boot that made it, its      *)
(* type, its sequence number and its time since the boot, of which the       *)
(* packet carries only the 32 bits of millis().  The values of the channels, *)
(* their units and qualities do not influence where a record goes.           *)
(* Notifications run as tasks of their own (connection.py:156), so several   *)
(* packets may wait for the database at once and finish in any order.        *)
EXTENDS Naturals, FiniteSets, SequencesExt

CONSTANTS
  Capacity,    \* TELEMETRY_BUFFER_CAPACITY (24)
  CacheSize,   \* the entries kept by _remember (256)
  Wrap,        \* the values of millis() (2^32)
  MaxTasks,    \* bound: packets waiting for the database at once
  MaxClock,    \* bound: milliseconds counted in one boot
  MaxBoots,    \* bound: boots of the node
  MaxSessions, \* bound: sessions opened by the gateway
  None

ASSUME TelemetryAssumption ==
  /\ {Capacity, CacheSize, Wrap, MaxTasks, MaxBoots} \subseteq Nat \ {0}
  /\ {MaxClock, MaxSessions} \subseteq Nat
  /\ None \notin Nat

VARIABLES
  boot,       \* which boot of the node this is
  clock,      \* milliseconds since the boot
  seq,        \* telemetry_sequence
  buffer,     \* offline_buffer, oldest first
  dropped,    \* dropped_count_
  link,       \* "down", "up" (not subscribed), "notify", "poll"
  attr,       \* value of the telemetry characteristic
  air,        \* notifications on their way, in order
  session,    \* _sessions of the device: id and last uptime
  opened,     \* how many sessions were opened
  dedupe,     \* _dedupe of the device, oldest first
  tasks,      \* packets in asyncio.to_thread(persist)
  readings,   \* rows of table readings
  sent        \* history: sequence numbers published in this boot

node == <<boot, clock, seq, buffer, dropped>>
gateway == <<session, opened, dedupe, tasks, readings>>
vars == <<node, link, attr, air, gateway, sent>>

Types == {"measurement", "heartbeat"}
Records == [boot : 1..MaxBoots, type : Types, seq : Nat, at : 0..MaxClock]

\* device_uptime_ms of a packet: millis() is 32 bits wide and rolls over.  Era
\* counts the rollovers before the record; no packet carries it.
Uptime(r) == r.at % Wrap
Era(r) == r.at \div Wrap

Id(r) == <<r.boot, r.seq>>
Ids(S) == {Id(r) : r \in S}

Init ==
  /\ boot = 1 /\ clock = 0 /\ seq = 0 /\ buffer = <<>> /\ dropped = 0
  /\ link = "down" /\ attr = None /\ air = <<>>
  /\ session = None /\ opened = 0
  /\ dedupe = <<>> /\ tasks = <<>> /\ readings = {} /\ sent = {}

-----------------------------------------------------------------------------
(* The node.                                                               *)

Connected == link # "down"

\* Mutant: the oldest record is overwritten and nothing is counted.
PushUncounted(r) ==
  /\ buffer' = IF Len(buffer) < Capacity THEN Append(buffer, r) ELSE Append(Tail(buffer), r)
  /\ UNCHANGED dropped

\* A full buffer gives a place only to a more important record, and every
\* record this firmware pushes is Routine: the newest one is dropped.
Push(r) ==
  IF Len(buffer) < Capacity
  THEN /\ buffer' = Append(buffer, r)
       /\ UNCHANGED dropped
  ELSE /\ dropped' = dropped + 1
       /\ UNCHANGED buffer

\* What becomes of a packet: a central that has not subscribed, or a
\* notification the stack refuses, hears nothing of it.
Heard(packet) == IF link = "notify" THEN {<<>>, packet} ELSE {<<>>}

\* ble_send_payload, once for each packet (<<>> where there is none): it writes
\* the characteristic and notifies.
Send(first, second, third) ==
  LET out == first \o second \o third
  IN  /\ \E f \in Heard(first), g \in Heard(second), h \in Heard(third) : air' = f \o g \o h
      /\ attr' = Last(out)
      /\ sent' = sent \cup {r.seq : r \in ToSet(out)}

Record(type, s, ms) == [boot |-> boot, type |-> type, seq |-> s, at |-> ms]

\* loop() without a central: the measurement goes to the offline buffer.
ReportOffline ==
  /\ ~Connected /\ clock + 2 <= MaxClock
  /\ Push(Record("measurement", seq, clock + 1))
  /\ seq' = seq + 1 /\ clock' = clock + 2
  /\ UNCHANGED <<boot, link, attr, air, gateway, sent>>

\* loop() with a central: one buffered record, then the new measurement, then
\* the heartbeat when its interval has passed.  The measurement takes its
\* own millis(); the heartbeat carries the earlier one loop() began with.
Delayed(report) == IF report /\ buffer # <<>> THEN <<Head(buffer)>> ELSE <<>>
Current(report) == IF report THEN <<Record("measurement", seq, clock + 1)>> ELSE <<>>
Heartbeat(report, beat) ==
  IF beat THEN <<Record("heartbeat", IF report THEN seq + 1 ELSE seq, clock)>> ELSE <<>>

\* The record published as delayed has left the offline buffer.
Popped(report) == IF report /\ buffer # <<>> THEN Tail(buffer) ELSE buffer

\* The notifications of one iteration are delivered before the next one.
Publish(report, beat) ==
  /\ Connected /\ air = <<>> /\ clock + 2 <= MaxClock
  /\ report \/ beat
  /\ Send(Delayed(report), Current(report), Heartbeat(report, beat))
  /\ buffer' = Popped(report)
  /\ seq' = seq + (IF report THEN 1 ELSE 0) + (IF beat THEN 1 ELSE 0)
  /\ clock' = clock + 2
  /\ UNCHANGED <<boot, dropped, link, gateway>>

\* Buffer, counters and sequence live in RAM.
Reboot ==
  /\ boot < MaxBoots
  /\ boot' = boot + 1 /\ clock' = 0 /\ seq' = 0 /\ buffer' = <<>> /\ dropped' = 0
  /\ link' = "down" /\ attr' = None
  /\ sent' = {}
  /\ UNCHANGED <<air, gateway>>

-----------------------------------------------------------------------------
(* The link, seen from both ends.                                          *)

\* The tasks of the notifications received before have started by then.
Connect ==
  /\ link = "down" /\ air = <<>>
  /\ link' = "up"
  /\ UNCHANGED <<node, attr, air, gateway, sent>>

\* start_notify(TELEMETRY_UUID), or bounded polling where it fails.
Subscribe(mode) ==
  /\ link = "up"
  /\ link' = mode
  /\ UNCHANGED <<node, attr, air, gateway, sent>>

\* The link is lost, or either side ends it.
Disconnect ==
  /\ Connected
  /\ link' = "down"
  /\ UNCHANGED <<node, attr, air, gateway, sent>>

-----------------------------------------------------------------------------
(* The gateway.                                                            *)

\* _dedupe_key: the packet type and the sequence number, no session.
Key(r) == <<r.type, r.seq>>

\* Mutant: a smaller uptime does not open a session.
SessionForAny(r) ==
  IF session = None THEN [id |-> opened + 1, last |-> Uptime(r)]
  ELSE [session EXCEPT !.last = Uptime(r)]

\* _session_for: an uptime below the last one opens a new session.
SessionFor(r) ==
  IF session = None \/ Uptime(r) < session.last
  THEN [id |-> opened + 1, last |-> Uptime(r)]
  ELSE [session EXCEPT !.last = Uptime(r)]

\* Mutant: the oldest key is never dropped.
RememberUnbounded(cache, k) ==
  IF k \in ToSet(cache) THEN cache ELSE Append(cache, k)

\* _remember: the oldest key goes when the cache is full.
Remember(cache, k) ==
  IF k \in ToSet(cache) THEN cache
  ELSE LET longer == Append(cache, k)
       IN  IF Len(longer) > CacheSize THEN Tail(longer) ELSE longer

\* ingest up to its await: the duplicate check, then the session.
Accept(r, polled) ==
  IF Key(r) \in ToSet(dedupe)
  THEN UNCHANGED <<session, opened, tasks, dedupe>>
  ELSE /\ Len(tasks) < MaxTasks
       /\ session' = SessionFor(r)
       /\ session'.id <= MaxSessions
       /\ opened' = session'.id
       /\ tasks' = Append(tasks, [rec |-> r, session |-> session'.id,
                                  polled |-> polled, remembers |-> TRUE])
       /\ UNCHANGED dedupe

\* The notify callback makes a task of every notification, in order.
Deliver ==
  /\ air # <<>>
  /\ Accept(Head(air), FALSE)
  /\ air' = Tail(air)
  /\ UNCHANGED <<node, link, attr, readings, sent>>

\* The connected loop reads the characteristic and awaits the packet.
Poll ==
  /\ link = "poll" /\ attr # None
  /\ \A i \in DOMAIN tasks : ~tasks[i].polled
  /\ Accept(attr, TRUE)
  /\ UNCHANGED <<node, link, attr, air, readings, sent>>

\* persist commits all rows of the packet, then ingest remembers its key.
Persist(i) ==
  /\ readings' = readings \cup {[rec |-> tasks[i].rec, session |-> tasks[i].session]}
  /\ dedupe' = IF tasks[i].remembers THEN Remember(dedupe, Key(tasks[i].rec)) ELSE dedupe
  /\ tasks' = RemoveAt(tasks, i)
  /\ UNCHANGED <<node, link, attr, air, session, opened, sent>>

\* Mutant: the key is remembered whether or not the rows were committed.
RefuseRemembering(i) ==
  /\ tasks' = RemoveAt(tasks, i)
  /\ dedupe' = Remember(dedupe, Key(tasks[i].rec))
  /\ UNCHANGED <<node, link, attr, air, session, opened, readings, sent>>

\* The device is archived or disabled, or the transaction fails: rolled back.
Refuse(i) ==
  /\ tasks' = RemoveAt(tasks, i)
  /\ UNCHANGED <<node, link, attr, air, session, opened, dedupe, readings, sent>>

\* The manager stops the connection (removal, disabling, a paused
\* reconnect).  A poll that waits for the database is cancelled: the worker
\* thread still commits, but nothing is left to remember the key.
StopConnection ==
  /\ Connected
  /\ link' = "down"
  /\ tasks' = [i \in DOMAIN tasks |->
                 [tasks[i] EXCEPT !.remembers = @ /\ ~tasks[i].polled, !.polled = FALSE]]
  /\ UNCHANGED <<node, attr, air, session, opened, dedupe, readings, sent>>

\* The gateway process stops and starts again: only the database stays.
Restart ==
  /\ session' = None /\ dedupe' = <<>> /\ tasks' = <<>> /\ air' = <<>> /\ link' = "down"
  /\ UNCHANGED <<node, attr, opened, readings, sent>>

Next ==
  \/ ReportOffline
  \/ \E report, beat \in BOOLEAN : Publish(report, beat)
  \/ Reboot
  \/ Connect
  \/ \E mode \in {"notify", "poll"} : Subscribe(mode)
  \/ Disconnect
  \/ Deliver
  \/ Poll
  \/ \E i \in DOMAIN tasks : Persist(i) \/ Refuse(i)
  \/ StopConnection
  \/ Restart

Spec == Init /\ [][Next]_vars

-----------------------------------------------------------------------------
(* Correctness.                                                            *)

Tasks == [rec : Records, session : 1..MaxSessions, polled : BOOLEAN, remembers : BOOLEAN]

\* Every variable keeps its type; the buffer and the duplicate cache keep
\* their bounds.
TypeOK ==
  /\ boot \in 1..MaxBoots /\ clock \in 0..MaxClock /\ seq \in Nat /\ dropped \in Nat
  /\ buffer \in Seq(Records) /\ Len(buffer) <= Capacity
  /\ link \in {"down", "up", "notify", "poll"}
  /\ attr \in Records \cup {None} /\ air \in Seq(Records)
  /\ session \in [id : 1..MaxSessions, last : 0..(Wrap - 1)] \cup {None}
  /\ opened \in 0..MaxSessions
  /\ dedupe \in Seq(Types \X Nat) /\ Len(dedupe) <= CacheSize
  /\ tasks \in Seq(Tasks) /\ Len(tasks) <= MaxTasks
  /\ readings \subseteq [rec : Records, session : 1..MaxSessions]
  /\ sent \subseteq Nat

Stored == Ids({x.rec : x \in readings})

\* Every sequence number of this boot was published once, or waits in the
\* offline buffer in its order, or is counted in dropped_count, which the
\* heartbeat reports (telemetry_buffer.cpp, ble_update_telemetry).
EachRecordOnce ==
  /\ \A i, j \in DOMAIN buffer : i < j => buffer[i].seq < buffer[j].seq
  /\ \A i \in DOMAIN buffer : buffer[i].boot = boot /\ buffer[i].seq \in 0..(seq - 1) \ sent
  /\ seq = Cardinality(sent) + Len(buffer) + dropped

\* A packet that was not stored is not in the duplicate cache, so that its
\* retransmission can be stored, however the packets that wait for the
\* database overtake each other (telemetry_service.py, ingest).
CacheOnlyStored ==
  \A k \in ToSet(dedupe) : \E x \in readings : Key(x.rec) = k

\* Inside one session the readings that a boot made between two rollovers of
\* millis() have their uptimes, and with them their derived measured_at, in
\* the order of their sequence numbers, whatever was delayed, overtaken or
\* polled and however many rollovers and reboots the session has seen
\* (_session_for).  Two readings with a rollover between them are not ordered:
\* a delayed record from before it joins the session of those after it.
SessionOrder ==
  \A x, y \in readings :
     (/\ x.session = y.session /\ x.rec.boot = y.rec.boot /\ Era(x.rec) = Era(y.rec)
      /\ x.rec.seq < y.rec.seq)
        => Uptime(x.rec) <= Uptime(y.rec)

\* What the gateway is about to discard as a duplicate it has stored: the
\* first records of a new boot are told by their smaller uptime and stored
\* in a new session.  The code does not do so: the key has no session.
DiscardedWasStored ==
  \A r \in ToSet(air) : Key(r) \in ToSet(dedupe) => Id(r) \in Stored
=============================================================================
