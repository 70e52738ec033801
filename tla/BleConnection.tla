---------------------------- MODULE BleConnection ----------------------------
(***************************************************************************)
(* The managed BLE connection of one registered sensor: BleManager's entry  *)
(* for it, the DeviceConnection objects with their reconnect tasks and      *)
(* command queues, and the requests that stop, restart or use them.         *)
(*                                                                         *)
(* Everything runs on the event loop, one step between two awaits, except  *)
(* connect_device, which runs in a worker thread: the loop may schedule     *)
(* between its look at `connections` and its assignment. stop() waits for a *)
(* cancelled task, so that a connection popped from `connections` can be    *)
(* ending while its successor is already connecting. A request that is      *)
(* refused without a change of state has no action.                         *)
(***************************************************************************)
EXTENDS Naturals, Sequences, FiniteSets, SequencesExt

CONSTANTS
  Requests,     \* requests that stop the connection, concurrently
  Threads,      \* worker threads that run connect_device
  Commands,     \* commands sent to the sensor
  None,         \* no connection
  QueueSize,    \* maxsize of _commands (32)
  MaxExponent,  \* the largest n with float(2 ** n) defined (1023)
  MaxDisplaced  \* bound: entries overwritten in one run of the gateway

ASSUME RequestsAssumption == IsFiniteSet(Requests) /\ Requests # {}
ASSUME QueueAssumption == QueueSize \in Nat \ {0}
ASSUME ExponentAssumption == MaxExponent \in Nat
ASSUME DisplacedAssumption == MaxDisplaced \in Nat

\* A connection object is forgotten when its stop() returns, so that one for
\* every request, one for the entry and the overwritten ones are enough.
Conns == 1 .. (Cardinality(Requests) + 1 + MaxDisplaced)

ASSUME NoneAssumption == None \notin Conns

VARIABLES
  device,   \* the RegisteredDevice row: connection_status is "disabled" or any
            \* state of a connection
  entry,    \* BleManager.connections[device_id], or None
  conn,     \* DeviceConnection objects
  req,      \* requests between their first and their last step
  call,     \* calls of connect_device, each in its worker thread
  cmd,      \* what became of each call of send_command
  written,  \* history: how often each command was written to the sensor
  displaced \* history: connections that connect_device overwrote

vars == <<device, entry, conn, req, call, cmd, written, displaced>>
calls == <<call, displaced>>

LivePcs == {"begin", "queued", "attempt", "linked", "writing", "backoff"}
Kinds   == {"disconnect", "disable", "remove", "exchange"}

Unused  == [pc |-> "unused", failures |-> 0, queue |-> <<>>]
NoReq   == [pc |-> "idle", conn |-> None, again |-> FALSE]

\* Types; among them that the failure count stays where reconnect_delay is
\* defined, and that no queue holds more than its commands and the one written.
TypeOK ==
  /\ device \in [life : {"active", "disabled", "removed"}, status : {"link_state", "disabled"}]
  /\ entry \in Conns \cup {None}
  /\ conn \in [Conns -> [pc : LivePcs \cup {"unused", "none", "ended"},
                         failures : 0 .. (MaxExponent + 1),
                         queue : BoundedSeq(Commands, QueueSize + 1)]]
  /\ req \in [Requests -> [pc : {"idle", "stopping", "working"}, conn : Conns \cup {None},
                           again : BOOLEAN]]
  /\ cmd \in [Commands -> {"idle", "waiting", "accepted", "failed"}]
  /\ written \in [Commands -> Nat]
  /\ call \in [Threads -> {"idle", "admitted", "entering"}]
  /\ displaced \subseteq Conns /\ Cardinality(displaced) <= MaxDisplaced

\* lifespan: the enabled sensors are scheduled when the gateway starts.
Init ==
  /\ device = [life |-> "active", status |-> "link_state"]
  /\ entry = 1
  /\ conn = [c \in Conns |-> IF c = 1 THEN [Unused EXCEPT !.pc = "begin"] ELSE Unused]
  /\ req = [r \in Requests |-> NoReq]
  /\ cmd = [m \in Commands |-> "idle"]
  /\ written = [m \in Commands |-> 0]
  /\ call = [t \in Threads |-> "idle"] /\ displaced = {}

-----------------------------------------------------------------------------
(* Helpers                                                                 *)

Live(c)     == conn[c].pc \in LivePcs
Stopping(c) == \E r \in Requests : req[r].pc = "stopping" /\ req[r].conn = c
\* state = "connected", for a connection that is in `connections`.
Connected(c) == conn[c].pc \in {"linked", "writing"}
Fresh       == CHOOSE c \in Conns : conn[c].pc = "unused"

\* _set_state, and status_callback, which leaves removed and disabled rows alone.
StatusWritten ==
  device' = IF device.life = "active" THEN [device EXCEPT !.status = "link_state"] ELSE device

\* The futures of ms that nobody gave up on.
Resolve(ms, outcome) ==
  cmd' = [m \in Commands |-> IF m \in ms /\ cmd[m] = "waiting" THEN outcome ELSE cmd[m]]

\* Mutant of Schedule: the entry is replaced without a look at it.
ScheduleReplacing ==
  /\ entry' = Fresh
  /\ conn' = [conn EXCEPT ![Fresh].pc = "begin"]

\* BleManager.schedule: start() does nothing while a task is alive.
Schedule ==
  IF entry = None
    THEN entry' = Fresh /\ conn' = [conn EXCEPT ![Fresh].pc = "begin"]
    ELSE /\ conn' = IF Live(entry) THEN conn ELSE [conn EXCEPT ![entry].pc = "begin"]
         /\ UNCHANGED entry

-----------------------------------------------------------------------------
(* DeviceConnection.run                                                    *)

\* A pass of run(): the state becomes "connecting".
RunBegin(c) ==
  /\ conn[c].pc = "begin"
  /\ conn' = [conn EXCEPT ![c].pc = "queued"]
  /\ StatusWritten
  /\ UNCHANGED <<entry, req, cmd, written, calls>>

\* The semaphore around client.connect(), shared by all connections.
Acquire(c) ==
  /\ conn[c].pc = "queued"
  /\ \A d \in Conns : conn[d].pc # "attempt"
  /\ conn' = [conn EXCEPT ![c].pc = "attempt"]
  /\ UNCHANGED <<device, entry, req, cmd, written, calls>>

\* Connected, metadata and capabilities read and accepted, notifications on.
ConnectOk(c) ==
  /\ conn[c].pc = "attempt"
  /\ conn' = [conn EXCEPT ![c].pc = "linked"]
  /\ StatusWritten
  /\ UNCHANGED <<entry, req, cmd, written, calls>>

\* Mutant of Failed: no delay is computed from the count.
FailedUncounted(k, f) == [k EXCEPT !.pc = "backoff", !.failures = f + 1]

\* The except clause and what follows it, f failures in a row before this one.
\* Beyond MaxExponent reconnect_delay raises OverflowError, which ends the task.
\* A connection that lasted stable_seconds starts the count again.
Failed(k, f) ==
  IF f > MaxExponent THEN [k EXCEPT !.pc = "ended", !.failures = 0]
                     ELSE [k EXCEPT !.pc = "backoff", !.failures = f + 1]

\* connect() fails, or the identity that is read is another sensor's.
ConnectFails(c) ==
  /\ conn[c].pc = "attempt"
  /\ conn' = [conn EXCEPT ![c] = Failed(@, @.failures)]
  /\ StatusWritten
  /\ UNCHANGED <<entry, req, cmd, written, calls>>

\* The link is lost between two commands; _connected_loop raises.
LinkLost(c) ==
  /\ conn[c].pc = "linked"
  /\ \E f \in {0, conn[c].failures} : conn' = [conn EXCEPT ![c] = Failed(@, f)]
  /\ StatusWritten
  /\ UNCHANGED <<entry, req, cmd, written, calls>>

\* The delay has passed and the task was not stopped.
BackoffOver(c) ==
  /\ conn[c].pc = "backoff"
  /\ conn' = [conn EXCEPT ![c].pc = "begin"]
  /\ UNCHANGED <<device, entry, req, cmd, written, calls>>

\* _drain_commands: the command at the head leaves the queue to be written.
TakeCommand(c) ==
  /\ conn[c].pc = "linked" /\ conn[c].queue # <<>>
  /\ conn' = [conn EXCEPT ![c].pc = "writing"]
  /\ UNCHANGED <<device, entry, req, cmd, written, calls>>

\* Mutant of WriteOk: the command is answered and kept.
WriteOkKeeps(c) ==
  LET m == Head(conn[c].queue) IN
  /\ conn[c].pc = "writing"
  /\ conn' = [conn EXCEPT ![c].pc = "linked"]
  /\ written' = [written EXCEPT ![m] = @ + 1]
  /\ Resolve({m}, "accepted")
  /\ UNCHANGED <<device, entry, req, calls>>

\* The write is acknowledged and its caller answered.
WriteOk(c) ==
  LET m == Head(conn[c].queue) IN
  /\ conn[c].pc = "writing"
  /\ conn' = [conn EXCEPT ![c].pc = "linked", ![c].queue = Tail(@)]
  /\ written' = [written EXCEPT ![m] = @ + 1]
  /\ Resolve({m}, "accepted")
  /\ UNCHANGED <<device, entry, req, calls>>

\* The write raises; it may have reached the sensor all the same.
WriteFails(c) ==
  LET m == Head(conn[c].queue) IN
  /\ conn[c].pc = "writing"
  /\ \E f \in {0, conn[c].failures}, n \in 0 .. 1 :
       /\ conn' = [conn EXCEPT ![c] = Failed([@ EXCEPT !.queue = Tail(conn[c].queue)], f)]
       /\ written' = [written EXCEPT ![m] = @ + n]
  /\ StatusWritten
  /\ Resolve({m}, "failed")
  /\ UNCHANGED <<entry, req, calls>>

\* Mutant of Cancelled: the cancellation is swallowed while connecting.
CancelledWhenLinked(c) ==
  /\ conn[c].pc = "linked" /\ Stopping(c)
  /\ conn' = [conn EXCEPT ![c].pc = "ended", ![c].failures = 0]
  /\ UNCHANGED <<device, entry, req, cmd, written, calls>>

\* stop() cancelled the task: it ends at its await, a command being written
\* fails, and may have reached the sensor.
Cancelled(c) ==
  /\ Live(c) /\ Stopping(c)
  /\ IF conn[c].pc = "writing"
       THEN LET m == Head(conn[c].queue)
            IN /\ \E n \in 0 .. 1 : written' = [written EXCEPT ![m] = @ + n]
               /\ Resolve({m}, "failed")
               /\ conn' = [conn EXCEPT ![c].pc = "ended", ![c].failures = 0, ![c].queue = Tail(@)]
       ELSE /\ conn' = [conn EXCEPT ![c].pc = "ended", ![c].failures = 0]
            /\ UNCHANGED <<cmd, written>>
  /\ UNCHANGED <<device, entry, req, calls>>

-----------------------------------------------------------------------------
(* Requests                                                                *)

\* BleManager.remove up to the wait for the task: disconnect_device, PATCH
\* enabled=false, every removal of the registration, and the exchanges that need
\* the sensor for themselves and schedule it again afterwards (read and write of
\* its configuration, apply(), paused_connections).
BeginStop(r, kind) ==
  /\ req[r].pc = "idle"
  /\ kind = "disable" => device.life # "removed"
  /\ device' = CASE kind = "disable" -> [device EXCEPT !.life = "disabled"]
                 [] kind = "remove" -> [life |-> "removed", status |-> "disabled"]
                 [] OTHER -> device
  /\ entry' = None
  /\ req' = [req EXCEPT ![r] =
       IF entry # None THEN [pc |-> "stopping", conn |-> entry, again |-> kind = "exchange"]
       ELSE IF kind = "exchange" THEN [NoReq EXCEPT !.pc = "working"] ELSE NoReq]
  /\ UNCHANGED <<conn, cmd, written, calls>>

\* Mutant of StopEnds: the queue is not emptied.
StopEndsUndrained(r) ==
  LET c == req[r].conn IN
  /\ req[r].pc = "stopping" /\ ~Live(c)
  /\ conn' = [conn EXCEPT ![c] = Unused]
  /\ StatusWritten
  /\ req' = [req EXCEPT ![r] = IF @.again THEN [NoReq EXCEPT !.pc = "working"] ELSE NoReq]
  /\ UNCHANGED <<entry, cmd, written, calls>>

\* The task is over: the queued commands are cancelled, the state is published
\* and the request goes on, or is over.
StopEnds(r) ==
  LET c == req[r].conn IN
  /\ req[r].pc = "stopping" /\ ~Live(c)
  /\ Resolve(ToSet(conn[c].queue), "failed")
  /\ conn' = [conn EXCEPT ![c] = Unused]
  /\ StatusWritten
  /\ req' = [req EXCEPT ![r] = IF @.again THEN [NoReq EXCEPT !.pc = "working"] ELSE NoReq]
  /\ UNCHANGED <<entry, written, calls>>

\* `finally: schedule(...)`: what became of the row meanwhile is not looked at.
WorkEnds(r) ==
  /\ req[r].pc = "working"
  /\ Schedule
  /\ req' = [req EXCEPT ![r] = NoReq]
  /\ UNCHANGED <<device, cmd, written, calls>>

\* PATCH enabled=true, restore(), a registration or a provisioning of the
\* sensor: the row is active when it is scheduled.
Activate ==
  /\ device' = IF device.life = "removed" THEN [life |-> "active", status |-> "link_state"]
                                          ELSE [device EXCEPT !.life = "active"]
  /\ Schedule
  /\ UNCHANGED <<req, cmd, written, calls>>

\* connect_device reads the row, in a worker thread.
Admit(t) ==
  /\ call[t] = "idle" /\ device.life = "active"
  /\ call' = [call EXCEPT ![t] = "admitted"]
  /\ UNCHANGED <<device, entry, conn, req, cmd, written, displaced>>

\* schedule looks for an entry. Without an event loop start() does nothing, or
\* raises: a task that is over is not started again.
LookUp(t) ==
  /\ call[t] = "admitted"
  /\ call' = [call EXCEPT ![t] = IF entry = None THEN "entering" ELSE "idle"]
  /\ UNCHANGED <<device, entry, conn, req, cmd, written, displaced>>

\* The new object becomes the entry, whatever the loop has entered or popped
\* since, and its start() raises.
Enter(t) ==
  /\ call[t] = "entering"
  /\ entry = None \/ Cardinality(displaced) < MaxDisplaced
  /\ entry' = Fresh
  /\ conn' = [conn EXCEPT ![Fresh].pc = "none"]
  /\ displaced' = displaced \cup ({entry} \ {None})
  /\ call' = [call EXCEPT ![t] = "idle"]
  /\ UNCHANGED <<device, req, cmd, written>>

\* send_command, refused unless connected and below QueueSize.
SendCommand(m) ==
  /\ cmd[m] = "idle" /\ device.life # "removed" /\ entry # None
  /\ Connected(entry)
  /\ Len(conn[entry].queue) < QueueSize + (IF conn[entry].pc = "writing" THEN 1 ELSE 0)
  /\ conn' = [conn EXCEPT ![entry].queue = Append(@, m)]
  /\ cmd' = [cmd EXCEPT ![m] = "waiting"]
  /\ UNCHANGED <<device, entry, req, written, calls>>

\* wait_for gives up after five seconds; the command stays in the queue.
CommandTimeout(m) ==
  /\ cmd[m] = "waiting"
  /\ cmd' = [cmd EXCEPT ![m] = "failed"]
  /\ UNCHANGED <<device, entry, conn, req, written, calls>>

\* The gateway process dies and starts again; its callers see an error.
Restart ==
  /\ entry' = IF device.life = "active" THEN 1 ELSE None
  /\ conn' = [c \in Conns |-> IF c = entry' THEN [Unused EXCEPT !.pc = "begin"] ELSE Unused]
  /\ req' = [r \in Requests |-> NoReq]
  /\ Resolve(Commands, "failed")
  /\ call' = [t \in Threads |-> "idle"] /\ displaced' = {}
  /\ UNCHANGED <<device, written>>

-----------------------------------------------------------------------------
\* What the task of c does by itself.
Task(c) ==
  \/ RunBegin(c) \/ Acquire(c) \/ BackoffOver(c) \/ TakeCommand(c) \/ Cancelled(c)
  \/ ConnectOk(c) \/ ConnectFails(c) \/ WriteOk(c) \/ WriteFails(c)

Next ==
  \/ \E c \in Conns : Task(c) \/ LinkLost(c)
  \/ \E r \in Requests : StopEnds(r) \/ WorkEnds(r) \/ \E kind \in Kinds : BeginStop(r, kind)
  \/ \E m \in Commands : SendCommand(m) \/ CommandTimeout(m)
  \/ \E t \in Threads : Admit(t) \/ LookUp(t) \/ Enter(t)
  \/ Activate \/ Restart

\* What stop() waits for, and its return.
Stop(r) == StopEnds(r) \/ (req[r].pc = "stopping" /\ Cancelled(req[r].conn))

\* The event loop delivers every cancellation and resumes who waits for it.
Fairness == \A r \in Requests : WF_vars(Stop(r))

\* The event loop runs every ready task, the semaphore serves its waiters in
\* order, an exchange has a deadline, and a sensor that is tried for ever is
\* within reach at some attempt.
InReach ==
  /\ \A r \in Requests : WF_vars(WorkEnds(r))
  /\ \A c \in Conns : WF_vars(Task(c)) /\ SF_vars(Acquire(c)) /\ SF_vars(ConnectOk(c))

Spec == Init /\ [][Next]_vars
FairSpec == Spec /\ Fairness
ReachableSpec == FairSpec /\ InReach

-----------------------------------------------------------------------------
(* Properties                                                              *)

\* Every reconnect task that is alive can still be stopped, being that of the
\* entry or one a request is waiting for, unless connect_device overwrote its
\* entry: whatever the loop's own requests do to each other between remove()
\* and schedule(), none of them leaves a task behind.
NoOrphanTask == \A c \in Conns : Live(c) => c = entry \/ Stopping(c) \/ c \in displaced

\* A caller of send_command that is still waiting has its command in the queue
\* of a connection that is managed, being stopped or overwritten by
\* connect_device, also across reconnects: no stop() leaves a future unresolved.
NoStrandedCommand ==
  \A m \in Commands : cmd[m] = "waiting" =>
    \E c \in Conns : m \in ToSet(conn[c].queue) /\ (c = entry \/ Stopping(c) \/ c \in displaced)

\* No command is written twice, whatever reconnects, timeouts and failed writes
\* it goes through, and one reported as accepted was written.
CommandWrittenOnce ==
  \A m \in Commands : written[m] <= 1 /\ (cmd[m] = "accepted" => written[m] = 1)

\* stop() always returns, whatever the task was doing when it was cancelled.
StopReturns == \A r \in Requests : []<>(req[r].pc # "stopping")

\* "Offline --> Active: reconnect": the task of a managed connection gets the
\* sensor back unless it is stopped first.
ReconnectsWhileManaged ==
  \A c \in Conns : (entry = c /\ Live(c)) ~> (entry # c \/ Connected(c))
=============================================================================
