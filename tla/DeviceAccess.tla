---------------------------- MODULE DeviceAccess ----------------------------
(***************************************************************************)
(* Who talks to the ventilation unit, and what the entities see of it.     *)
(*                                                                         *)
(* One coordinator owns one Modbus connection.  The poll that refreshes    *)
(* coordinator.data, the writes of entities and services, the diagnostic   *)
(* register scan and the shutdown are asyncio tasks; all but the shutdown  *)
(* take DeviceClient._write_lock, a FIFO lock.  A step of this module is   *)
(* what a task does between two suspension points.                         *)
(*                                                                         *)
(* The transport is the pymodbus-backed TCP transport                      *)
(* (transport/tcp.py).  A register stands for one read chunk; it holds a   *)
(* modification count, as in RegisterView.  Coils stands for coils and     *)
(* discrete inputs: both are read through the client alias.                *)
(***************************************************************************)
EXTENDS Integers, Sequences, SequencesExt

CONSTANTS Inputs, Holding, Coils,   \* the chunks of each register type
          Writers,      \* concurrent callers of async_write_register
          Background,   \* which of Scan and Stop this instance has
          Retry,        \* attempts per read or write (_retry)
          MaxFailures,  \* _max_failures; the failure count saturates there
          MaxVersion,   \* bound on the modification counts
          None          \* "no task" and "no register"

Poll == "poll"
Scan == "scan"
Stop == "stop"
Registers == Inputs \cup Holding \cup Coils
Writable == Holding \cup Coils
Tasks == {Poll} \cup Writers \cup Background

ASSUME BoundsAssumption == /\ Retry \in Nat \ {0}
                           /\ MaxFailures \in Nat
                           /\ MaxVersion \in Nat

ASSUME TasksAssumption == /\ Background \subseteq {Scan, Stop}
                          /\ Writers \cap {Poll, Scan, Stop} = {}
                          /\ None \notin Tasks

ASSUME RegistersAssumption == /\ Inputs \cap Holding = {}
                              /\ (Inputs \cup Holding) \cap Coils = {}
                              /\ None \notin Registers

VARIABLES
  pc,       \* [Tasks -> where the task is suspended]
  holder,   \* the task that holds _write_lock, or None
  waiters,  \* its queue, oldest first
  conn,     \* the transport: "none" before one was connected, then "up",
            \* "dropped" (client object, link lost), "failed" (client object
            \* that never connected) or "closed" (no client object)
  alias,    \* DeviceClient.client: the transport's client ("live"), one the
            \* transport has replaced or closed ("stale"), or None ("none")
  offline,  \* DeviceClient.offline_state
  cycle,    \* the locals of the running poll
  write,    \* [Writers -> the locals of its write]
  updating, \* DeviceClient._update_in_progress
  stopping, \* coordinator._shutting_down
  failures, \* _consecutive_failures
  lastOk,   \* last_update_success
  shown,    \* [Registers -> the count last published for it]
  present,  \* [Registers -> is it a key of coordinator.data]
  device,   \* [Registers -> the count in the device]
  acked,    \* [Registers -> the count of the last confirmed write]
  scanner,  \* is the diagnostic scanner's own connection open
  calm      \* no fault and no cancellation happens any more

control == <<pc, holder, waiters>>
link == <<conn, alias, offline>>
view == <<shown, present, lastOk>>
truth == <<device, acked>>
vars == <<control, link, view, truth, cycle, write, updating, stopping,
          failures, scanner, calm>>

Version == 0..MaxVersion
Bump(v) == IF v < MaxVersion THEN v + 1 ELSE v

Phases == {"start", "input", "holding", "coil"}
Dialing == {"connect", "rconn", "fconn", "srconn"}
PollLabels == {"idle", "queued", "connect", "next", "read", "rconn", "fconn"}
WriterLabels == {"idle", "queued", "connect", "attempt", "readback"}
ScanLabels == {"idle", "queued", "scan", "srconn"}
StopLabels == {"idle", "closing", "done"}
AllLabels == PollLabels \cup WriterLabels \cup ScanLabels \cup StopLabels
Labels(t) == CASE t = Poll -> PollLabels
               [] t = Scan -> ScanLabels
               [] t = Stop -> StopLabels
               [] OTHER -> WriterLabels

\* The locals of a poll: the phase it is in, the chunks left in it, the chunk
\* being read, whether that is the one-by-one fallback, the attempt, and what
\* it has read so far.
Cycles == [phase : Phases, todo : SUBSET Registers,
           cur : Registers \cup {None}, single : BOOLEAN, attempt : 1..Retry,
           got : SUBSET Registers, buf : [Registers -> Version]]
NoCycle == [phase |-> "start", todo |-> {}, cur |-> None, single |-> FALSE,
            attempt |-> 1, got |-> {}, buf |-> [r \in Registers |-> 0]]

\* The locals of a write: its register, whether it reads back, the attempt.
Writes == [reg : Writable \cup {None}, readback : BOOLEAN, attempt : 1..Retry]
NoWrite == [reg |-> None, readback |-> FALSE, attempt |-> 1]

ControlOK == /\ pc \in [Tasks -> AllLabels]
             /\ \A t \in Tasks : pc[t] \in Labels(t)
             /\ holder \in Tasks \cup {None}
             /\ waiters \in Seq(Tasks)
LinkOK == /\ conn \in {"none", "up", "dropped", "failed", "closed"}
          /\ alias \in {"live", "stale", "none"}
          /\ offline \in BOOLEAN
LocalsOK == /\ cycle \in Cycles
            /\ write \in [Writers -> Writes]
FlagsOK == /\ updating \in BOOLEAN
           /\ stopping \in BOOLEAN
           /\ failures \in 0..MaxFailures
           /\ scanner \in BOOLEAN
           /\ calm \in BOOLEAN
ViewOK == /\ shown \in [Registers -> Version]
          /\ present \in [Registers -> BOOLEAN]
          /\ lastOk \in BOOLEAN
TruthOK == /\ device \in [Registers -> Version]
           /\ acked \in [Registers -> Version]

\* Every task is at one of its suspension points, and the locals of a poll and
\* of a write (attempts among them) stay within what the retry loops allow.
TypeOK == /\ ControlOK
          /\ LinkOK
          /\ LocalsOK
          /\ FlagsOK
          /\ ViewOK
          /\ TruthOK

Init == /\ pc = [t \in Tasks |-> "idle"]
        /\ holder = None
        /\ waiters = <<>>
        /\ conn = "none"
        /\ alias = "none"
        /\ offline = FALSE
        /\ cycle = NoCycle
        /\ write = [w \in Writers |-> NoWrite]
        /\ updating = FALSE
        /\ stopping = FALSE
        /\ failures = 0
        /\ shown = [r \in Registers |-> 0]
        /\ present = [r \in Registers |-> FALSE]
        /\ lastOk = TRUE
        /\ device = [r \in Registers |-> 0]
        /\ acked = [r \in Registers |-> 0]
        /\ scanner = FALSE
        /\ calm = FALSE
-----------------------------------------------------------------------------
\* The connection.  The disconnect never suspends: only a dial keeps the client
\* lock, and pymodbus closes a client at once.

\* _disconnect: the transport is closed and kept, the alias is dropped.
Disconnect == /\ conn' = IF conn = "none" THEN "none" ELSE "closed"
              /\ alias' = "none"
              /\ offline' = TRUE

StaleAlias == IF alias = "live" THEN "stale" ELSE alias

\* A failed or cancelled call makes the transport close its client; the alias
\* keeps pointing at that client.
Reset == /\ conn' = "closed"
         /\ alias' = StaleAlias
         /\ UNCHANGED offline

\* The end of the dial of _ensure_connection.  A first dial that fails leaves
\* no transport behind, a later one a client that never connected.
Undialed == IF conn = "none" THEN "none" ELSE "failed"
Dialed == conn' = "up" /\ alias' = "live" /\ offline' = FALSE
DialFailed == /\ ~calm
              /\ conn' = Undialed
              /\ offline' = TRUE
              /\ UNCHANGED alias
DialCut == conn' = Undialed /\ UNCHANGED <<alias, offline>>

\* A request that starts on a closed transport makes it dial by itself; what
\* conn may then be.
SelfDialed == IF calm THEN {"up"} ELSE {"up", "closed"}

\* Can the request in flight for register r be answered?  Coils are called on
\* the alias, which may not be the transport's client any more.
Deliverable(r) == conn = "up" /\ (r \in Coils => alias = "live")

\* A request that raised resets the transport, unless it was refused before
\* the transport was reached, for want of an alias.
Raised(r) == IF r \in Coils /\ alias = "none" THEN UNCHANGED link ELSE Reset
-----------------------------------------------------------------------------
\* Moving a task, and _write_lock (asyncio.Lock: first come, first served; a
\* free lock with waiters is not taken by a newcomer).

Goto(t, label) == /\ pc' = [pc EXCEPT ![t] = label]
                  /\ UNCHANGED <<holder, waiters>>

Release(t) == /\ holder' = None
              /\ pc' = [pc EXCEPT ![t] = "idle"]
              /\ UNCHANGED waiters

\* With the lock, a scan disconnects; a poll or a write ensures the connection:
\* a connected transport is used as it is, with whatever alias there is,
\* otherwise it is closed and dialled anew.
Enter(t) ==
  /\ holder' = t
  /\ IF t = Scan
       THEN Disconnect /\ pc' = [pc EXCEPT ![t] = "scan"]
       ELSE IF conn = "up"
         THEN /\ pc' = [pc EXCEPT ![t] = IF t = Poll THEN "next" ELSE "attempt"]
              /\ UNCHANGED link
         ELSE /\ pc' = [pc EXCEPT ![t] = "connect"]
              /\ IF conn = "none" THEN UNCHANGED link ELSE Disconnect

Acquire(t) ==
  IF holder = None /\ waiters = <<>>
    THEN Enter(t) /\ UNCHANGED waiters
    ELSE /\ waiters' = Append(waiters, t)
         /\ pc' = [pc EXCEPT ![t] = "queued"]
         /\ UNCHANGED <<holder, link>>

\* The released lock wakes its first waiter.
Grant == /\ holder = None
         /\ waiters # <<>>
         /\ Enter(Head(waiters))
         /\ waiters' = Tail(waiters)
         /\ UNCHANGED <<view, truth, cycle, write, updating, stopping, failures,
                        scanner, calm>>

\* A cancelled waiter leaves the queue.
LeaveQueue(t) == /\ pc[t] = "queued"
                 /\ \E i \in DOMAIN waiters : /\ waiters[i] = t
                                              /\ waiters' = RemoveAt(waiters, i)
                 /\ pc' = [pc EXCEPT ![t] = "idle"]
                 /\ UNCHANGED <<holder, link>>
-----------------------------------------------------------------------------
\* The poll: DataUpdateCoordinator calls async_update_data, one call at a time.

\* What a step inside the cycle leaves alone.
PollVars == <<view, truth, write, updating, stopping, failures, scanner, calm>>
AtPoll(label) == pc[Poll] = label

\* The guard against overlapping cycles runs before the lock is taken.
PollStart ==
  /\ AtPoll("idle")
  /\ ~stopping
  /\ IF updating
       THEN /\ lastOk' = TRUE     \* cached data is returned as a success
            /\ UNCHANGED <<control, link, updating>>
       ELSE /\ updating' = TRUE
            /\ Acquire(Poll)
            /\ UNCHANGED lastOk
  /\ UNCHANGED <<shown, present, truth, cycle, write, stopping, failures,
                 scanner, calm>>

FinishCycle == /\ Release(Poll)
               /\ updating' = FALSE
               /\ cycle' = NoCycle

\* The result replaces coordinator.data in the step that releases the lock.
CycleSucceeds ==
  /\ FinishCycle
  /\ failures' = 0
  /\ shown' = [r \in Registers |-> IF r \in cycle.got THEN cycle.buf[r]
                                                      ELSE shown[r]]
  /\ present' = [r \in Registers |-> r \in cycle.got]
  /\ lastOk' = TRUE

MoreFailures == IF failures < MaxFailures THEN failures + 1 ELSE failures

\* Mutant of CycleFails: a failed cycle keeps the connection as it is.
CycleFailsConnected(modbus, left) ==
  /\ left
  /\ failures' = MoreFailures
  /\ FinishCycle
  /\ lastOk' = FALSE
  /\ UNCHANGED <<shown, present>>

\* handle_update_error.  While stopping, a Modbus error is passed on without
\* it, with the connection as the error left it.
CycleFails(modbus, left) ==
  /\ IF stopping /\ modbus
       THEN left /\ UNCHANGED failures
       ELSE Disconnect /\ failures' = MoreFailures
  /\ FinishCycle
  /\ lastOk' = FALSE
  /\ UNCHANGED <<shown, present>>

\* The cycle goes on, at the given label.
CycleGoesOn(label) == /\ Goto(Poll, label)
                      /\ UNCHANGED <<updating, failures, view>>

PollConnect ==
  /\ AtPoll("connect")
  /\ \/ Dialed /\ CycleGoesOn("next") /\ UNCHANGED cycle
     \/ ~calm /\ \E modbus \in BOOLEAN : CycleFails(modbus, DialFailed)
  /\ UNCHANGED <<truth, write, stopping, scanner, calm>>

\* The next register type, between two requests.  An input phase without a
\* connection fails the cycle, a holding phase is skipped without a word, a coil
\* phase wants the alias connected.
PollNextPhase ==
  LET To(phase, todo) ==
        /\ cycle' = [cycle EXCEPT !.phase = phase, !.todo = todo]
        /\ CycleGoesOn("next")
        /\ UNCHANGED link
      Unconnected == CycleFails(TRUE, UNCHANGED link)
  IN
  /\ AtPoll("next")
  /\ cycle.todo = {}
  /\ \/ /\ cycle.phase = "start"
        /\ IF conn = "up" THEN To("input", Inputs) ELSE Unconnected
     \/ /\ cycle.phase = "input"
        /\ To("holding", IF conn = "up" THEN Holding ELSE {})
     \/ /\ cycle.phase = "holding"
        /\ IF Coils = {} \/ (conn = "up" /\ alias = "live")
             THEN To("coil", Coils) ELSE Unconnected
  /\ UNCHANGED <<truth, write, stopping, scanner, calm>>

PollNextChunk ==
  /\ AtPoll("next")
  /\ \E r \in cycle.todo :
       /\ cycle' = [cycle EXCEPT !.todo = @ \ {r}, !.cur = r, !.attempt = 1,
                                 !.single = FALSE]
       /\ conn' \in IF conn = "closed" /\ r \notin Coils THEN SelfDialed
                                                          ELSE {conn}
  /\ Goto(Poll, "read")
  /\ UNCHANGED <<PollVars, alias, offline>>

PollReadOk ==
  /\ AtPoll("read")
  /\ Deliverable(cycle.cur)
  /\ cycle' = [cycle EXCEPT !.buf[cycle.cur] = device[cycle.cur],
                            !.got = @ \cup {cycle.cur}, !.cur = None]
  /\ Goto(Poll, "next")
  /\ UNCHANGED <<PollVars, link>>

\* "Illegal data address": the chunk is given up at once.
PollReadMissing ==
  /\ AtPoll("read")
  /\ ~calm
  /\ Deliverable(cycle.cur)
  /\ cycle' = [cycle EXCEPT !.cur = None]
  /\ Goto(Poll, "next")
  /\ UNCHANGED <<PollVars, link>>

\* How an attempt raises: with a ConnectionException (lost) or another error,
\* which resets the connection or does not.  A timeout and an I/O error do; an
\* error response does when it is tried again, for it is raised as a
\* ModbusIOException, and does not at the last attempt; a request without a
\* response never does.  The model allows both of another error at any attempt.
Raises(lost, resets) ==
  /\ lost => resets
  /\ IF Deliverable(cycle.cur) THEN ~calm ELSE lost

LinkAfter(resets) == IF resets THEN Raised(cycle.cur) ELSE UNCHANGED link

\* Another attempt, after disconnect_and_reconnect_for_retry unless the error was
\* a plain ModbusException.
PollRetry(resets) ==
  /\ cycle.attempt < Retry
  /\ cycle' = [cycle EXCEPT !.attempt = @ + 1]
  /\ IF resets THEN Disconnect /\ CycleGoesOn("rconn")
               ELSE UNCHANGED link /\ CycleGoesOn("read")

\* Mutant of PollFallback: the fallback falls back to itself.
PollFallbackAgain(lost, resets) ==
  /\ cycle.attempt = Retry
  /\ cycle.phase = "holding" /\ ~lost
  /\ cycle' = [cycle EXCEPT !.attempt = 1]
  /\ IF resets THEN /\ conn' \in SelfDialed
                    /\ alias' = StaleAlias
                    /\ UNCHANGED offline
               ELSE UNCHANGED link
  /\ CycleGoesOn("read")

\* A holding chunk that failed is read one by one; a reset transport dials by
\* itself for that.
PollFallback(lost, resets) ==
  /\ cycle.attempt = Retry
  /\ cycle.phase = "holding" /\ ~lost /\ ~cycle.single
  /\ cycle' = [cycle EXCEPT !.single = TRUE, !.attempt = 1]
  /\ IF resets THEN /\ conn' \in SelfDialed
                    /\ alias' = StaleAlias
                    /\ UNCHANGED offline
               ELSE UNCHANGED link
  /\ CycleGoesOn("read")

\* An input chunk that failed, or a holding chunk whose fallback did, is left
\* out of the result.
PollLeaveOut(lost, resets) ==
  /\ cycle.attempt = Retry
  /\ ~lost
  /\ cycle.phase = "input" \/ (cycle.phase = "holding" /\ cycle.single)
  /\ cycle' = [cycle EXCEPT !.cur = None]
  /\ LinkAfter(resets)
  /\ CycleGoesOn("next")

\* A lost connection, or any error of a coil chunk, ends the cycle.
PollReadFails(lost, resets) ==
  /\ cycle.attempt = Retry
  /\ lost \/ cycle.phase = "coil"
  /\ \E modbus \in BOOLEAN : /\ lost => modbus
                             /\ CycleFails(modbus, LinkAfter(resets))

PollReadRaises ==
  /\ AtPoll("read")
  /\ \E lost, resets \in BOOLEAN :
       /\ Raises(lost, resets)
       /\ \/ PollRetry(resets) \/ PollFallback(lost, resets)
          \/ PollLeaveOut(lost, resets) \/ PollReadFails(lost, resets)
  /\ UNCHANGED <<truth, write, stopping, scanner, calm>>

\* A failed reconnect is only logged: the next attempt will raise.
PollRetryConnect == /\ AtPoll("rconn")
                    /\ Dialed \/ DialFailed
                    /\ Goto(Poll, "read")
                    /\ UNCHANGED <<PollVars, cycle>>

\* A connection lost during the reads is dialled again before publishing.
PollFinal ==
  /\ AtPoll("next")
  /\ cycle.phase = "coil" /\ cycle.todo = {}
  /\ IF conn = "up"
       THEN CycleSucceeds /\ offline' = FALSE /\ UNCHANGED <<conn, alias>>
       ELSE CycleGoesOn("fconn") /\ Disconnect /\ UNCHANGED cycle
  /\ UNCHANGED <<truth, write, stopping, scanner, calm>>

PollFinalConnect ==
  /\ AtPoll("fconn")
  /\ \/ Dialed /\ CycleSucceeds
     \/ ~calm /\ \E modbus \in BOOLEAN : CycleFails(modbus, DialFailed)
  /\ UNCHANGED <<truth, write, stopping, scanner, calm>>

\* The task is cancelled.  Waiting for the lock it is outside the try, whose
\* finally resets the flag; inside, the connection is closed.
PollCancelQueued ==
  /\ ~calm
  /\ LeaveQueue(Poll)
  /\ UNCHANGED <<PollVars, cycle>>

PollCancel ==
  /\ pc[Poll] \in {"connect", "next", "read", "rconn", "fconn"}
  /\ ~calm
  /\ Disconnect
  /\ FinishCycle
  /\ UNCHANGED <<view, truth, write, stopping, failures, scanner, calm>>

PollSteps == \/ PollStart \/ PollConnect \/ PollNextPhase \/ PollNextChunk
             \/ PollReadOk \/ PollReadMissing \/ PollReadRaises
             \/ PollRetryConnect \/ PollFinal \/ PollFinalConnect
-----------------------------------------------------------------------------
\* A write: async_write_register of a single holding register or a coil.

\* What a step of a write that reaches no register leaves alone.
WriterVars == <<truth, view, cycle, updating, stopping, failures, scanner, calm>>

\* Mutant of WriteStart: the write does not wait for the lock.
HastyWriteStart(w, r, readback) ==
  /\ pc[w] = "idle"
  /\ readback => r \in Holding
  /\ Enter(w) /\ UNCHANGED waiters
  /\ write' = [write EXCEPT ![w] = [reg |-> r, readback |-> readback,
                                    attempt |-> 1]]
  /\ UNCHANGED WriterVars

WriteStart(w, r, readback) ==
  /\ pc[w] = "idle"
  /\ readback => r \in Holding     \* the read-back allow-list
  /\ Acquire(w)
  /\ write' = [write EXCEPT ![w] = [reg |-> r, readback |-> readback,
                                    attempt |-> 1]]
  /\ UNCHANGED WriterVars

\* Mutant of EndWrite: the lock is not released.
LeakyEndWrite(w) == /\ Goto(w, "idle")
                    /\ write' = [write EXCEPT ![w] = NoWrite]

EndWrite(w) == /\ Release(w)
               /\ write' = [write EXCEPT ![w] = NoWrite]

WriteConnect(w) ==
  /\ pc[w] = "connect"
  /\ \/ Dialed /\ Goto(w, "attempt") /\ UNCHANGED write
     \/ DialFailed /\ EndWrite(w)
  /\ UNCHANGED WriterVars

\* The device answers: the write is applied and confirmed.
WriteAcked(w) ==
  LET r == write[w].reg IN
  /\ pc[w] = "attempt"
  /\ Deliverable(r)
  /\ device' = [device EXCEPT ![r] = Bump(@)]
  /\ acked' = [acked EXCEPT ![r] = Bump(device[r])]
  /\ IF write[w].readback THEN Goto(w, "readback") /\ UNCHANGED write
                          ELSE EndWrite(w)
  /\ UNCHANGED <<link, view, cycle, updating, stopping, failures, scanner, calm>>

\* Mutant of NextAttempt: one attempt too many.
NextAttemptOnceMore(w) ==
  /\ write[w].attempt <= Retry
  /\ write' = [write EXCEPT ![w].attempt = @ + 1]
  /\ Goto(w, "attempt")

NextAttempt(w) == /\ write[w].attempt < Retry
                  /\ write' = [write EXCEPT ![w].attempt = @ + 1]
                  /\ Goto(w, "attempt")

LastAttemptOver(w) == write[w].attempt = Retry /\ EndWrite(w)

\* An error response, or a coil without an alias: its placeholder method answers
\* nothing.  Nothing is closed before the next attempt.
WriteRefused(w) ==
  LET r == write[w].reg IN
  /\ pc[w] = "attempt"
  /\ \/ Deliverable(r) /\ ~calm
     \/ conn = "up" /\ r \in Coils /\ alias = "none"
  /\ NextAttempt(w) \/ LastAttemptOver(w)
  /\ UNCHANGED <<WriterVars, link>>

\* The attempt raises, its write applied or not.  The connection is closed, and
\* the next attempt makes the transport dial by itself; an OSError ends the
\* write.
WriteRaises(w) ==
  LET r == write[w].reg
      Undeliverable == ~Deliverable(r)
                         /\ ~(conn = "up" /\ r \in Coils /\ alias = "none") IN
  /\ pc[w] = "attempt"
  /\ \/ Undeliverable /\ UNCHANGED device
     \/ /\ Deliverable(r) /\ ~calm
        /\ device' \in {device, [device EXCEPT ![r] = Bump(@)]}
  /\ alias' = "none"
  /\ offline' = TRUE
  /\ \/ NextAttempt(w) /\ conn' \in SelfDialed
     \/ LastAttemptOver(w) /\ conn' = "closed"
     \/ EndWrite(w) /\ ~calm /\ conn' = "closed"
  /\ UNCHANGED <<acked, view, cycle, updating, stopping, failures, scanner, calm>>

\* The targeted read-back, under the same lock; its result is published in the
\* step that releases the lock.
WriteReadback(w) ==
  LET r == write[w].reg IN
  /\ pc[w] = "readback"
  /\ Deliverable(r)
  /\ shown' = [shown EXCEPT ![r] = device[r]]
  /\ present' = [present EXCEPT ![r] = TRUE]
  /\ lastOk' = TRUE
  /\ EndWrite(w)
  /\ UNCHANGED <<link, truth, cycle, updating, stopping, failures, scanner, calm>>

WriteReadbackFails(w) ==
  LET r == write[w].reg IN
  /\ pc[w] = "readback"
  /\ \/ Reset /\ (Deliverable(r) => ~calm)
     \/ UNCHANGED link /\ Deliverable(r) /\ ~calm
  /\ EndWrite(w)
  /\ UNCHANGED WriterVars

WriteCancelQueued(w) ==
  /\ ~calm
  /\ LeaveQueue(w)
  /\ write' = [write EXCEPT ![w] = NoWrite]
  /\ UNCHANGED WriterVars

\* A cancelled request resets the transport; the write may have been applied.
WriteCancel(w) ==
  LET r == write[w].reg IN
  /\ ~calm
  /\ \/ pc[w] = "connect" /\ DialCut /\ UNCHANGED device
     \/ pc[w] \in {"attempt", "readback"} /\ Reset /\ UNCHANGED device
     \/ /\ pc[w] = "attempt" /\ Reset
        /\ Deliverable(r)
        /\ device' = [device EXCEPT ![r] = Bump(@)]
  /\ EndWrite(w)
  /\ UNCHANGED <<acked, view, cycle, updating, stopping, failures, scanner, calm>>

WriterSteps(w) ==
  \/ WriteConnect(w) \/ WriteAcked(w) \/ WriteRefused(w) \/ WriteRaises(w)
  \/ WriteReadback(w) \/ WriteReadbackFails(w)
-----------------------------------------------------------------------------
\* The diagnostic scan service (_scan_with_polling_paused): it takes the lock,
\* closes the primary connection, scans over a connection of its own, closes
\* that and restores the primary.

ScanVars == <<view, truth, cycle, write, updating, stopping, failures, calm>>
AtScan(label) == Scan \in Background /\ pc[Scan] = label

ScanStart == /\ AtScan("idle")
             /\ Acquire(Scan)
             /\ UNCHANGED <<ScanVars, scanner>>

ScanOpen == /\ AtScan("scan")
            /\ ~scanner
            /\ scanner' = TRUE
            /\ UNCHANGED <<ScanVars, control, link>>

\* Mutant of ScanEnd: the primary is restored before the scanner is closed.
ScanRestoreFirst == /\ AtScan("scan")
                    /\ scanner \/ ~calm
                    /\ Dialed \/ DialFailed
                    /\ Release(Scan)
                    /\ UNCHANGED <<ScanVars, scanner>>

\* The scan ends, fails or is cancelled, opened or not: the finally clauses
\* close the scanner and ensure the primary connection.
ScanEnd == /\ AtScan("scan")
           /\ scanner \/ ~calm
           /\ scanner' = FALSE
           /\ IF conn = "up" THEN Release(Scan) /\ UNCHANGED link
                             ELSE /\ Goto(Scan, "srconn")
                                  /\ IF conn = "none" THEN UNCHANGED link
                                                      ELSE Disconnect
           /\ UNCHANGED ScanVars

\* The service call ends, with an error if the primary could not be restored.
ScanRestored == /\ AtScan("srconn")
                /\ Dialed \/ DialFailed
                /\ Release(Scan)
                /\ UNCHANGED <<ScanVars, scanner>>

ScanCancel == /\ ~calm
              /\ \/ Scan \in Background /\ LeaveQueue(Scan)
                 \/ AtScan("srconn") /\ Release(Scan) /\ DialCut
              /\ UNCHANGED <<ScanVars, scanner>>

ScanSteps == ScanOpen \/ ScanEnd \/ ScanRestored
-----------------------------------------------------------------------------
\* async_shutdown: it takes the client lock, never _write_lock.

StopVars == <<view, truth, cycle, write, updating, failures, scanner, calm>>
AtStop(label) == Stop \in Background /\ pc[Stop] = label

StopStart == /\ AtStop("idle")
             /\ stopping' = TRUE
             /\ Goto(Stop, "closing")
             /\ UNCHANGED <<StopVars, link>>

\* _client_lock is held for as long as somebody dials.
ClientLockFree == \A t \in Tasks : pc[t] \notin Dialing

StopDisconnect == /\ AtStop("closing")
                  /\ ClientLockFree
                  /\ Disconnect
                  /\ Goto(Stop, "done")
                  /\ UNCHANGED <<StopVars, stopping>>

StopSteps == StopStart \/ StopDisconnect
-----------------------------------------------------------------------------
\* The surroundings.

EnvVars == <<control, view, acked, cycle, write, updating, stopping, failures,
             scanner>>

\* A register changes by itself or at the wall panel.
Modify(r) == /\ device' = [device EXCEPT ![r] = Bump(@)]
             /\ UNCHANGED <<EnvVars, link, calm>>

\* The link is lost; pymodbus may dial it again by itself.
LinkDrop == /\ ~calm
            /\ conn = "up"
            /\ conn' = "dropped"
            /\ UNCHANGED <<EnvVars, alias, offline, device, calm>>
Redial == /\ conn = "dropped"
          /\ conn' = "up"
          /\ UNCHANGED <<EnvVars, alias, offline, device, calm>>

\* From here on the unit and the network work, and nobody cancels.
Settle == /\ ~calm
          /\ calm' = TRUE
          /\ UNCHANGED <<EnvVars, link, device>>
-----------------------------------------------------------------------------
Next ==
  \/ Grant
  \/ PollSteps \/ PollCancelQueued \/ PollCancel
  \/ \E w \in Writers :
       \/ \E r \in Writable, readback \in BOOLEAN : WriteStart(w, r, readback)
       \/ WriterSteps(w) \/ WriteCancelQueued(w) \/ WriteCancel(w)
  \/ ScanStart \/ ScanSteps \/ ScanCancel
  \/ StopSteps
  \/ LinkDrop \/ Redial
  \/ \E r \in Registers : Modify(r)

Spec == Init /\ [][Next]_vars

\* The event loop runs every ready task and the scheduled poll, and a request
\* ends with an answer or a timeout; no fairness is asked of the network.
Fairness == /\ WF_vars(Grant)
            /\ WF_vars(PollSteps)
            /\ \A w \in Writers : WF_vars(WriterSteps(w))
            /\ WF_vars(ScanSteps)
            /\ WF_vars(StopDisconnect)

FairSpec == Spec /\ Fairness

\* The same, where faults and cancellations may end.
SettlingSpec == Init /\ [][Next \/ Settle]_vars /\ Fairness
-----------------------------------------------------------------------------
\* Properties.

\* Every task inside its critical section holds _write_lock and no task outside
\* it does: no exchange of two tasks interleaves, and no error path, retry or
\* cancellation leaks the lock or lets a task go on without it.
Critical(t) == t # Stop /\ pc[t] \notin {"idle", "queued"}
WriteLockOwner == \A t \in Tasks : Critical(t) <=> holder = t

\* The queue holds exactly the tasks that wait, each once.
QueueIsWaiters ==
  /\ \A t \in Tasks : pc[t] = "queued" <=> \E i \in DOMAIN waiters : waiters[i] = t
  /\ \A i, j \in DOMAIN waiters : waiters[i] = waiters[j] => i = j

\* The scanner has the device for itself ("This prevents concurrent Modbus
\* clients"): while its connection is open the primary has no client object,
\* not even one that could redial.
SingleEndpoint == scanner => conn \in {"none", "closed"}

\* The flag that keeps cycles from overlapping is up exactly while one runs
\* ("Reset runtime update flag after a cycle completes or fails").
UpdateFlagMatchesCycle == updating <=> pc[Poll] # "idle"

\* A cycle gives up for want of a connection ("Modbus client is not connected")
\* only when there is none.
FailsOnlyUnconnected ==
  [][PollNextPhase /\ pc'[Poll] = "idle" => conn # "up"]_vars

\* "Shutdown coordinator and disconnect": when the shutdown is done and every
\* task has ended, no connection is left open.
ShutdownDisconnects ==
  (Stop \in Background /\ pc[Stop] = "done"
     /\ \A t \in Tasks \ {Stop} : pc[t] = "idle") => conn # "up"

\* What the entities see implements RegisterView: a poll never publishes a value
\* older than a confirmed write or than a value already shown, and a read-back
\* publishes what the device has, whatever is retried, cancelled or reset.
View == INSTANCE RegisterView WITH truth <- device
ViewSpec == View!Spec

\* Whoever asks for the device is served or turned away: no task stays in or
\* before its critical section for ever, under any faults.
TaskEnds(t) == pc[t] # "idle" ~> pc[t] = "idle"
TasksEnd == \A t \in Tasks \ {Stop} : TaskEnds(t)

\* Once faults and cancellations end, the entities come to show every register
\* as the device has it and go on doing so, provided the update flag was not
\* left up: no connection state is left behind from which polls fail for ever.
FlagLeftUp == updating /\ pc[Poll] = "idle"
ShowsDevice == lastOk /\ \A r \in Registers : present[r] /\ shown[r] = device[r]
Converges == <>[](calm /\ ~FlagLeftUp) => <>[]ShowsDevice
=============================================================================
