------------------------- MODULE DeviceAccess_proofs -------------------------
(***************************************************************************)
(* Proofs about DeviceAccess: type correctness, mutual exclusion under     *)
(* _write_lock, the scanner's exclusive access, and that DeviceAccess      *)
(* implements RegisterView.                                                *)
(***************************************************************************)
EXTENDS DeviceAccess, SequenceTheorems, TLAPS

(***************************************************************************)
(* Type correctness, one lemma per group of actions.  TypeOK is not        *)
(* inductive: a chunk answered while no chunk is being read would put None *)
(* among the registers read.  TypeInv adds that a poll that waits for an   *)
(* answer has a chunk.  Grant needs the queue of waiters to hold no Stop:  *)
(* StepTypes completes the step with LockInv.                              *)
(***************************************************************************)

\* Taking the i-th waiter out of the queue (a cancelled waiter) shifts the
\* ones behind it forward.
LEMMA RemoveAtProperties ==
  ASSUME NEW S, NEW s \in Seq(S), NEW i \in 1..Len(s)
  PROVE  /\ RemoveAt(s, i) \in Seq(S)
         /\ Len(RemoveAt(s, i)) = Len(s) - 1
         /\ \A j \in 1..(Len(s) - 1) :
              RemoveAt(s, i)[j] = IF j < i THEN s[j] ELSE s[j + 1]
<1> DEFINE a == SubSeq(s, 1, i-1)
           b == SubSeq(s, i+1, Len(s))
<1>0. Len(s) \in Nat /\ i \in Nat /\ i >= 1 /\ i <= Len(s)
  BY LenProperties
<1>e. \A j \in 1..Len(s) : s[j] \in S
  BY ElementOfSeq
<1>1. /\ a \in Seq(S)
      /\ Len(a) = i - 1
      /\ \A j \in 1..(i - 1) : a[j] = s[j]
  <2>1. \A j \in 1..(i - 1) : s[j] \in S
    BY <1>0, <1>e
  <2>2. /\ a \in Seq(S)
        /\ Len(a) = IF 1 <= i - 1 THEN (i - 1) - 1 + 1 ELSE 0
        /\ \A j \in 1..((i - 1) - 1 + 1) : a[j] = s[1 + j - 1]
    BY <1>0, <2>1, SubSeqProperties
  <2> HIDE DEF a
  <2>3. QED
    BY <2>2, <1>0
<1>2. /\ b \in Seq(S)
      /\ Len(b) = Len(s) - i
      /\ \A j \in 1..(Len(s) - i) : b[j] = s[i + j]
  <2>1. \A j \in (i + 1)..Len(s) : s[j] \in S
    BY <1>0, <1>e
  <2>2. /\ b \in Seq(S)
        /\ Len(b) = IF i + 1 <= Len(s) THEN Len(s) - (i + 1) + 1 ELSE 0
        /\ \A j \in 1..(Len(s) - (i + 1) + 1) : b[j] = s[(i + 1) + j - 1]
    BY <1>0, <2>1, SubSeqProperties
  <2> HIDE DEF b
  <2>3. QED
    BY <2>2, <1>0
<1>3. RemoveAt(s, i) = a \o b
  BY DEF RemoveAt
<1> HIDE DEF a, b
<1>4. /\ a \o b \in Seq(S)
      /\ Len(a \o b) = Len(a) + Len(b)
      /\ \A j \in 1..(Len(a) + Len(b)) :
           (a \o b)[j] = IF j <= Len(a) THEN a[j] ELSE b[j - Len(a)]
  BY <1>1, <1>2, ConcatProperties
<1>5. ASSUME NEW j \in 1..(Len(s) - 1)
      PROVE  RemoveAt(s, i)[j] = IF j < i THEN s[j] ELSE s[j + 1]
  <2>1. CASE j < i
    BY <2>1, <1>0, <1>1, <1>2, <1>3, <1>4
  <2>2. CASE j >= i
    <3>1. RemoveAt(s, i)[j] = b[j - (i - 1)]
      BY <2>2, <1>0, <1>1, <1>2, <1>3, <1>4, SMTT(30)
    <3>2. b[j - (i - 1)] = s[i + (j - (i - 1))]
      BY <2>2, <1>0, <1>2
    <3>3. QED
      BY <2>2, <3>1, <3>2, <1>0
  <2>3. QED
    BY <2>1, <2>2, <1>0
<1>6. QED
  BY <1>0, <1>1, <1>2, <1>3, <1>4, <1>5

\* The tasks are pairwise different and None is not one of them.
LEMMA TaskKinds ==
  /\ Poll \in Tasks
  /\ \A w \in Writers : w \in Tasks /\ w \notin {Poll, Scan, Stop}
  /\ Scan \in Background => Scan \in Tasks
  /\ Stop \in Background => Stop \in Tasks
  /\ None \notin Tasks
BY TasksAssumption DEF Tasks, Poll, Scan, Stop

\* Every way a disconnect, a reset or a dial ends leaves a legal connection.
LEMMA LinkSteps ==
  ASSUME LinkOK, \/ Disconnect \/ Reset \/ Dialed \/ DialFailed \/ DialCut
                 \/ UNCHANGED link
  PROVE  LinkOK'
BY
   DEF LinkOK, Disconnect, Reset, Dialed, DialFailed, DialCut, link,
       StaleAlias, Undialed

\* The suspension points of each kind of task.
LEMMA LabelsOf ==
  /\ Labels(Poll) = PollLabels
  /\ \A w \in Writers : Labels(w) = WriterLabels
  /\ Labels(Scan) = ScanLabels
  /\ Labels(Stop) = StopLabels
  /\ \A t \in Tasks : Labels(t) \subseteq AllLabels
  /\ \A t \in Tasks : "idle" \in Labels(t)
BY TaskKinds
   DEF Labels, Poll, Scan, Stop, Tasks, PollLabels, WriterLabels, ScanLabels,
       StopLabels, AllLabels

\* A task that moves to one of its own suspension points stays well typed.
LEMMA GotoControl ==
  ASSUME ControlOK, NEW t \in Tasks, NEW label \in Labels(t), Goto(t, label)
  PROVE  ControlOK'
BY LabelsOf DEF ControlOK, Goto

\* So does a task that releases the lock.
LEMMA ReleaseControl ==
  ASSUME ControlOK, NEW t \in Tasks, Release(t)
  PROVE  ControlOK'
BY LabelsOf DEF ControlOK, Release

\* Entering the critical section leads to a suspension point of that task.
LEMMA EnterTypes ==
  ASSUME ControlOK, LinkOK, NEW t \in Tasks, t # Stop, waiters' \in Seq(Tasks), Enter(t)
  PROVE  ControlOK' /\ LinkOK'
<1>1. pc'[t] \in Labels(t) /\ pc' = [pc EXCEPT ![t] = pc'[t]]
  BY LabelsOf, TaskKinds
     DEF ControlOK, Enter, Labels, PollLabels, WriterLabels, ScanLabels
<1>2. ControlOK'
  BY <1>1, LabelsOf DEF ControlOK, Enter
<1>3. LinkOK'
  BY LinkSteps DEF Enter
<1>4. QED
  BY <1>2, <1>3

\* Asking for the lock enters or queues.
LEMMA AcquireTypes ==
  ASSUME ControlOK, LinkOK, NEW t \in Tasks, t # Stop, Acquire(t)
  PROVE  ControlOK' /\ LinkOK'
<1>1. CASE holder = None /\ waiters = <<>>
  BY <1>1, EnterTypes DEF Acquire, ControlOK
<1>2. CASE ~(holder = None /\ waiters = <<>>)
  <2>1. "queued" \in Labels(t)
    BY TaskKinds DEF Labels, PollLabels, WriterLabels, ScanLabels
  <2>2. waiters' \in Seq(Tasks)
    BY <1>2, AppendProperties DEF Acquire, ControlOK
  <2>3. ControlOK'
    BY <1>2, <2>1, <2>2, LabelsOf DEF Acquire, ControlOK
  <2>4. QED
    BY <1>2, <2>3, LinkSteps DEF Acquire, link
<1>3. QED
  BY <1>1, <1>2

\* A cancelled waiter leaves a queue of tasks.
LEMMA LeaveQueueTypes ==
  ASSUME ControlOK, LinkOK, NEW t \in Tasks, LeaveQueue(t)
  PROVE  ControlOK' /\ LinkOK'
<1>1. PICK i \in DOMAIN waiters : waiters' = RemoveAt(waiters, i)
  BY DEF LeaveQueue
<1>2. waiters' \in Seq(Tasks)
  BY <1>1, RemoveAtProperties, LenProperties DEF ControlOK
<1>3. ControlOK'
  BY <1>2, LabelsOf DEF LeaveQueue, ControlOK
<1>4. QED
  BY <1>3, LinkSteps DEF LeaveQueue, link

\* A poll that waits for an answer, or reconnects before asking again, has a
\* chunk it reads.
ReadsChunk == pc[Poll] \in {"read", "rconn"} => cycle.cur \in Registers
TypeInv == TypeOK /\ ReadsChunk

\* The locals of a task that is not running are well typed.
LEMMA NoLocals == NoCycle \in Cycles /\ NoWrite \in Writes
  BY BoundsAssumption DEF NoCycle, NoWrite, Cycles, Writes, Phases, Version

\* The initial state is well typed.
LEMMA InitTypes == Init => TypeInv
<1> SUFFICES ASSUME Init PROVE TypeInv
  OBVIOUS
<1>1. ControlOK
  BY LabelsOf, EmptySeq DEF Init, ControlOK
<1>2. LocalsOK
  BY NoLocals DEF Init, LocalsOK
<1>f. 0 \in 0..MaxFailures
  BY BoundsAssumption
<1>3. LinkOK /\ FlagsOK
  BY <1>f DEF Init, LinkOK, FlagsOK
<1>4. ViewOK /\ TruthOK
  BY BoundsAssumption DEF Init, ViewOK, TruthOK, Version
<1>5. ReadsChunk
  BY TaskKinds DEF Init, ReadsChunk
<1>6. QED
  BY <1>1, <1>2, <1>3, <1>4, <1>5 DEF TypeInv, TypeOK

\* The end of a cycle, in whatever way.
LEMMA FinishTypes ==
  ASSUME TypeOK, FinishCycle
  PROVE  ControlOK' /\ cycle' \in Cycles /\ updating' \in BOOLEAN /\ ReadsChunk'
BY ReleaseControl, NoLocals, TaskKinds
   DEF FinishCycle, TypeOK, LocalsOK, FlagsOK, ReadsChunk, Release, ControlOK

\* A scheduled refresh: skipped, entered or queued.
LEMMA PollStartTypes ==
  ASSUME TypeInv, PollStart  PROVE TypeInv'
<1>1. ControlOK' /\ LinkOK'
  BY AcquireTypes, TaskKinds
     DEF TypeInv, TypeOK, PollStart, link, control, ControlOK, LinkOK, Poll,
         Stop
<1>2. ReadsChunk'
  BY TaskKinds
     DEF TypeInv, TypeOK, PollStart, ReadsChunk, Acquire, Enter, control,
         Poll, ControlOK, AtPoll, Scan
<1>3. QED
  BY <1>1, <1>2
     DEF TypeInv, TypeOK, PollStart, LocalsOK, FlagsOK, ViewOK, TruthOK,
         truth, ReadsChunk

\* A step inside the cycle that gives up nothing.
LEMMA GoesOnTypes ==
  ASSUME TypeInv, NEW label \in PollLabels, CycleGoesOn(label),
         cycle' \in Cycles,
         label \in {"read", "rconn"} => cycle'.cur \in Registers,
         LinkOK', UNCHANGED <<truth, write, stopping, scanner, calm>>
  PROVE  TypeInv'
<1>1. ControlOK'
  BY GotoControl, LabelsOf, TaskKinds DEF CycleGoesOn, TypeInv, TypeOK
<1>2. ReadsChunk'
  BY TaskKinds DEF CycleGoesOn, Goto, ReadsChunk, TypeInv, TypeOK, ControlOK
<1>3. QED
  BY <1>1, <1>2 DEF CycleGoesOn, TypeInv, TypeOK, LocalsOK, FlagsOK, ViewOK,
                    TruthOK, truth, view

\* A successful cycle publishes what it has read.
LEMMA CycleSucceedsTypes ==
  ASSUME TypeInv, CycleSucceeds, LinkOK',
         UNCHANGED <<truth, write, stopping, scanner, calm>>
  PROVE  TypeInv'
<1>1. ControlOK' /\ cycle' \in Cycles /\ updating' \in BOOLEAN /\ ReadsChunk'
  BY FinishTypes DEF CycleSucceeds, TypeInv
<1>2. ViewOK'
  BY DEF CycleSucceeds, TypeInv, TypeOK, ViewOK, LocalsOK, Cycles
<1>3. failures' \in 0..MaxFailures
  BY BoundsAssumption DEF CycleSucceeds
<1>4. QED
  BY <1>1, <1>2, <1>3 DEF TypeInv, TypeOK, LocalsOK, FlagsOK, TruthOK, truth

\* A failed cycle counts the failure.
LEMMA FailedCycleTypes ==
  ASSUME TypeInv, FinishCycle, failures' \in {failures, MoreFailures},
         lastOk' = FALSE, UNCHANGED <<shown, present>>, LinkOK',
         UNCHANGED <<truth, write, stopping, scanner, calm>>
  PROVE  TypeInv'
<1>1. failures' \in 0..MaxFailures
  BY BoundsAssumption DEF TypeInv, TypeOK, FlagsOK, MoreFailures
<1>2. ControlOK' /\ cycle' \in Cycles /\ updating' \in BOOLEAN /\ ReadsChunk'
  BY FinishTypes DEF TypeInv
<1>3. QED
  BY <1>1, <1>2 DEF TypeInv, TypeOK, LocalsOK, FlagsOK, ViewOK, TruthOK, truth

\* The dial before the reads.
LEMMA PollConnectTypes ==
  ASSUME TypeInv, PollConnect
  PROVE  TypeInv'
<1>1. CASE Dialed /\ CycleGoesOn("next") /\ UNCHANGED cycle
  BY <1>1, GoesOnTypes, LinkSteps
     DEF PollConnect, PollLabels, TypeInv, TypeOK, LocalsOK
<1>2. CASE ~calm /\ \E modbus \in BOOLEAN : CycleFails(modbus, DialFailed)
  BY <1>2, FailedCycleTypes, LinkSteps
     DEF PollConnect, CycleFails, TypeInv, TypeOK
<1>3. QED
  BY <1>1, <1>2 DEF PollConnect

\* The next register type.
LEMMA PollNextPhaseTypes ==
  ASSUME TypeInv, PollNextPhase
  PROVE  TypeInv'
<1>1. CASE CycleFails(TRUE, UNCHANGED link)
  BY <1>1, FailedCycleTypes, LinkSteps
     DEF PollNextPhase, CycleFails, TypeInv, TypeOK
<1>2. ASSUME NEW phase \in Phases, NEW todo \in SUBSET Registers,
             cycle' = [cycle EXCEPT !.phase = phase, !.todo = todo],
             CycleGoesOn("next"), UNCHANGED link
      PROVE  TypeInv'
  <2>1. cycle' \in Cycles
    BY <1>2 DEF TypeInv, TypeOK, LocalsOK, Cycles
  <2>2. QED
    BY <1>2, <2>1, GoesOnTypes, LinkSteps
       DEF PollNextPhase, PollLabels, TypeInv, TypeOK
<1>3. QED
  BY <1>1, <1>2 DEF PollNextPhase, Phases, Registers

\* The next chunk.
LEMMA PollNextChunkTypes ==
  ASSUME TypeInv, PollNextChunk
  PROVE  TypeInv'
<1>1. PICK r \in cycle.todo :
           /\ cycle' = [cycle EXCEPT !.todo = @ \ {r}, !.cur = r, !.attempt = 1,
                                     !.single = FALSE]
           /\ conn' \in IF conn = "closed" /\ r \notin Coils THEN SelfDialed
                                                              ELSE {conn}
  BY DEF PollNextChunk
<1>a. 1 \in 1..Retry
  BY BoundsAssumption
<1>2. r \in Registers /\ cycle' \in Cycles /\ cycle'.cur = r
  BY <1>1, <1>a DEF TypeInv, TypeOK, LocalsOK, Cycles
<1>3. LinkOK'
  BY <1>1 DEF PollNextChunk, TypeInv, TypeOK, LinkOK, SelfDialed
<1>4. QED
  BY <1>2, <1>3, GoesOnTypes
     DEF PollNextChunk, PollVars, CycleGoesOn, PollLabels

\* An answered read.
LEMMA PollReadOkTypes ==
  ASSUME TypeInv, PollReadOk
  PROVE  TypeInv'
<1>1. cycle.cur \in Registers
  BY DEF TypeInv, ReadsChunk, PollReadOk, AtPoll
<1>2. cycle' \in Cycles
  BY <1>1 DEF PollReadOk, TypeInv, TypeOK, LocalsOK, TruthOK, Cycles
<1>3. QED
  BY <1>2, GoesOnTypes, LinkSteps
     DEF PollReadOk, PollVars, CycleGoesOn, PollLabels, TypeInv, TypeOK

\* An "illegal data address" answer.
LEMMA PollReadMissingTypes ==
  ASSUME TypeInv, PollReadMissing
  PROVE  TypeInv'
<1>1. cycle' \in Cycles
  BY DEF PollReadMissing, TypeInv, TypeOK, LocalsOK, Cycles
<1>2. QED
  BY <1>1, GoesOnTypes, LinkSteps
     DEF PollReadMissing, PollVars, CycleGoesOn, PollLabels, TypeInv, TypeOK

\* What a failed attempt leaves of the connection.
LEMMA LinkAfterTypes ==
  ASSUME LinkOK, NEW resets, LinkAfter(resets)
  PROVE  LinkOK'
BY LinkSteps DEF LinkAfter, Raised

\* A failed attempt: retried, read one by one, left out, or fatal.
LEMMA PollReadRaisesTypes ==
  ASSUME TypeInv, PollReadRaises
  PROVE  TypeInv'
<1>1. /\ cycle \in Cycles
      /\ cycle.cur \in Registers
      /\ LinkOK
  BY DEF TypeInv, TypeOK, LocalsOK, ReadsChunk, PollReadRaises, AtPoll
<1>2. PICK lost, resets \in BOOLEAN :
           \/ PollRetry(resets) \/ PollFallback(lost, resets)
           \/ PollLeaveOut(lost, resets) \/ PollReadFails(lost, resets)
  BY DEF PollReadRaises
<1>3. UNCHANGED <<truth, write, stopping, scanner, calm>>
  BY DEF PollReadRaises
<1>4. CASE PollRetry(resets)
  <2>1. cycle' \in Cycles /\ cycle'.cur \in Registers
    BY <1>1, <1>4, BoundsAssumption DEF PollRetry, Cycles
  <2>2. LinkOK'
    BY <1>1, <1>4, LinkSteps DEF PollRetry
  <2>3. QED
    BY <1>3, <1>4, <2>1, <2>2, GoesOnTypes DEF PollRetry, PollLabels
<1>5. CASE PollFallback(lost, resets)
  <2>1. cycle' \in Cycles /\ cycle'.cur \in Registers
    <3>1. 1 \in 1..Retry
      BY BoundsAssumption
    <3>2. QED
      BY <1>1, <1>5, <3>1 DEF PollFallback, Cycles
  <2>2. LinkOK'
    BY <1>1, <1>5 DEF PollFallback, LinkOK, SelfDialed, StaleAlias, link
  <2>3. QED
    BY <1>3, <1>5, <2>1, <2>2, GoesOnTypes DEF PollFallback, PollLabels
<1>6. CASE PollLeaveOut(lost, resets)
  <2>1. cycle' \in Cycles
    BY <1>1, <1>6 DEF PollLeaveOut, Cycles
  <2>2. LinkOK'
    BY <1>1, <1>6, LinkAfterTypes DEF PollLeaveOut
  <2>3. QED
    BY <1>3, <1>6, <2>1, <2>2, GoesOnTypes DEF PollLeaveOut, PollLabels
<1>7. CASE PollReadFails(lost, resets)
  <2>1. /\ FinishCycle /\ failures' \in {failures, MoreFailures}
        /\ lastOk' = FALSE /\ UNCHANGED <<shown, present>>
    BY <1>7 DEF PollReadFails, CycleFails
  <2>2. LinkOK'
    BY <1>1, <1>7, LinkAfterTypes, LinkSteps DEF PollReadFails, CycleFails
  <2>3. QED
    BY <1>3, <2>1, <2>2, FailedCycleTypes
<1>8. QED
  BY <1>2, <1>4, <1>5, <1>6, <1>7

\* The dial before another attempt.
LEMMA PollRetryConnectTypes ==
  ASSUME TypeInv, PollRetryConnect
  PROVE  TypeInv'
BY GoesOnTypes, LinkSteps
   DEF PollRetryConnect, PollVars, CycleGoesOn, PollLabels, TypeInv, TypeOK,
       LocalsOK, ReadsChunk, AtPoll

\* The end of the reads, with or without a last dial.
LEMMA PollFinalTypes ==
  ASSUME TypeInv, PollFinal \/ PollFinalConnect
  PROVE  TypeInv'
<1>1. CASE CycleSucceeds
  <2>1. LinkOK'
    BY <1>1, TaskKinds DEF PollFinal, PollFinalConnect, TypeInv, TypeOK, LinkOK,
        CycleSucceeds, FinishCycle, Release, CycleGoesOn, Goto, Dialed, ControlOK, Disconnect, CycleFails
  <2>2. QED
    BY <1>1, <2>1, CycleSucceedsTypes DEF PollFinal, PollFinalConnect
<1>2. CASE CycleGoesOn("fconn") /\ Disconnect /\ UNCHANGED cycle
  BY <1>2, GoesOnTypes, LinkSteps
     DEF PollFinal, PollFinalConnect, PollLabels, TypeInv, TypeOK, LocalsOK
<1>3. CASE \E modbus \in BOOLEAN : CycleFails(modbus, DialFailed)
  BY <1>3, FailedCycleTypes, LinkSteps
     DEF PollFinal, PollFinalConnect, CycleFails, TypeInv, TypeOK
<1>4. QED
  BY <1>1, <1>2, <1>3 DEF PollFinal, PollFinalConnect

\* A cancelled poll, waiting or running.
LEMMA PollCancelTypes ==
  ASSUME TypeInv, PollCancelQueued \/ PollCancel
  PROVE  TypeInv'
<1>1. CASE PollCancelQueued
  <2>1. ControlOK' /\ LinkOK'
    BY <1>1, LeaveQueueTypes, TaskKinds DEF PollCancelQueued, TypeInv, TypeOK
  <2>2. ReadsChunk'
    BY <1>1, TaskKinds
       DEF PollCancelQueued, LeaveQueue, ReadsChunk, TypeInv, TypeOK, ControlOK
  <2>3. QED
    BY <1>1, <2>1, <2>2
       DEF PollCancelQueued, PollVars, truth, view, TypeInv, TypeOK, LocalsOK,
           FlagsOK, ViewOK, TruthOK
<1>2. CASE PollCancel
  BY <1>2, FinishTypes, LinkSteps
     DEF PollCancel, truth, view, TypeInv, TypeOK, LocalsOK, FlagsOK, ViewOK,
         TruthOK
<1>3. QED
  BY <1>1, <1>2

\* The end of a write, in whatever way.
LEMMA EndWriteTypes ==
  ASSUME TypeInv, NEW w \in Writers, EndWrite(w)
  PROVE  ControlOK' /\ write' \in [Writers -> Writes]
BY ReleaseControl, TaskKinds, NoLocals DEF EndWrite, TypeInv, TypeOK, LocalsOK

\* A step of another task leaves the poll with its chunk.
LEMMA PollStays ==
  ASSUME TypeInv, UNCHANGED cycle,
         NEW t \in Tasks, t # Poll, NEW label, pc' = [pc EXCEPT ![t] = label]
  PROVE  ReadsChunk'
BY TaskKinds DEF TypeInv, TypeOK, ControlOK, ReadsChunk

\* A step of a task other than the poll that publishes nothing.
LEMMA WriterTypes ==
  ASSUME TypeInv, ControlOK', LinkOK', write' \in [Writers -> Writes],
         device' \in [Registers -> Version], acked' \in [Registers -> Version],
         UNCHANGED <<cycle, updating, stopping, failures, scanner, calm, view>>,
         NEW t \in Tasks, t # Poll, NEW label, pc' = [pc EXCEPT ![t] = label]
  PROVE  TypeInv'
BY PollStays
   DEF TypeInv, TypeOK, LocalsOK, FlagsOK, ViewOK, TruthOK, view

\* Modification counts stay within their bound.
LEMMA BumpType == \A v \in Version : Bump(v) \in Version
BY BoundsAssumption DEF Bump, Version

\* A write that goes on.
LEMMA WriterMoves ==
  ASSUME TypeInv, NEW w \in Writers, NEW label \in WriterLabels, Goto(w, label)
  PROVE  ControlOK'
BY GotoControl, LabelsOf, TaskKinds DEF TypeInv, TypeOK

\* A write that asks for the lock.
LEMMA WriteStartTypes ==
  ASSUME TypeInv, NEW w \in Writers, NEW r \in Writable, NEW readback \in BOOLEAN,
         WriteStart(w, r, readback)
  PROVE  TypeInv'
<1>1. w \in Tasks /\ w # Poll /\ w # Stop /\ w # Scan
  BY TaskKinds
<1>2. ControlOK' /\ LinkOK'
  BY <1>1, AcquireTypes DEF WriteStart, TypeInv, TypeOK
<1>3. write' \in [Writers -> Writes]
  <2>1. 1 \in 1..Retry
    BY BoundsAssumption
  <2>2. QED
    BY <2>1 DEF WriteStart, TypeInv, TypeOK, LocalsOK, Writes
<1>4. pc' = [pc EXCEPT ![w] = pc'[w]]
  BY <1>1 DEF WriteStart, Acquire, Enter, TypeInv, TypeOK, ControlOK
<1>5. QED
  BY <1>1, <1>2, <1>3, <1>4, WriterTypes
     DEF WriteStart, WriterVars, truth, TypeInv, TypeOK, TruthOK

\* Another attempt is within the bound of the retry loop.
LEMMA NextAttemptTypes ==
  ASSUME TypeInv, NEW w \in Writers, NextAttempt(w)
  PROVE  ControlOK' /\ write' \in [Writers -> Writes]
<1>1. write[w].attempt + 1 \in 1..Retry
  BY BoundsAssumption DEF NextAttempt, TypeInv, TypeOK, LocalsOK, Writes
<1>2. write' \in [Writers -> Writes]
  BY <1>1 DEF NextAttempt, TypeInv, TypeOK, LocalsOK, Writes
<1>3. QED
  BY <1>2, WriterMoves DEF NextAttempt, WriterLabels

\* Every other step of a write.
LEMMA WriterStepTypes ==
  ASSUME TypeInv, NEW w \in Writers,
         WriterSteps(w) \/ WriteCancel(w) \/ WriteCancelQueued(w)
  PROVE  TypeInv'
<1>1. w \in Tasks /\ w # Poll
  BY TaskKinds
<1>2. /\ LinkOK /\ write \in [Writers -> Writes]
      /\ device \in [Registers -> Version] /\ acked \in [Registers -> Version]
  BY DEF TypeInv, TypeOK, LocalsOK, TruthOK
<1>3. CASE WriteConnect(w)
  <2>1. LinkOK'
    BY <1>2, <1>3, LinkSteps DEF WriteConnect
  <2>2. CASE Goto(w, "attempt") /\ UNCHANGED write
    BY <1>1, <1>2, <1>3, <2>1, <2>2, WriterMoves, WriterTypes
       DEF WriteConnect, WriterVars, truth, WriterLabels, Goto
  <2>3. CASE EndWrite(w)
    BY <1>1, <1>2, <1>3, <2>1, <2>3, EndWriteTypes, WriterTypes
       DEF WriteConnect, WriterVars, truth, EndWrite, Release
  <2>4. QED
    BY <1>3, <2>2, <2>3 DEF WriteConnect
<1>4. CASE WriteAcked(w)
  <2>1. device' \in [Registers -> Version] /\ acked' \in [Registers -> Version]
    BY <1>2, <1>4, BumpType DEF WriteAcked
  <2>2. LinkOK'
    BY <1>2, <1>4, LinkSteps DEF WriteAcked
  <2>3. CASE Goto(w, "readback") /\ UNCHANGED write
    BY <1>1, <1>2, <1>4, <2>1, <2>2, <2>3, WriterMoves, WriterTypes
       DEF WriteAcked, WriterLabels, Goto
  <2>4. CASE EndWrite(w)
    BY <1>1, <1>2, <1>4, <2>1, <2>2, <2>4, EndWriteTypes, WriterTypes
       DEF WriteAcked, EndWrite, Release
  <2>5. QED
    BY <1>4, <2>3, <2>4 DEF WriteAcked
<1>5. CASE WriteRefused(w)
  <2>1. LinkOK'
    BY <1>2, <1>5, LinkSteps DEF WriteRefused
  <2>2. CASE NextAttempt(w)
    BY <1>1, <1>2, <1>5, <2>1, <2>2, NextAttemptTypes, WriterTypes
       DEF WriteRefused, WriterVars, truth, NextAttempt, Goto
  <2>3. CASE EndWrite(w)
    BY <1>1, <1>2, <1>5, <2>1, <2>3, EndWriteTypes, WriterTypes
       DEF WriteRefused, WriterVars, truth, EndWrite, Release
  <2>4. QED
    BY <1>5, <2>2, <2>3 DEF WriteRefused, LastAttemptOver
<1>6. CASE WriteRaises(w)
  <2>1. LinkOK'
    BY <1>2, <1>6 DEF WriteRaises, LinkOK, SelfDialed
  <2>2. device' \in [Registers -> Version] /\ acked' \in [Registers -> Version]
    BY <1>2, <1>6, BumpType DEF WriteRaises
  <2>3. CASE NextAttempt(w)
    BY <1>1, <1>2, <1>6, <2>1, <2>2, <2>3, NextAttemptTypes, WriterTypes
       DEF WriteRaises, NextAttempt, Goto
  <2>4. CASE EndWrite(w)
    BY <1>1, <1>2, <1>6, <2>1, <2>2, <2>4, EndWriteTypes, WriterTypes
       DEF WriteRaises, EndWrite, Release
  <2>5. QED
    BY <1>6, <2>3, <2>4 DEF WriteRaises, LastAttemptOver
<1>7. CASE WriteReadback(w)
  <2>1. ControlOK' /\ write' \in [Writers -> Writes]
    BY <1>7, EndWriteTypes DEF WriteReadback
  <2>2. LinkOK'
    BY <1>2, <1>7, LinkSteps DEF WriteReadback
  <2>3. ViewOK'
    BY <1>2, <1>7 DEF WriteReadback, TypeInv, TypeOK, ViewOK
  <2>4. ReadsChunk'
    BY <1>1, <1>7, PollStays DEF WriteReadback, EndWrite, Release
  <2>5. QED
    BY <1>7, <2>1, <2>2, <2>3, <2>4
       DEF WriteReadback, truth, TypeInv, TypeOK, LocalsOK, FlagsOK, TruthOK
<1>8. CASE WriteReadbackFails(w)
  <2>1. LinkOK'
    BY <1>2, <1>8, LinkSteps DEF WriteReadbackFails
  <2>2. QED
    BY <1>1, <1>2, <1>8, <2>1, EndWriteTypes, WriterTypes
       DEF WriteReadbackFails, WriterVars, truth, EndWrite, Release
<1>9. CASE WriteCancelQueued(w)
  <2>1. ControlOK' /\ LinkOK'
    BY <1>1, <1>9, LeaveQueueTypes DEF WriteCancelQueued, TypeInv, TypeOK
  <2>2. write' \in [Writers -> Writes]
    BY <1>2, <1>9, NoLocals DEF WriteCancelQueued
  <2>3. QED
    BY <1>1, <1>2, <1>9, <2>1, <2>2, WriterTypes
       DEF WriteCancelQueued, WriterVars, truth, LeaveQueue
<1>10. CASE WriteCancel(w)
  <2>1. LinkOK'
    BY <1>2, <1>10, LinkSteps DEF WriteCancel
  <2>2. device' \in [Registers -> Version]
    BY <1>2, <1>10, BumpType DEF WriteCancel
  <2>3. QED
    BY <1>1, <1>2, <1>10, <2>1, <2>2, EndWriteTypes, WriterTypes
       DEF WriteCancel, EndWrite, Release
<1>11. QED
  BY <1>3, <1>4, <1>5, <1>6, <1>7, <1>8, <1>9, <1>10 DEF WriterSteps

\* The diagnostic scan.
LEMMA ScanTypes ==
  ASSUME TypeInv, ScanStart \/ ScanSteps \/ ScanCancel
  PROVE  TypeInv'
<1>1. Scan \in Tasks /\ Scan # Poll /\ Scan # Stop
  BY TaskKinds DEF ScanStart, ScanSteps, ScanCancel, ScanOpen, ScanEnd,
                   ScanRestored, AtScan, Scan, Poll, Stop
<1>2. LinkOK /\ ControlOK
  BY DEF TypeInv, TypeOK
<1>3. scanner' \in BOOLEAN
  BY DEF TypeInv, TypeOK, FlagsOK, ScanStart, ScanSteps, ScanCancel, ScanOpen,
         ScanEnd, ScanRestored
<1>4. UNCHANGED ScanVars
  BY DEF ScanStart, ScanSteps, ScanCancel, ScanOpen, ScanEnd, ScanRestored
<1>5. ControlOK' /\ LinkOK'
  <2>1. CASE ScanStart
    BY <1>1, <1>2, <2>1, AcquireTypes DEF ScanStart
  <2>2. CASE ScanOpen
    BY <1>2, <2>2, LinkSteps DEF ScanOpen, control, ControlOK
  <2>3. CASE ScanEnd
    BY <1>1, <1>2, <2>3, LinkSteps, ReleaseControl, GotoControl, LabelsOf
       DEF ScanEnd, ScanLabels
  <2>4. CASE ScanRestored
    BY <1>1, <1>2, <2>4, LinkSteps, ReleaseControl DEF ScanRestored
  <2>5. CASE ScanCancel
    BY <1>1, <1>2, <2>5, LinkSteps, ReleaseControl, LeaveQueueTypes
       DEF ScanCancel
  <2>6. QED
    BY <2>1, <2>2, <2>3, <2>4, <2>5 DEF ScanSteps
<1>6. pc' = [pc EXCEPT ![Scan] = pc'[Scan]]
  BY <1>1, <1>2
     DEF ScanStart, ScanSteps, ScanCancel, ScanOpen, ScanEnd, ScanRestored,
         Acquire, Enter, LeaveQueue, Release, Goto, control, ControlOK
<1>7. ReadsChunk'
  BY <1>1, <1>4, <1>6, PollStays DEF ScanVars
<1>8. QED
  BY <1>3, <1>4, <1>5, <1>7
     DEF ScanVars, truth, view, TypeInv, TypeOK, LocalsOK, FlagsOK, ViewOK,
         TruthOK

\* The shutdown.
LEMMA StopTypes ==
  ASSUME TypeInv, StopSteps
  PROVE  TypeInv'
<1>1. Stop \in Tasks /\ Stop # Poll
  BY TaskKinds DEF StopSteps, StopStart, StopDisconnect, AtStop, Stop, Poll
<1>2. LinkOK /\ ControlOK
  BY DEF TypeInv, TypeOK
<1>3. ControlOK' /\ LinkOK'
  BY <1>1, <1>2, GotoControl, LinkSteps, LabelsOf
     DEF StopSteps, StopStart, StopDisconnect, StopLabels
<1>4. ReadsChunk'
  BY <1>1, PollStays
     DEF StopSteps, StopStart, StopDisconnect, StopVars, Goto
<1>5. QED
  BY <1>3, <1>4
     DEF StopSteps, StopStart, StopDisconnect, StopVars, truth, view, TypeInv,
         TypeOK, LocalsOK, FlagsOK, ViewOK, TruthOK

\* The surroundings.
LEMMA EnvTypes ==
  ASSUME TypeInv, LinkDrop \/ Redial \/ \E r \in Registers : Modify(r)
  PROVE  TypeInv'
<1>1. LinkOK'
  BY DEF TypeInv, TypeOK, LinkOK, LinkDrop, Redial, Modify, link
<1>2. TruthOK'
  BY BumpType DEF TypeInv, TypeOK, TruthOK, LinkDrop, Redial, Modify, EnvVars
<1>3. QED
  BY <1>1, <1>2
     DEF LinkDrop, Redial, Modify, EnvVars, control, view, TypeInv, TypeOK,
         ControlOK, LocalsOK, FlagsOK, ViewOK, ReadsChunk

\* The wake-up of the first waiter.
LEMMA GrantTypes ==
  ASSUME TypeInv, Head(waiters) # Stop, Grant
  PROVE  TypeInv'
<1>1. Head(waiters) \in Tasks /\ waiters' \in Seq(Tasks)
  BY HeadTailProperties DEF Grant, TypeInv, TypeOK, ControlOK
<1>2. ControlOK' /\ LinkOK'
  BY <1>1, EnterTypes DEF Grant, TypeInv, TypeOK
<1>3. ReadsChunk'
  BY <1>1, TaskKinds
     DEF Grant, Enter, ReadsChunk, TypeInv, TypeOK, ControlOK
<1>4. QED
  BY <1>2, <1>3
     DEF Grant, truth, view, TypeInv, TypeOK, LocalsOK, FlagsOK, ViewOK, TruthOK

-----------------------------------------------------------------------------
(***************************************************************************)
(* Every step is one of a few moves of the tasks and the lock.  Each move  *)
(* keeps LockInv: the queue holds exactly the waiting tasks, each once,    *)
(* and the tasks inside their critical sections are exactly the holder.    *)
(* Mutual exclusion alone is not inductive: that a woken waiter is not     *)
(* inside already, and is not the shutdown, follows from the queue.        *)
(***************************************************************************)

\* The inductive part about the lock.
LockInv == QueueIsWaiters /\ WriteLockOwner

\* The moves a step can make with the tasks and the lock.
Stays(t) == /\ Critical(t)
            /\ \E label \in AllLabels \ {"idle", "queued"} : Goto(t, label)
Leaves(t) == Critical(t) /\ Release(t)
Joins(t) == t # Stop /\ pc[t] = "idle" /\ Acquire(t)
StopMoves == \E label \in StopLabels : Stop \in Tasks /\ Goto(Stop, label)
Move == \/ \E t \in Tasks : Stays(t) \/ Leaves(t) \/ Joins(t) \/ LeaveQueue(t)
        \/ StopMoves
        \/ Grant
        \/ UNCHANGED control

\* The shutdown never asks for _write_lock.
LEMMA StopNeverWaits ==
  ASSUME TypeInv, Stop \in Tasks
  PROVE  pc[Stop] # "queued"
BY LabelsOf DEF TypeInv, TypeOK, ControlOK, StopLabels

\* The waiter a released lock wakes waits, and is not the shutdown.
LEMMA FirstWaiter ==
  ASSUME TypeInv, QueueIsWaiters, waiters # <<>>
  PROVE  /\ Head(waiters) \in Tasks
         /\ Head(waiters) = waiters[1]
         /\ 1 \in DOMAIN waiters
         /\ pc[Head(waiters)] = "queued"
         /\ Head(waiters) # Stop
<1>1. waiters \in Seq(Tasks) /\ 1 \in DOMAIN waiters /\ Head(waiters) = waiters[1]
  BY EmptySeq, LenProperties DEF TypeInv, TypeOK, ControlOK
<1>2. Head(waiters) \in Tasks
  BY <1>1, HeadTailProperties, waiters # <<>>
<1>3. pc[Head(waiters)] = "queued"
  BY <1>1, <1>2 DEF QueueIsWaiters
<1>4. QED
  BY <1>1, <1>2, <1>3, StopNeverWaits

\* Every step of the poll is a move.
LEMMA PollMoves ==
  ASSUME TypeInv, PollSteps \/ PollCancelQueued \/ PollCancel
  PROVE  Move
<1> Poll \in Tasks /\ Poll # Stop
  BY TaskKinds DEF Poll, Stop
<1>1. CASE PollStart
  BY <1>1 DEF PollStart, Move, Joins, AtPoll, control
<1>2. ASSUME FinishCycle, pc[Poll] \in {"connect", "next", "read", "fconn", "rconn"}
      PROVE  Leaves(Poll)
  BY <1>2 DEF FinishCycle, Leaves, Critical
<1>3. ASSUME NEW label \in {"next", "read", "rconn", "fconn"}, CycleGoesOn(label),
             pc[Poll] \in {"connect", "next", "read", "fconn", "rconn"}
      PROVE  Stays(Poll)
  BY <1>3 DEF CycleGoesOn, Stays, Critical, AllLabels, PollLabels
<1>4. ASSUME NEW label \in {"next", "read", "rconn", "fconn"}, Goto(Poll, label),
             pc[Poll] \in {"connect", "next", "read", "fconn", "rconn"}
      PROVE  Stays(Poll)
  BY <1>4 DEF Stays, Critical, AllLabels, PollLabels
<1>5. CASE PollConnect
  BY <1>5, <1>2, <1>3 DEF PollConnect, AtPoll, CycleFails, Move
<1>6. CASE PollNextPhase
  BY <1>6, <1>2, <1>3 DEF PollNextPhase, AtPoll, CycleFails, Move
<1>7. CASE PollNextChunk \/ PollReadOk \/ PollReadMissing \/ PollRetryConnect
  BY <1>7, <1>4
     DEF PollNextChunk, PollReadOk, PollReadMissing, PollRetryConnect, AtPoll,
         Move
<1>8. CASE PollReadRaises
  BY <1>8, <1>2, <1>3
     DEF PollReadRaises, PollRetry, PollFallback, PollLeaveOut, PollReadFails,
        CycleFails, AtPoll, Move
<1>9. CASE PollFinal \/ PollFinalConnect
  BY <1>9, <1>2, <1>3
     DEF PollFinal, PollFinalConnect, CycleFails, CycleSucceeds, AtPoll, Move
<1>10. CASE PollCancelQueued \/ PollCancel
  BY <1>10, <1>2 DEF PollCancelQueued, PollCancel, Move
<1>11. QED
  BY <1>1, <1>5, <1>6, <1>7, <1>8, <1>9, <1>10 DEF PollSteps

\* Every step of a write is a move.
LEMMA WriterMovesLock ==
  ASSUME TypeInv, NEW w \in Writers,
         \/ \E r \in Writable, readback \in BOOLEAN : WriteStart(w, r, readback)
         \/ WriterSteps(w) \/ WriteCancelQueued(w) \/ WriteCancel(w)
  PROVE  Move
<1>1. w \in Tasks /\ w # Stop
  BY TaskKinds
<1>2. CASE \E r \in Writable, readback \in BOOLEAN : WriteStart(w, r, readback)
  BY <1>1, <1>2 DEF WriteStart, Joins, Move
<1>3. ASSUME EndWrite(w), pc[w] \in {"connect", "attempt", "readback"}
      PROVE  Move
  BY <1>1, <1>3 DEF EndWrite, Leaves, Critical, Move
<1>4. ASSUME NEW label \in {"attempt", "readback"}, Goto(w, label),
             pc[w] \in {"connect", "attempt", "readback"}
      PROVE  Move
  BY <1>1, <1>4 DEF Stays, Critical, AllLabels, WriterLabels, Move
<1>5. CASE WriterSteps(w)
  BY <1>3, <1>4, <1>5
     DEF WriterSteps, WriteConnect, WriteAcked, WriteRefused, WriteRaises,
         WriteReadback, WriteReadbackFails, NextAttempt, LastAttemptOver
<1>6. CASE WriteCancelQueued(w)
  BY <1>1, <1>6 DEF WriteCancelQueued, Move
<1>7. CASE WriteCancel(w)
  BY <1>3, <1>7 DEF WriteCancel
<1>8. QED
  BY <1>2, <1>5, <1>6, <1>7

\* Every step of the scan, the shutdown, the lock and the surroundings is a
\* move.
LEMMA OtherMoves ==
  ASSUME TypeInv,
         \/ Grant \/ ScanStart \/ ScanSteps \/ ScanCancel \/ StopSteps
         \/ LinkDrop \/ Redial \/ \E r \in Registers : Modify(r)
  PROVE  Move
<1>1. CASE Grant
  BY <1>1 DEF Move
<1>2. CASE ScanStart \/ ScanSteps \/ ScanCancel
  <2>1. Scan \in Tasks /\ Scan # Stop
    BY <1>2, TaskKinds DEF ScanStart, ScanSteps, ScanCancel, ScanOpen, ScanEnd,
                           ScanRestored, AtScan, Scan, Stop
  <2>2. QED
    BY <1>2, <2>1
       DEF ScanStart, ScanSteps, ScanCancel, ScanOpen, ScanEnd, ScanRestored,
           AtScan, Joins, Leaves, Stays, Critical, AllLabels, ScanLabels, Move,
           control
<1>3. CASE StopSteps
  BY <1>3, TaskKinds
     DEF StopSteps, StopStart, StopDisconnect, AtStop, StopMoves, StopLabels,
        Move
<1>4. CASE LinkDrop \/ Redial \/ \E r \in Registers : Modify(r)
  BY <1>4 DEF LinkDrop, Redial, Modify, EnvVars, control, Move
<1>5. QED
  BY <1>1, <1>2, <1>3, <1>4

\* r is s without its k-th element; no element occurs twice in s; what s and r
\* hold differs in x.
Drops(s, r, k) ==
  /\ Len(r) = Len(s) - 1
  /\ \A j \in 1..(Len(s) - 1) : r[j] = IF j < k THEN s[j] ELSE s[j + 1]
Once(s) == \A i, j \in DOMAIN s : s[i] = s[j] => i = j
Loses(s, r, x) ==
  /\ \A i \in DOMAIN r : r[i] # x
  /\ \A y : y # x => ((\E i \in DOMAIN s : s[i] = y)
                        <=> \E i \in DOMAIN r : r[i] = y)

\* A queue without its k-th element has lost that element and nothing else.
LEMMA DropOne ==
  ASSUME NEW S, NEW s \in Seq(S), NEW r \in Seq(S), NEW k \in 1..Len(s),
         Drops(s, r, k), Once(s)
  PROVE  Once(r) /\ Loses(s, r, s[k])
<1> USE DEF Drops
<1>1. /\ Len(s) \in Nat /\ DOMAIN s = 1..Len(s) /\ DOMAIN r = 1..(Len(s) - 1)
      /\ k \in DOMAIN s
  BY LenProperties
<1>2. \A j \in DOMAIN r : /\ (IF j < k THEN j ELSE j + 1) \in DOMAIN s
                          /\ r[j] = s[IF j < k THEN j ELSE j + 1]
                          /\ (IF j < k THEN j ELSE j + 1) # k
  BY <1>1
<1>3. ASSUME NEW i \in DOMAIN r, NEW j \in DOMAIN r, r[i] = r[j]
      PROVE  i = j
  <2> USE DEF Once
  <2>1. (IF i < k THEN i ELSE i + 1) = (IF j < k THEN j ELSE j + 1)
    <3>1. /\ (IF i < k THEN i ELSE i + 1) \in DOMAIN s
          /\ (IF j < k THEN j ELSE j + 1) \in DOMAIN s
      BY <1>1
    <3>2. s[IF i < k THEN i ELSE i + 1] = s[IF j < k THEN j ELSE j + 1]
      BY <1>2, <1>3
    <3>3. QED
      BY <3>1, <3>2
  <2>2. QED
    BY <1>1, <2>1
<1>4. ASSUME NEW i \in DOMAIN r
      PROVE  r[i] # s[k]
  <2> USE DEF Once
  <2>1. (IF i < k THEN i ELSE i + 1) \in DOMAIN s /\ (IF i < k THEN i ELSE i + 1) # k
    BY <1>1
  <2>2. QED
    BY <1>1, <1>2, <2>1
<1>5. ASSUME NEW x, x # s[k], NEW i \in DOMAIN s, s[i] = x
      PROVE  \E j \in DOMAIN r : r[j] = x
  <2>1. CASE i < k
    <3>1. i \in DOMAIN r /\ r[i] = s[i]
      BY <1>1, <1>2, <2>1
    <3>2. QED
      BY <1>5, <3>1
  <2>2. CASE i > k
    <3>1. i - 1 \in DOMAIN r /\ r[i - 1] = s[(i - 1) + 1] /\ (i - 1) + 1 = i
      BY <1>1, <1>2, <2>2
    <3>2. QED
      BY <1>5, <3>1
  <2>3. QED
    BY <1>1, <1>5, <2>1, <2>2
<1>6. ASSUME NEW x, NEW i \in DOMAIN r, r[i] = x
      PROVE  \E j \in DOMAIN s : s[j] = x
  BY <1>1, <1>2, <1>6
<1>7. QED
  BY <1>3, <1>4, <1>5, <1>6 DEF Once, Loses

\* No move loses a waiter, queues one twice or leaves one behind.
LEMMA MoveKeepsQueue ==
  ASSUME TypeInv, LockInv, Move
  PROVE  QueueIsWaiters'
<1>1. waiters \in Seq(Tasks) /\ DOMAIN waiters = 1..Len(waiters) /\ Len(waiters) \in Nat
      /\ pc \in [Tasks -> AllLabels]
  BY LenProperties DEF TypeInv, TypeOK, ControlOK
<1>2. ASSUME NEW t \in Tasks, pc[t] # "queued", NEW label, label # "queued",
             pc' = [pc EXCEPT ![t] = label], UNCHANGED waiters
      PROVE  QueueIsWaiters'
  BY <1>1, <1>2 DEF LockInv, QueueIsWaiters
<1>3. ASSUME NEW t \in Tasks, Stays(t) \/ Leaves(t)
      PROVE  QueueIsWaiters'
  BY <1>1, <1>2, <1>3 DEF Stays, Leaves, Critical, Goto, Release
<1>4. ASSUME NEW t \in Tasks, Joins(t)
      PROVE  QueueIsWaiters'
  <2>1. CASE holder = None /\ waiters = <<>>
    <3>1. PICK label \in AllLabels \ {"queued"} : pc' = [pc EXCEPT ![t] = label]
      BY <1>4, <2>1
         DEF Joins, Acquire, Enter, AllLabels, PollLabels, WriterLabels,
             ScanLabels
    <3>2. QED
      BY <1>2, <1>4, <2>1, <3>1 DEF Joins, Acquire
  <2>2. CASE ~(holder = None /\ waiters = <<>>)
    <3>1. waiters' = Append(waiters, t) /\ pc' = [pc EXCEPT ![t] = "queued"]
      BY <1>4, <2>2 DEF Joins, Acquire
    <3>2. /\ DOMAIN waiters' = 1..(Len(waiters) + 1)
          /\ \A i \in 1..Len(waiters) : waiters'[i] = waiters[i]
          /\ waiters'[Len(waiters) + 1] = t
      BY <1>1, <3>1, AppendProperties, LenProperties
    <3>3. \A i \in DOMAIN waiters : waiters[i] # t
      BY <1>4 DEF Joins, LockInv, QueueIsWaiters
    <3>4. QED
      BY <1>1, <3>1, <3>2, <3>3 DEF LockInv, QueueIsWaiters
  <2>3. QED
    BY <2>1, <2>2
<1>5. ASSUME NEW t \in Tasks, LeaveQueue(t)
      PROVE  QueueIsWaiters'
  <2>1. PICK k \in DOMAIN waiters : waiters[k] = t /\ waiters' = RemoveAt(waiters, k)
    BY <1>5 DEF LeaveQueue
  <2>2. waiters' \in Seq(Tasks) /\ Drops(waiters, waiters', k)
    BY <1>1, <2>1, RemoveAtProperties DEF Drops
  <2>3. Once(waiters)
    BY DEF LockInv, QueueIsWaiters, Once
  <2>4. Once(waiters') /\ Loses(waiters, waiters', t)
    BY <1>1, <2>1, <2>2, <2>3, DropOne
  <2>5. pc' = [pc EXCEPT ![t] = "idle"]
    BY <1>5 DEF LeaveQueue
  <2>6. QED
    BY <1>1, <2>4, <2>5 DEF LockInv, QueueIsWaiters, Once, Loses
<1>6. CASE StopMoves
  <2>1. PICK label \in StopLabels : Stop \in Tasks /\ Goto(Stop, label)
    BY <1>6 DEF StopMoves
  <2>2. QED
    BY <1>2, <2>1, StopNeverWaits DEF Goto, StopLabels
<1>7. CASE Grant
  <2> DEFINE t == Head(waiters)
  <2>1. t \in Tasks /\ t = waiters[1] /\ 1 \in DOMAIN waiters
    BY <1>7, FirstWaiter DEF Grant, LockInv
  <2>2. PICK label \in AllLabels \ {"queued"} : pc' = [pc EXCEPT ![t] = label]
    BY <1>7 DEF Grant, Enter, AllLabels, PollLabels, WriterLabels, ScanLabels
  <2>3. waiters' \in Seq(Tasks) /\ Drops(waiters, waiters', 1)
    BY <1>1, <1>7, HeadTailProperties DEF Grant, Drops
  <2>4. Once(waiters)
    BY DEF LockInv, QueueIsWaiters, Once
  <2> HIDE DEF t
  <2>5. Once(waiters') /\ Loses(waiters, waiters', t)
    BY <1>1, <2>1, <2>3, <2>4, DropOne
  <2>6. QED
    BY <1>1, <2>2, <2>5 DEF LockInv, QueueIsWaiters, Once, Loses
<1>8. CASE UNCHANGED control
  BY <1>8 DEF control, LockInv, QueueIsWaiters
<1>9. QED
  BY <1>3, <1>4, <1>5, <1>6, <1>7, <1>8 DEF Move

\* No move lets a second task in or leaks the lock.
LEMMA MoveKeepsOwner ==
  ASSUME TypeInv, LockInv, Move
  PROVE  WriteLockOwner'
<1>1. pc \in [Tasks -> AllLabels] /\ None \notin Tasks
  BY TaskKinds DEF TypeInv, TypeOK, ControlOK
<1>2. ASSUME NEW t \in Tasks, Stays(t) \/ Leaves(t)
      PROVE  WriteLockOwner'
  BY <1>1, <1>2
     DEF Stays, Leaves, Goto, Release, LockInv, WriteLockOwner, Critical
<1>3. ASSUME NEW t \in Tasks, t # Stop, pc[t] \in {"idle", "queued"},
             holder = None, Enter(t)
      PROVE  WriteLockOwner'
  BY <1>1, <1>3 DEF Enter, LockInv, WriteLockOwner, Critical
<1>4. ASSUME NEW t \in Tasks, t # Stop, pc[t] \in {"idle", "queued"}, UNCHANGED holder,
             NEW label \in {"idle", "queued"}, pc' = [pc EXCEPT ![t] = label]
      PROVE  WriteLockOwner'
  BY <1>1, <1>4 DEF LockInv, WriteLockOwner, Critical
<1>5. ASSUME NEW t \in Tasks, Joins(t)
      PROVE  WriteLockOwner'
  BY <1>3, <1>4, <1>5 DEF Joins, Acquire
<1>6. ASSUME NEW t \in Tasks, LeaveQueue(t)
      PROVE  WriteLockOwner'
  <2>1. t # Stop
    BY <1>6, StopNeverWaits DEF LeaveQueue
  <2>2. QED
    BY <1>4, <1>6, <2>1 DEF LeaveQueue
<1>7. CASE StopMoves
  BY <1>1, <1>7 DEF StopMoves, Goto, LockInv, WriteLockOwner, Critical
<1>8. CASE Grant
  BY <1>3, <1>8, FirstWaiter DEF Grant, LockInv
<1>9. CASE UNCHANGED control
  BY <1>9 DEF control, LockInv, WriteLockOwner, Critical
<1>10. QED
  BY <1>2, <1>5, <1>6, <1>7, <1>8, <1>9 DEF Move

\* Every step is a move.
LEMMA StepMoves ==
  ASSUME TypeInv, [Next]_vars
  PROVE  Move
<1>1. CASE PollSteps \/ PollCancelQueued \/ PollCancel
  BY <1>1, PollMoves
<1>2. ASSUME NEW w \in Writers,
             \/ \E r \in Writable, readback \in BOOLEAN : WriteStart(w, r, readback)
             \/ WriterSteps(w) \/ WriteCancelQueued(w) \/ WriteCancel(w)
      PROVE  Move
  BY <1>2, WriterMovesLock
<1>3. CASE \/ Grant \/ ScanStart \/ ScanSteps \/ ScanCancel \/ StopSteps
           \/ LinkDrop \/ Redial \/ \E r \in Registers : Modify(r)
  BY <1>3, OtherMoves
<1>4. CASE UNCHANGED vars
  BY <1>4 DEF vars, Move
<1>5. QED
  BY <1>1, <1>2, <1>3, <1>4 DEF Next

\* Every step keeps the types.
LEMMA StepTypes ==
  ASSUME TypeInv, LockInv, [Next]_vars
  PROVE  TypeInv'
<1>1. CASE PollSteps \/ PollCancelQueued \/ PollCancel
  BY <1>1, PollStartTypes, PollConnectTypes, PollNextPhaseTypes,
     PollNextChunkTypes, PollReadOkTypes, PollReadMissingTypes,
     PollReadRaisesTypes, PollRetryConnectTypes, PollFinalTypes, PollCancelTypes
     DEF PollSteps
<1>2. ASSUME NEW w \in Writers,
             \/ \E r \in Writable, readback \in BOOLEAN : WriteStart(w, r, readback)
             \/ WriterSteps(w) \/ WriteCancelQueued(w) \/ WriteCancel(w)
      PROVE  TypeInv'
  BY <1>2, WriteStartTypes, WriterStepTypes
<1>3. CASE Grant
  BY <1>3, FirstWaiter, GrantTypes DEF Grant, LockInv
<1>4. CASE ScanStart \/ ScanSteps \/ ScanCancel
  BY <1>4, ScanTypes
<1>5. CASE StopSteps
  BY <1>5, StopTypes
<1>6. CASE LinkDrop \/ Redial \/ \E r \in Registers : Modify(r)
  BY <1>6, EnvTypes
<1>7. CASE UNCHANGED vars
  BY <1>7 DEF vars, control, link, view, truth, TypeInv, TypeOK, ControlOK,
              LinkOK, LocalsOK, FlagsOK, ViewOK, TruthOK, ReadsChunk
<1>8. QED
  BY <1>1, <1>2, <1>3, <1>4, <1>5, <1>6, <1>7 DEF Next

\* The lock is free at the start.
LEMMA InitLock == Init => LockInv
BY TaskKinds DEF Init, LockInv, QueueIsWaiters, WriteLockOwner, Critical

\* The inductive invariant.
Inv == TypeInv /\ LockInv

\* Inv holds in every reachable state.
LEMMA Invariance == Spec => []Inv
<1>1. Init => Inv
  BY InitTypes, InitLock DEF Inv
<1>2. Inv /\ [Next]_vars => Inv'
  BY StepTypes, StepMoves, MoveKeepsQueue, MoveKeepsOwner DEF Inv, LockInv
<1>3. QED
  BY <1>1, <1>2, PTL DEF Spec

\* TypeOK for any registers, writers, background tasks and bounds: every task
\* stays at one of its suspension points and the attempts of every retry loop
\* stay within _retry.
THEOREM TypeCorrect == Spec => []TypeOK
<1>1. Inv => TypeOK
  BY DEF Inv, TypeInv
<1>2. QED
  BY <1>1, Invariance, PTL

\* WriteLockOwner for any number of writers: at most one poll, write or scan
\* is between acquiring and releasing _write_lock, through every error, retry
\* and cancellation path, and the lock is never held by a task that has ended.
THEOREM LockCorrect == Spec => []WriteLockOwner
<1>1. Inv => WriteLockOwner
  BY DEF Inv, LockInv
<1>2. QED
  BY <1>1, Invariance, PTL
-----------------------------------------------------------------------------
\* The inductive strengthening of SingleEndpoint: the scanner's connection is
\* open only inside the scan, and all through the scan the primary transport
\* has no client object.
ScanAlone == /\ scanner => AtScan("scan")
             /\ AtScan("scan") => conn \in {"none", "closed"}

\* A step that opens nothing during a scan keeps it.
LEMMA KeepsAlone ==
  ASSUME Inv, ScanAlone, UNCHANGED scanner,
         Scan \in Tasks => pc'[Scan] = pc[Scan],
         ~AtScan("scan") \/ UNCHANGED conn \/ conn' \in {"none", "closed"}
  PROVE  ScanAlone'
BY DEF ScanAlone, AtScan, Tasks

\* While another task is inside, or the lock is free, no scan is on.
LEMMA OneAtATime ==
  ASSUME Inv, NEW t \in Tasks, t # Scan, Critical(t) \/ holder = None
  PROVE  ~AtScan("scan")
BY TaskKinds
   DEF Inv, LockInv, WriteLockOwner, AtScan, Critical, Tasks, Scan, Stop

\* A step of another task: it is not inside, or no scan is on.
LEMMA OthersAlone ==
  ASSUME Inv, ScanAlone, NEW t \in Tasks, t # Scan, UNCHANGED scanner,
         Critical(t) \/ holder = None \/ UNCHANGED conn
           \/ conn' \in {"none", "closed"},
         pc' = [pc EXCEPT ![t] = pc'[t]]
  PROVE  ScanAlone'
<1>1. ~AtScan("scan") \/ UNCHANGED conn \/ conn' \in {"none", "closed"}
  BY OneAtATime
<1>2. Scan \in Tasks => pc'[Scan] = pc[Scan]
  BY DEF Inv, TypeInv, TypeOK, ControlOK
<1>3. QED
  BY <1>1, <1>2, KeepsAlone

\* Every step keeps the scanner alone.
LEMMA StepAlone ==
  ASSUME Inv, ScanAlone, [Next]_vars
  PROVE  ScanAlone'
<1> pc \in [Tasks -> AllLabels]
  BY DEF Inv, TypeInv, TypeOK, ControlOK
<1>1. CASE PollSteps \/ PollCancelQueued \/ PollCancel
  <2>1. Poll \in Tasks /\ Poll # Scan /\ Poll # Stop
    BY TaskKinds DEF Poll, Scan, Stop
  <2>2. UNCHANGED scanner /\ pc' = [pc EXCEPT ![Poll] = pc'[Poll]]
    BY <1>1, <2>1
       DEF PollSteps, PollStart, PollConnect, PollNextPhase, PollNextChunk,
           PollReadOk, PollReadMissing, PollReadRaises, PollRetry, PollFallback,
           PollLeaveOut, PollReadFails, PollRetryConnect, PollFinal,
           PollFinalConnect, PollCancelQueued, PollCancel, PollVars, CycleFails,
           CycleSucceeds, CycleGoesOn, FinishCycle, Goto, Release, LeaveQueue,
           Acquire, Enter, control
  <2>3. Critical(Poll) \/ holder = None \/ UNCHANGED conn
    BY <1>1, <2>1
       DEF PollSteps, PollStart, PollConnect, PollNextPhase, PollNextChunk,
           PollReadOk, PollReadMissing, PollReadRaises, PollRetryConnect,
           PollFinal, PollFinalConnect, PollCancelQueued, PollCancel, AtPoll,
           Critical, LeaveQueue, Acquire, link
  <2>4. QED
    BY <2>1, <2>2, <2>3, OthersAlone
<1>2. ASSUME NEW w \in Writers,
             \/ \E r \in Writable, readback \in BOOLEAN : WriteStart(w, r, readback)
             \/ WriterSteps(w) \/ WriteCancelQueued(w) \/ WriteCancel(w)
      PROVE  ScanAlone'
  <2>1. w \in Tasks /\ w # Scan /\ w # Stop
    BY TaskKinds
  <2>2. UNCHANGED scanner /\ pc' = [pc EXCEPT ![w] = pc'[w]]
    BY <1>2, <2>1
       DEF WriteStart, WriterSteps, WriteConnect, WriteAcked, WriteRefused,
           WriteRaises, WriteReadback, WriteReadbackFails, WriteCancelQueued,
           WriteCancel, WriterVars, NextAttempt, LastAttemptOver, EndWrite, Goto,
           Release, LeaveQueue, Acquire, Enter
  <2>3. Critical(w) \/ holder = None \/ UNCHANGED conn
    BY <1>2, <2>1
       DEF WriteStart, WriterSteps, WriteConnect, WriteAcked, WriteRefused,
           WriteRaises, WriteReadback, WriteReadbackFails, WriteCancelQueued,
           WriteCancel, Critical, LeaveQueue, Acquire, link
  <2>4. QED
    BY <2>1, <2>2, <2>3, OthersAlone
<1>3. CASE Grant
  <2>1. Head(waiters) \in Tasks /\ holder = None
    BY <1>3, FirstWaiter DEF Grant, Inv, LockInv
  <2>2. CASE Head(waiters) = Scan
    BY <1>3, <2>1, <2>2 DEF Grant, Enter, Disconnect, ScanAlone, AtScan
  <2>3. CASE Head(waiters) # Scan
    <3>1. UNCHANGED scanner /\ pc' = [pc EXCEPT ![Head(waiters)] = pc'[Head(waiters)]]
      BY <1>3, <2>1, <2>3 DEF Grant, Enter
    <3>2. QED
      BY <2>1, <2>3, <3>1, OthersAlone
  <2>4. QED
    BY <2>2, <2>3
<1>4. CASE ScanStart \/ ScanSteps \/ ScanCancel
  BY <1>4, TaskKinds
     DEF ScanStart, ScanSteps, ScanCancel, ScanOpen, ScanEnd, ScanRestored,
         AtScan, Acquire, Enter, Disconnect, Goto, Release, LeaveQueue, link,
         ScanAlone, control
<1>5. CASE StopSteps
  <2>1. Stop \in Tasks /\ Stop # Scan
    BY <1>5, TaskKinds
       DEF StopSteps, StopStart, StopDisconnect, AtStop, Stop, Scan
  <2>2. UNCHANGED scanner /\ pc' = [pc EXCEPT ![Stop] = pc'[Stop]]
    BY <1>5, <2>1 DEF StopSteps, StopStart, StopDisconnect, StopVars, Goto
  <2>3. UNCHANGED conn \/ conn' \in {"none", "closed"}
    BY <1>5 DEF StopSteps, StopStart, StopDisconnect, Disconnect, link
  <2>4. QED
    BY <2>1, <2>2, <2>3, OthersAlone
<1>6. CASE LinkDrop \/ Redial \/ \E r \in Registers : Modify(r)
  BY <1>6
     DEF LinkDrop, Redial, Modify, EnvVars, control, link, ScanAlone, AtScan
<1>7. CASE UNCHANGED vars
  BY <1>7 DEF vars, control, link, ScanAlone, AtScan
<1>8. QED
  BY <1>1, <1>2, <1>3, <1>4, <1>5, <1>6, <1>7 DEF Next

\* SingleEndpoint for any instance: while the scanner's connection is open the
\* primary has none, and none that could redial.
THEOREM ScannerAlone == Spec => []SingleEndpoint
<1>1. Init => ScanAlone
  BY TaskKinds DEF Init, ScanAlone, AtScan
<1>2. Inv /\ ScanAlone /\ [Next]_vars => ScanAlone'
  BY StepAlone
<1>3. ScanAlone => SingleEndpoint
  BY DEF ScanAlone, SingleEndpoint
<1>4. QED
  BY <1>1, <1>2, <1>3, Invariance, PTL DEF Spec

-----------------------------------------------------------------------------
(***************************************************************************)
(* What coordinator.data shows is never older than a confirmed write or    *)
(* than what was shown before.  A poll reads into a buffer while it holds  *)
(* the lock, so no write is confirmed and no read-back published between   *)
(* its first read and its publication (WriterAlone, from LockInv).  Hence  *)
(* everything in the buffer is still at least as new as what is shown and  *)
(* confirmed when it replaces coordinator.data (BufferFresh).              *)
(***************************************************************************)

\* What the published values, the confirmed writes and the running poll's
\* buffer have to do with the device: nothing is ahead of it, and what the poll
\* has read under the lock is still no older than what is shown and confirmed.
IdleCycle == ~Critical(Poll) => cycle.got = {}
NothingAhead == \A r \in Registers : shown[r] <= device[r] /\ acked[r] <= device[r]
BufferFresh == \A r \in cycle.got : /\ shown[r] <= cycle.buf[r]
                                    /\ acked[r] <= cycle.buf[r]
                                    /\ cycle.buf[r] <= device[r]
Fresh == IdleCycle /\ NothingAhead /\ BufferFresh

\* Modification counts never go back.
LEMMA BumpGrows == \A v \in Version : Bump(v) \in Version /\ v <= Bump(v)
BY BoundsAssumption DEF Bump, Version

\* The type facts the arithmetic below needs.
LEMMA ViewTypes ==
  ASSUME Inv
  PROVE  /\ shown \in [Registers -> Version]
         /\ acked \in [Registers -> Version]
         /\ device \in [Registers -> Version]
         /\ present \in [Registers -> BOOLEAN]
         /\ cycle.got \subseteq Registers
         /\ cycle.buf \in [Registers -> Version]
         /\ cycle \in Cycles
         /\ pc \in [Tasks -> AllLabels]
         /\ Version \subseteq Int
         /\ Poll \in Tasks /\ Poll # Stop
BY BoundsAssumption, TaskKinds
   DEF Inv, TypeInv, TypeOK, ViewOK, TruthOK, LocalsOK, Cycles, Version, Poll,
       Stop, ControlOK

\* What a modification does to the device.
LEMMA GrowingTruth ==
  ASSUME Inv, NEW r, NEW d, d = [device EXCEPT ![r] = Bump(@)]
  PROVE  /\ d \in [Registers -> Version]
         /\ \A q \in Registers : device[q] <= d[q]
         /\ r \in Registers => d[r] = Bump(device[r])
         /\ r \notin Registers => d = device
<1>1. device \in [Registers -> Version] /\ Version \subseteq Int
  BY ViewTypes
<1>2. d \in [Registers -> Version]
  BY <1>1, BumpGrows
<1>3. ASSUME NEW q \in Registers
      PROVE  device[q] <= d[q]
  <2>1. device[q] \in Version /\ device[q] \in Int
    BY <1>1
  <2>2. d[q] = device[q] \/ d[q] = Bump(device[q])
    BY <1>1
  <2>3. QED
    BY <2>1, <2>2, BumpGrows
<1>4. r \in Registers => d[r] = Bump(device[r])
  BY <1>1
<1>5. r \notin Registers => d = device
  BY <1>1
<1>6. QED
  BY <1>2, <1>3, <1>4, <1>5

\* A step that leaves the view, the confirmed writes and the poll's buffer
\* alone, or empties the buffer, keeps Fresh, even if a register changes.
LEMMA QuietStep ==
  ASSUME Inv, Fresh, UNCHANGED <<shown, acked>>,
         \/ device' = device
         \/ \E r : device' = [device EXCEPT ![r] = Bump(@)],
         cycle'.got = {} \/ (cycle'.got = cycle.got /\ cycle'.buf = cycle.buf),
         cycle'.got # {} => Critical(Poll)'
  PROVE  Fresh'
<1>1. device' \in [Registers -> Version] /\ \A q \in Registers : device[q] <= device'[q]
  BY ViewTypes, GrowingTruth
<1>2. NothingAhead'
  <2>1. ASSUME NEW q \in Registers
        PROVE  shown[q] <= device'[q] /\ acked[q] <= device'[q]
    <3>1. /\ shown[q] \in Int /\ acked[q] \in Int
          /\ device[q] \in Int /\ device'[q] \in Int
      BY <1>1, ViewTypes
    <3>2. QED
      BY <1>1, <3>1 DEF Fresh, NothingAhead
  <2>2. QED
    BY <2>1 DEF NothingAhead
<1>3. BufferFresh'
  <2>1. ASSUME NEW q \in cycle.got
        PROVE  cycle.buf[q] <= device'[q]
    <3>1. /\ cycle.buf[q] \in Int /\ device[q] \in Int /\ device'[q] \in Int
          /\ q \in Registers
      BY <1>1, ViewTypes
    <3>2. QED
      BY <1>1, <3>1 DEF Fresh, BufferFresh
  <2>2. QED
    BY <2>1 DEF Fresh, BufferFresh
<1>4. QED
  BY <1>2, <1>3 DEF Fresh, IdleCycle

\* What a quiet step and a publishing step are to RegisterView.
ViewStep == [View!Next]_(View!vars)

\* Such a step stutters in RegisterView or is a Modify.
LEMMA QuietView ==
  ASSUME Inv, UNCHANGED <<shown, present, acked>>,
         \/ device' = device
         \/ \E r : device' = [device EXCEPT ![r] = Bump(@)]
  PROVE  ViewStep
<1>1. CASE device' = device
  BY <1>1 DEF ViewStep, View!vars
<1>2. ASSUME NEW r, device' = [device EXCEPT ![r] = Bump(@)]
      PROVE  ViewStep
  <2>1. CASE r \in Registers
    <3>1. View!Modify(r)
      BY <1>2, ViewTypes DEF View!Modify, View!Bump, Bump
    <3>2. QED
      BY <2>1, <3>1 DEF ViewStep, View!Next
  <2>2. CASE r \notin Registers
    BY <1>1, <1>2, <2>2, GrowingTruth
  <2>3. QED
    BY <2>1, <2>2
<1>3. QED
  BY <1>1, <1>2

\* The publication of a poll is a Refresh.
LEMMA PublishView ==
  ASSUME Inv, Fresh, CycleSucceeds, UNCHANGED <<device, acked>>
  PROVE  ViewStep /\ Fresh'
<1>1. /\ shown' = [r \in Registers |-> IF r \in cycle.got THEN cycle.buf[r]
                                                          ELSE shown[r]]
      /\ present' = [r \in Registers |-> r \in cycle.got]
      /\ cycle' = NoCycle
  BY DEF CycleSucceeds, FinishCycle
<1>2. ASSUME NEW r \in Registers
      PROVE  /\ shown'[r] \in Version
             /\ shown[r] <= shown'[r] /\ shown'[r] <= device[r]
             /\ present'[r] => acked[r] <= shown'[r]
             /\ ~present'[r] => shown'[r] = shown[r]
  <2>1. shown[r] \in Int /\ acked[r] \in Int /\ device[r] \in Int /\ cycle.buf[r] \in Int
    BY ViewTypes
  <2>2. CASE r \in cycle.got
    BY <1>1, <2>1, <2>2, ViewTypes DEF Fresh, BufferFresh
  <2>3. CASE r \notin cycle.got
    <3>0. shown'[r] = shown[r]
      BY <1>1, <2>3
    <3>1. ~present'[r]
      BY <1>1, <2>3, Zenon
    <3>2. shown[r] \in Version /\ shown[r] <= device[r]
      BY ViewTypes DEF Fresh, NothingAhead
    <3>3. QED
      BY <2>1, <3>0, <3>1, <3>2
  <2>4. QED
    BY <2>2, <2>3
<1>3. View!Refresh
  <2>1. shown' \in [Registers -> Version] /\ present' \in [Registers -> BOOLEAN]
    BY <1>1, <1>2
  <2>2. ASSUME NEW r \in Registers
        PROVE  IF present'[r] THEN View!Publishable(r, shown'[r])
                              ELSE shown'[r] = shown[r]
    <3>1. shown[r] \in Int /\ acked[r] \in Int /\ device[r] \in Int /\ shown'[r] \in Int
      BY <1>2, ViewTypes
    <3>2. QED
      BY <1>2, <3>1 DEF View!Publishable
  <2>3. QED
    BY <2>1, <2>2 DEF View!Refresh, View!Version, Version
<1>4. Fresh'
  BY <1>1, <1>2 DEF Fresh, IdleCycle, NothingAhead, BufferFresh, NoCycle
<1>5. QED
  BY <1>3, <1>4 DEF ViewStep, View!Next

\* A poll that has not entered publishes nothing.
LEMMA PollStartView ==
  ASSUME Inv, Fresh, PollStart \/ PollCancelQueued
  PROVE  ViewStep /\ Fresh'
<1>1. /\ UNCHANGED <<shown, present, acked, device, cycle>>
  BY DEF PollStart, PollCancelQueued, PollVars, truth, view
<1>2. ~Critical(Poll)
  BY DEF PollStart, PollCancelQueued, LeaveQueue, AtPoll, Critical
<1>3. QED
  BY <1>1, <1>2, QuietStep, QuietView DEF Fresh, IdleCycle

\* The steps of a poll between entering and publishing.
LEMMA PollView ==
  ASSUME Inv, Fresh, \/ PollConnect \/ PollNextPhase \/ PollNextChunk
                     \/ PollReadMissing \/ PollReadRaises \/ PollRetryConnect
                     \/ PollFinal \/ PollFinalConnect \/ PollCancel
  PROVE  ViewStep /\ Fresh'
<1>1. CASE CycleSucceeds
  BY <1>1, PublishView
     DEF PollConnect, PollNextPhase, PollNextChunk, PollReadMissing,
         PollReadRaises, PollRetryConnect, PollFinal, PollFinalConnect,
         PollCancel, PollVars, truth
<1>2. CASE ~CycleSucceeds
  <2>1. UNCHANGED <<shown, present, acked, device>>
    BY <1>2
       DEF PollConnect, PollNextPhase, PollNextChunk, PollReadMissing,
           PollReadRaises, PollRetry, PollFallback, PollLeaveOut, PollReadFails,
           PollRetryConnect, PollFinal, PollFinalConnect, PollCancel, PollVars,
           CycleGoesOn, CycleFails, truth, view
  <2>2. \/ cycle' = NoCycle
        \/ /\ cycle'.got = cycle.got /\ cycle'.buf = cycle.buf
           /\ Critical(Poll)'
    <3>1. cycle \in Cycles /\ pc \in [Tasks -> AllLabels] /\ Poll \in Tasks
          /\ Poll # Stop
      BY ViewTypes
    <3>2. QED
      BY <1>2, <3>1, ZenonT(40)
         DEF PollConnect, PollNextPhase, PollNextChunk, PollReadMissing,
             PollReadRaises, PollRetry, PollFallback, PollLeaveOut,
             PollReadFails, PollRetryConnect, PollFinal, PollFinalConnect,
             PollCancel, CycleGoesOn, CycleFails, FinishCycle, Goto, Cycles,
             Critical
  <2>3. NoCycle.got = {}
    BY DEF NoCycle
  <2>4. QED
    BY <2>1, <2>2, <2>3, QuietStep, QuietView
<1>3. QED
  BY <1>1, <1>2

\* A chunk that has just been read is as new as the device.
LEMMA PollReadOkView ==
  ASSUME Inv, Fresh, PollReadOk
  PROVE  ViewStep /\ Fresh'
<1> DEFINE r == cycle.cur
<1>1. r \in Registers
  BY DEF PollReadOk, AtPoll, Inv, TypeInv, ReadsChunk
<1>2. UNCHANGED <<shown, present, acked, device>>
  BY DEF PollReadOk, PollVars, truth, view
<1>3. /\ cycle'.got = cycle.got \cup {r}
      /\ cycle'.buf = [cycle.buf EXCEPT ![r] = device[r]]
  BY ViewTypes DEF PollReadOk, Cycles
<1>4. BufferFresh'
  <2>1. ASSUME NEW q \in cycle'.got
        PROVE  /\ shown[q] <= cycle'.buf[q]
               /\ acked[q] <= cycle'.buf[q]
               /\ cycle'.buf[q] <= device[q]
    <3>1. q \in Registers /\ device[q] \in Int
      BY <1>1, <1>3, ViewTypes
    <3>2. CASE q = r
      <4>1. cycle'.buf[q] = device[q]
        BY <1>1, <1>3, <3>2, ViewTypes
      <4>2. QED
        BY <3>1, <4>1 DEF Fresh, NothingAhead
    <3>3. CASE q # r
      <4>1. q \in cycle.got /\ cycle'.buf[q] = cycle.buf[q]
        BY <1>1, <1>3, <3>1, <3>3, ViewTypes
      <4>2. QED
        BY <4>1 DEF Fresh, BufferFresh
    <3>4. QED
      BY <3>2, <3>3
  <2>2. QED
    BY <1>2, <2>1 DEF BufferFresh
<1>5. Critical(Poll)'
  BY ViewTypes DEF PollReadOk, Goto, Critical
<1>6. QED
  BY <1>2, <1>4, <1>5, QuietView DEF Fresh, IdleCycle, NothingAhead

\* While a write is inside, the poll's buffer is empty.
LEMMA WriterAlone ==
  ASSUME Inv, Fresh, NEW w \in Writers, Critical(w)
  PROVE  cycle.got = {}
<1>1. w \in Tasks /\ w # Poll
  BY TaskKinds
<1>2. ~Critical(Poll)
  BY <1>1, ViewTypes DEF Inv, LockInv, WriteLockOwner
<1>3. QED
  BY <1>2 DEF Fresh, IdleCycle

\* A step of another task leaves the poll where it is.
LEMMA PollUntouched ==
  ASSUME Inv, Fresh, NEW t \in Tasks, t # Poll, UNCHANGED cycle,
         pc' = [pc EXCEPT ![t] = pc'[t]]
  PROVE  cycle'.got # {} => Critical(Poll)'
BY ViewTypes DEF Fresh, IdleCycle, Critical

\* A confirmed write is a Confirm: no buffered value is left behind by it.
LEMMA WriteAckedView ==
  ASSUME Inv, Fresh, NEW w \in Writers, WriteAcked(w)
  PROVE  ViewStep /\ Fresh'
<1> DEFINE r == write[w].reg
<1>1. /\ device' = [device EXCEPT ![r] = Bump(@)]
      /\ acked' = [acked EXCEPT ![r] = Bump(device[r])]
      /\ UNCHANGED <<shown, present, cycle>>
  BY DEF WriteAcked, view
<1>2. cycle.got = {}
  BY WriterAlone, TaskKinds DEF WriteAcked, Critical
<1>3. CASE r \in Registers
  <2>1. View!Confirm(r)
    BY <1>1, ViewTypes DEF View!Confirm, View!Bump, Bump
  <2>2. ASSUME NEW q \in Registers
        PROVE  shown[q] <= device'[q] /\ acked'[q] <= device'[q]
    <3>1. /\ shown[q] \in Int /\ acked[q] \in Int /\ device[q] \in Int
          /\ device'[q] \in Int /\ device[q] <= device'[q]
          /\ shown[q] <= device[q] /\ acked[q] <= device[q]
      <4>1. device' \in [Registers -> Version] /\ device[q] <= device'[q]
        BY <1>1, GrowingTruth
      <4>2. shown[q] <= device[q] /\ acked[q] <= device[q]
        BY DEF Fresh, NothingAhead
      <4>3. QED
        BY <4>1, <4>2, ViewTypes
    <3>2. acked'[q] = acked[q] \/ acked'[q] = device'[q]
      BY <1>1, GrowingTruth, ViewTypes
    <3>3. QED
      BY <3>1, <3>2
  <2>3. QED
    BY <1>1, <1>2, <1>3, <2>1, <2>2
       DEF ViewStep, View!Next, Fresh, IdleCycle, NothingAhead, BufferFresh
<1>4. CASE r \notin Registers
  <2>1. UNCHANGED <<device, acked>>
    BY <1>1, <1>4, ViewTypes
  <2>2. QED
    BY <1>1, <1>2, <2>1, QuietStep, QuietView
<1>5. QED
  BY <1>3, <1>4

\* A published read-back is an Observe.
LEMMA WriteReadbackView ==
  ASSUME Inv, Fresh, NEW w \in Writers, WriteReadback(w)
  PROVE  ViewStep /\ Fresh'
<1> DEFINE r == write[w].reg
<1>1. /\ shown' = [shown EXCEPT ![r] = device[r]]
      /\ present' = [present EXCEPT ![r] = TRUE]
      /\ UNCHANGED <<device, acked, cycle>>
  BY DEF WriteReadback, truth
<1>2. cycle.got = {}
  BY WriterAlone, TaskKinds DEF WriteReadback, Critical
<1>3. CASE r \in Registers
  <2>1. View!Observe(r)
    BY <1>1 DEF View!Observe
  <2>2. ASSUME NEW q \in Registers
        PROVE  shown'[q] <= device[q] /\ acked[q] <= device[q]
    BY <1>1, ViewTypes DEF Fresh, NothingAhead
  <2>3. QED
    BY <1>1, <1>2, <1>3, <2>1, <2>2
       DEF ViewStep, View!Next, Fresh, IdleCycle, NothingAhead, BufferFresh
<1>4. CASE r \notin Registers
  <2>1. UNCHANGED <<shown, present>>
    BY <1>1, <1>4, ViewTypes
  <2>2. QED
    BY <1>1, <1>2, <2>1, QuietStep, QuietView
<1>5. QED
  BY <1>3, <1>4

\* Every step of a write.
LEMMA WriterView ==
  ASSUME Inv, Fresh, NEW w \in Writers,
         \/ \E r \in Writable, readback \in BOOLEAN : WriteStart(w, r, readback)
         \/ WriterSteps(w) \/ WriteCancelQueued(w) \/ WriteCancel(w)
  PROVE  ViewStep /\ Fresh'
<1>1. CASE WriteAcked(w) \/ WriteReadback(w)
  BY <1>1, WriteAckedView, WriteReadbackView
<1>2. CASE ~(WriteAcked(w) \/ WriteReadback(w))
  <2>1. w \in Tasks /\ w # Poll
    BY TaskKinds
  <2>2. UNCHANGED <<shown, present, acked, cycle>>
    BY <1>2
       DEF WriteStart, WriterSteps, WriteConnect, WriteRefused, WriteRaises,
           WriteReadbackFails, WriteCancelQueued, WriteCancel, WriterVars,
           truth, view
  <2>3. \/ device' = device
        \/ \E r : device' = [device EXCEPT ![r] = Bump(@)]
    BY <1>2
       DEF WriteStart, WriterSteps, WriteConnect, WriteRefused, WriteRaises,
           WriteReadbackFails, WriteCancelQueued, WriteCancel, WriterVars, truth
  <2>4. pc' = [pc EXCEPT ![w] = pc'[w]]
    BY <1>2, <2>1, ViewTypes
       DEF WriteStart, WriterSteps, WriteConnect, WriteRefused, WriteRaises,
           WriteReadbackFails, WriteCancelQueued, WriteCancel, NextAttempt,
           LastAttemptOver, EndWrite, Goto, Release, LeaveQueue, Acquire, Enter
  <2>5. QED
    BY <2>1, <2>2, <2>3, <2>4, PollUntouched, QuietStep, QuietView
<1>3. QED
  BY <1>1, <1>2

\* Every step of the scan, the shutdown, the lock and the surroundings.
LEMMA OtherView ==
  ASSUME Inv, Fresh,
         \/ Grant \/ ScanStart \/ ScanSteps \/ ScanCancel \/ StopSteps
         \/ LinkDrop \/ Redial \/ \E r \in Registers : Modify(r)
         \/ UNCHANGED vars
  PROVE  ViewStep /\ Fresh'
<1>1. UNCHANGED <<shown, present, acked, cycle>>
  BY DEF Grant, ScanStart, ScanSteps, ScanCancel, ScanOpen, ScanEnd,
         ScanRestored, ScanVars, StopSteps, StopStart, StopDisconnect, StopVars,
         LinkDrop, Redial, Modify, EnvVars, vars, truth, view
<1>2. \/ device' = device
      \/ \E r : device' = [device EXCEPT ![r] = Bump(@)]
  BY DEF Grant, ScanStart, ScanSteps, ScanCancel, ScanOpen, ScanEnd,
         ScanRestored, ScanVars, StopSteps, StopStart, StopDisconnect, StopVars,
         LinkDrop, Redial, Modify, vars, truth
<1>3. Critical(Poll) => Critical(Poll)'
  <2>1. CASE Grant
    BY <2>1, FirstWaiter, ViewTypes DEF Grant, Enter, Critical, Inv, LockInv
  <2>2. CASE ScanStart \/ ScanSteps \/ ScanCancel \/ StopSteps
    BY <2>2, ViewTypes
       DEF ScanStart, ScanSteps, ScanCancel, ScanOpen, ScanEnd, ScanRestored,
           StopSteps, StopStart, StopDisconnect, Acquire, Enter, Goto, Release,
           LeaveQueue, control, Critical, Poll, Scan, Stop
  <2>3. CASE LinkDrop \/ Redial \/ (\E r \in Registers : Modify(r)) \/ UNCHANGED vars
    BY <2>3 DEF LinkDrop, Redial, Modify, EnvVars, vars, control, Critical
  <2>4. QED
    BY <2>1, <2>2, <2>3
<1>4. QED
  BY <1>1, <1>2, <1>3, QuietStep, QuietView DEF Fresh, IdleCycle

\* ViewSpec: for any registers, writers and bounds, every behaviour of the
\* detailed system, with its retries, cancellations, resets, scans and
\* shutdown, is a behaviour of RegisterView.
THEOREM ViewRefined == Spec => ViewSpec
<1>1. Init => View!Init /\ Fresh
  <2> SUFFICES ASSUME Init PROVE View!Init /\ Fresh
    OBVIOUS
  <2>1. View!Init
    BY DEF Init, View!Init
  <2>2. Fresh
    BY DEF Init, Fresh, IdleCycle, NothingAhead, BufferFresh, NoCycle
  <2>3. QED
    BY <2>1, <2>2
<1>2. Inv /\ Fresh /\ [Next]_vars => ViewStep /\ Fresh'
  <2> SUFFICES ASSUME Inv, Fresh, [Next]_vars
               PROVE  ViewStep /\ Fresh'
    OBVIOUS
  <2>1. CASE PollSteps \/ PollCancelQueued \/ PollCancel
    BY <2>1, PollStartView, PollReadOkView, PollView DEF PollSteps
  <2>2. ASSUME NEW w \in Writers,
               \/ \E r \in Writable, readback \in BOOLEAN : WriteStart(w, r, readback)
               \/ WriterSteps(w) \/ WriteCancelQueued(w) \/ WriteCancel(w)
        PROVE  ViewStep /\ Fresh'
    BY <2>2, WriterView
  <2>3. CASE \/ Grant \/ ScanStart \/ ScanSteps \/ ScanCancel \/ StopSteps
             \/ LinkDrop \/ Redial \/ (\E r \in Registers : Modify(r))
             \/ UNCHANGED vars
    BY <2>3, OtherView
  <2>4. QED
    BY <2>1, <2>2, <2>3 DEF Next
<1>3. ViewStep => [View!Next]_(View!vars)
  BY DEF ViewStep
<1>4. QED
  BY <1>1, <1>2, <1>3, Invariance, PTL DEF Spec, ViewSpec, View!Spec
=============================================================================
