------------------------------ MODULE Scanner ------------------------------
(***************************************************************************)
(* One use of the device scanner: the connection check and scan of the      *)
(* config flow (caller "flow"), or the scan the coordinator runs at set-up  *)
(* (caller "setup").                                                        *)
(*                                                                         *)
(* A step is one attempt of one request, with the bookkeeping that follows  *)
(* before the next await.  An address stands for the registers named there. *)
(* The unit answers a request when it has every address of it, and rejects  *)
(* it with exception code 2 otherwise; at most MaxFaults requests go wrong  *)
(* in another way.  The scanner's memory (cache, report) outlives a failed  *)
(* run: the config flow retries scan_device on the same object.             *)
(***************************************************************************)
EXTENDS ReadPlan, FiniteSetsExt

CONSTANTS
  Named,        \* [Kinds -> the addresses with a register name]
  Tails,        \* holding addresses inside a multi-word register
  Missing,      \* [Kinds -> addresses of KNOWN_MISSING_REGISTERS]
  UartOptional, \* UART_OPTIONAL_REGS, holding addresses of registers of one word
  Alarms,       \* holding addresses of the e_, s_, alarm and error registers
  InfoBlock,    \* <<first, count>> of the device-info input block
  Version,      \* the input addresses of the firmware version
  NameBlock,    \* <<first, count>> of the device_name holding block
  RawAddresses, \* input addresses a deep scan reads
  Batch,        \* effective_batch
  Boundaries,   \* HOLDING_BATCH_BOUNDARIES
  Retry,        \* attempts of one request
  Runs,         \* attempts of run_with_retry
  Setups,       \* the units and configurations considered
  MaxFaults     \* bound on faults that are not the unit's own refusals

Words == {"input", "holding"}
Bits == {"coil", "discrete"}
Kinds == Words \cup Bits
Modes == {"tcp", "tcp_rtu"}

SetupType ==
  [has : [Kinds -> SUBSET Nat],    \* the addresses the unit answers
   sane : [Words -> SUBSET Nat],   \* those whose value is valid
   speaks : Modes,                 \* the framing at the other end
   config : Modes \cup {"auto"},   \* connection_mode
   full : BOOLEAN, deep : BOOLEAN, safe : BOOLEAN,
   uart : BOOLEAN,                 \* scan_uart_settings
   caller : {"flow", "setup"}]

ASSUME BoundsAssumption == /\ Batch \in Nat \ {0}
                           /\ Retry \in Nat \ {0}
                           /\ Runs \in Nat \ {0}
                           /\ MaxFaults \in Nat
ASSUME AddressAssumption == /\ Named \in [Kinds -> SUBSET Nat]
                            /\ Missing \in [Kinds -> SUBSET Nat]
                            /\ Tails \subseteq Nat /\ Alarms \subseteq Nat /\ UartOptional \subseteq Nat
                            /\ RawAddresses \subseteq Nat /\ Version \subseteq Nat
                            /\ \A k \in Kinds : IsFiniteSet(Named[k])
                            /\ \A s \in {Tails, RawAddresses, Version} : IsFiniteSet(s)
                            /\ InfoBlock \in Nat \X Nat /\ NameBlock \in Nat \X Nat
ASSUME SetupsAssumption == Setups \subseteq SetupType

VARIABLES
  setup,      \* the unit and the configuration; never changes
  stage,      \* "verify", "probe", "prepare", "detect", "connect", "scan" or "done"
  modes,      \* modes still to try in "verify" and "detect"
  runs,       \* attempts run_with_retry has left
  resolved,   \* _resolved_connection_mode, or "none"
  transport,  \* the mode of scanner._transport, or "none"
  client,     \* scanner._client: "none", "live", or "stale" once its transport dropped it
  open,       \* the transports that hold a connection to the unit
  phase,      \* what the scan is at
  todo,       \* the requests of the phase not made yet
  read,       \* the request being made, or Idle
  resetting,  \* _reset_transport_before_fallback is under way
  parts,      \* the version parts known in this run
  cache,      \* failed addresses, unsupported ranges and failure counts
  report,     \* available_registers and failed_addresses
  asked,      \* word addresses requested on their own in this run (history)
  faults,     \* faults left
  outcome     \* "none" until the caller gets its answer

link == <<stage, modes, runs, resolved, transport, client, open>>
plan == <<phase, todo, read, resetting, parts>>
vars == <<setup, link, plan, cache, report, asked, faults, outcome>>

Idle == [role |-> "idle"]

-----------------------------------------------------------------------------
(* What the scanner remembers about failures                               *)

CodedRange(first, last, code) == [first |-> first, last |-> last, code |-> code]
Holds(r, a) == r.first <= a /\ a <= r.last
Meets(r, first, last) == r.first <= last /\ first <= r.last
Nonempty(ranges) == {r \in ranges : r.first <= r.last}
Before(r, a) == CodedRange(r.first, a - 1, r.code)
After(r, a) == CodedRange(a + 1, r.last, r.code)

\* Mutant: the range of a cleared address is left as it was.
RangeKept(ranges, a) == ranges

\* mark_input_supported, mark_holding_supported: the address leaves its range.
Supported(ranges, a) ==
  {r \in ranges : ~Holds(r, a)} \cup
  Nonempty(UNION {{Before(r, a), After(r, a)} : r \in {q \in ranges : Holds(q, a)}})

\* mark_holding_unsupported: the ranges met are cut back.
HoldingUnsupported(ranges, first, last, code) ==
  LET met == {r \in ranges : Meets(r, first, last)}
  IN  (ranges \ met) \cup {CodedRange(first, last, code)}
      \cup Nonempty({Before(r, first) : r \in met} \cup {After(r, last) : r \in met})

\* mark_input_unsupported: the ranges met are merged.  Ranges are disjoint, so
\* at most one of them begins before the new one, and at most one ends after it.
InputUnsupported(ranges, first, last, code) ==
  LET met == {r \in ranges : Meets(r, first, last)}
      earlier == {r \in met : r.first < first}
      later == {r \in met : r.last > last}
      start == IF earlier = {} THEN first ELSE (CHOOSE r \in earlier : TRUE).first
      end == IF later = {} THEN last ELSE (CHOOSE r \in later : TRUE).last
  IN  (ranges \ met) \cup {CodedRange(start, end, code)}

\* _handle_error_response, on the cache.
Refused(c, j, code) ==
  [c EXCEPT !.failed[j.kind] = @ \cup (j.first .. j.last),
            !.ranges[j.kind] = IF j.kind = "input"
                               THEN InputUnsupported(@, j.first, j.last, code)
                               ELSE HoldingUnsupported(@, j.first, j.last, code)]

\* _track_register_failure counts the failures of single-register requests; a
\* count is only compared with Retry and saturates there.
Tracked(c, j) ==
  IF j.first # j.last THEN c
  ELSE LET n == IF c.count[j.kind][j.first] < Retry
                THEN c.count[j.kind][j.first] + 1 ELSE Retry
       IN  [c EXCEPT !.count[j.kind][j.first] = n,
                     !.failed[j.kind] = IF n >= Retry THEN @ \cup {j.first} ELSE @]

\* A good answer: a forced single read clears the address, and a holding
\* request forgets the failures of its first address.
Cleared(c, j) ==
  LET single == j.force /\ j.first = j.last
  IN  [c EXCEPT !.failed[j.kind] = IF single THEN @ \ {j.first} ELSE @,
                !.ranges[j.kind] = IF single THEN Supported(@, j.first) ELSE @,
                !.count[j.kind][j.first] = IF j.kind = "holding" THEN 0 ELSE @]

\* _expand_cached_failed_range: the failed addresses around the first failed
\* one of the request, which may lie outside it.
FailedAround(failed, j) ==
  LET a == CHOOSE x \in failed \cap (j.first .. j.last) :
             \A y \in failed \cap (j.first .. j.last) : x <= y
  IN  {b \in failed : a .. b \subseteq failed /\ b .. a \subseteq failed}

\* classify_skip_range: the addresses reported when the request is skipped,
\* {} when it has to be made.
SkipRange(j) ==
  IF j.force THEN {}
  ELSE IF \E r \in cache.ranges[j.kind] : Holds(r, j.first) /\ Holds(r, j.last)
       THEN j.first .. j.last
  ELSE IF cache.failed[j.kind] \cap (j.first .. j.last) = {} THEN {}
  ELSE FailedAround(cache.failed[j.kind], j)

\* _prepare_holding_read: a register that failed Retry times is not asked for
\* again, not even by a probe.
GivenUp(j) == j.kind = "holding" /\ cache.count["holding"][j.first] >= Retry

Skipped(j) == IF SkipRange(j) # {} THEN SkipRange(j)
              ELSE IF GivenUp(j) THEN {j.first} ELSE {}

-----------------------------------------------------------------------------
(* The requests of each phase                                              *)

Requests(kind, pairs, force, role) ==
  [i \in DOMAIN pairs |->
     [kind |-> kind, first |-> pairs[i][1], last |-> pairs[i][1] + pairs[i][2] - 1,
      force |-> force, role |-> role, attempt |-> 1, aborted |-> FALSE]]

Singles(kind, addresses, force, role) == Requests(kind, GroupReads(addresses, 1, {}), force, role)

AllMissing == UNION {Missing[k] : k \in Kinds}
\* What a result may list as missing; of it, what a scan of the named registers reads.
Listed(kind) == Named[kind] \ Missing[kind]
LeftOut(kind) == IF kind = "holding" /\ ~setup.uart THEN UartOptional ELSE {}
Sought(kind) == Listed(kind) \ LeftOut(kind)
Wanted(kind) == Sought(kind) \cup (IF kind = "holding" THEN Tails ELSE {})
BatchesOf(addresses, boundaries) ==
  BatchPlan(addresses, Batch, boundaries, AllMissing, setup.safe)

\* What run_full_scan sweeps: every address up to the last one with a name.
Swept(kind) == IF Named[kind] = {} THEN {} ELSE 0 .. Max(Named[kind])

\* run_named_scan and run_full_scan, one register type.
TypeScan(kind) ==
  IF setup.full
  THEN Requests(kind, GroupReads(Swept(kind), Batch, {}), kind \in Words, "full")
  ELSE Requests(kind, BatchesOf(Wanted(kind), IF kind = "holding" THEN Boundaries ELSE {}),
                FALSE, "batch")

PhaseRequests(p) ==
  CASE p = "info" -> Requests("input", ChunkRange(InfoBlock[1], InfoBlock[2], Batch), FALSE, "block")
    [] p = "firmware" -> Singles("input", Version \ parts, TRUE, "version")
    [] p = "identity" -> Requests("holding", ChunkRange(NameBlock[1], NameBlock[2], Batch), FALSE, "block")
    [] p \in Kinds -> TypeScan(p)
    [] p = "raw" -> IF setup.deep THEN Requests("input", BatchesOf(RawAddresses, {}), FALSE, "raw")
                                  ELSE <<>>

Following(p) == CASE p = "info" -> "firmware" [] p = "firmware" -> "identity"
                  [] p = "identity" -> "input" [] p = "input" -> "holding"
                  [] p = "holding" -> "coil" [] p = "coil" -> "discrete"
                  [] p = "discrete" -> "raw"

-----------------------------------------------------------------------------
(* What becomes of a request                                               *)

Excepted(rep, kind, addresses) == [rep EXCEPT !.exceptions[kind] = @ \cup addresses]

\* The values of an answer are sorted into available and invalid registers; a
\* word probe also takes its address off the list of exceptions.
Found(j, rep) ==
  LET names == (j.first .. j.last) \cap (IF j.role = "full" THEN Named[j.kind] ELSE Sought(j.kind))
      good == IF j.kind \in Words THEN names \cap setup.sane[j.kind] ELSE names
  IN  IF j.role \notin {"batch", "probe", "full"} THEN rep
      ELSE [rep EXCEPT
              !.available[j.kind] = @ \cup good,
              !.invalid[j.kind] = @ \cup (names \ good),
              !.exceptions[j.kind] = IF j.role = "probe" /\ j.kind \in Words THEN @ \ {j.first} ELSE @]

\* Mutant: a failed probe leaves its report to the read that failed.
LostQuietly(j, rep) ==
  IF j.role \in {"batch", "full"}
  THEN [rep EXCEPT !.batch[j.kind] = @ \cup (j.first .. j.last)] ELSE rep

Lost(j, rep) ==
  CASE j.role \in {"batch", "full"} -> [rep EXCEPT !.batch[j.kind] = @ \cup (j.first .. j.last)]
    [] j.role = "probe" -> Excepted(rep, j.kind, {j.first})
    [] OTHER -> rep

\* Mutants: probes that respect the cache of failures; probes that miss the
\* first register of the batch.
CachedProbes(j) == Singles(j.kind, (j.first .. j.last) \cap Sought(j.kind), FALSE, "probe")
ShortProbes(j) == Singles(j.kind, ((j.first + 1) .. j.last) \cap Sought(j.kind), TRUE, "probe")

Probes(j) == Singles(j.kind, (j.first .. j.last) \cap Sought(j.kind), TRUE, "probe")

\* The request is over with or without data; rest are the requests after it.
Deliver(j, got, c, rep, rest) ==
  /\ cache' = c
  /\ report' = IF got THEN Found(j, rep) ELSE Lost(j, rep)
  /\ read' = Idle
  /\ todo' = CASE ~got /\ j.role = "block" -> <<>>
               [] ~got /\ j.role = "batch" -> Probes(j) \o rest
               [] OTHER -> rest
  /\ resetting' = (~got /\ j.role = "batch" /\ j.kind \in Words)
  /\ parts' = CASE ~got /\ phase = "info" -> {}
                [] got /\ j.role = "version" -> parts \cup {j.first}
                [] OTHER -> parts
  /\ UNCHANGED phase

\* _finalize_register_read_failure, and the end of read_bit_registers.
GiveUp(aborted, c, rep) ==
  Deliver(read, FALSE, c,
          IF aborted /\ read.kind \in Words THEN rep
          ELSE Excepted(rep, read.kind, read.first .. read.last), todo)

\* Mutants: one attempt too many; an attempt that is not counted.
OneAttemptMore(aborted, c, rep) ==
  IF read.attempt <= Retry
  THEN /\ read' = [read EXCEPT !.attempt = @ + 1, !.aborted = aborted]
       /\ cache' = c
       /\ report' = rep
       /\ UNCHANGED <<phase, todo, resetting, parts>>
  ELSE GiveUp(aborted, c, rep)
UncountedAttempt(aborted, c, rep) ==
  /\ read' = [read EXCEPT !.aborted = aborted]
  /\ cache' = c
  /\ report' = rep
  /\ UNCHANGED <<phase, todo, resetting, parts>>

NextAttempt(aborted, c, rep) ==
  IF read.attempt < Retry
  THEN /\ read' = [read EXCEPT !.attempt = @ + 1, !.aborted = aborted]
       /\ cache' = c
       /\ report' = rep
       /\ UNCHANGED <<phase, todo, resetting, parts>>
  ELSE GiveUp(aborted, c, rep)

-----------------------------------------------------------------------------
(* Making the requests of a scan                                           *)

NoRequests == /\ phase' = "none" /\ todo' = <<>> /\ read' = Idle
              /\ resetting' = FALSE /\ parts' = {}

\* scanner.close(), and where the caller goes on.
CloseAnd(next) ==
  /\ stage' = next
  /\ transport' = "none"
  /\ client' = "none"
  /\ open' = open \ {transport}
  /\ NoRequests
  /\ UNCHANGED <<setup, modes, resolved, cache, report>>

\* An exception leaves scan_device, a timeout or a failed connection: run_with_retry
\* starts it again, or the caller gets the error.  The coordinator does not retry.
CallFails(again) ==
  IF setup.caller = "flow" /\ runs > 1
  THEN /\ CloseAnd(again)
       /\ runs' = runs - 1
       /\ UNCHANGED outcome
  ELSE /\ CloseAnd("done")
       /\ outcome' = "failed"
       /\ UNCHANGED runs

Scanning == stage = "scan" /\ ~resetting
CanFault == faults > 0
UsesTransport == client = "none"
Reachable == transport = setup.speaks /\ (UsesTransport \/ client = "live")

\* Take the next request: make it, or answer it from the cache of failures.
BeginRequest ==
  /\ Scanning /\ read = Idle /\ todo # <<>>
  /\ LET j == Head(todo) IN
     /\ j.kind \in Bits => client # "none"
     /\ IF j.kind \in Words /\ Skipped(j) # {}
        THEN Deliver(j, FALSE, cache, Excepted(report, j.kind, Skipped(j)), Tail(todo))
        ELSE /\ read' = j
             /\ todo' = Tail(todo)
             /\ UNCHANGED <<phase, resetting, parts, cache, report>>
     /\ asked' = IF j.kind \in Words /\ j.first = j.last /\ Skipped(j) = {}
                 THEN [asked EXCEPT ![j.kind] = @ \cup {j.first}] ELSE asked
  /\ UNCHANGED <<setup, link, faults, outcome>>

\* _resolve_bit_read_client: bit reads only go through a pymodbus client,
\* which a raw RTU-over-TCP transport does not have.
NoBitClient ==
  /\ Scanning /\ read = Idle /\ todo # <<>>
  /\ Head(todo).kind \in Bits /\ client = "none"
  /\ CallFails("prepare")
  /\ UNCHANGED <<asked, faults>>

\* A word request over the transport dials the connection it needs.
Dialled == open' = IF UsesTransport THEN open \cup {transport} ELSE open
SameLink == UNCHANGED <<setup, stage, modes, runs, resolved, transport, client, asked, outcome>>
Spend(free) == IF free THEN UNCHANGED faults ELSE CanFault /\ faults' = faults - 1

Reading(kinds) == Scanning /\ read # Idle /\ read.kind \in kinds

Answered ==
  /\ Reading(Kinds) /\ Reachable
  /\ (read.first .. read.last) \subseteq setup.has[read.kind]
  /\ Deliver(read, TRUE, IF read.kind \in Words THEN Cleared(cache, read) ELSE cache, report, todo)
  /\ Dialled /\ SameLink /\ UNCHANGED faults

\* Exception code 2: the unit lacks an address of the request.
WordRejected ==
  /\ Reading(Words) /\ Reachable
  /\ ~((read.first .. read.last) \subseteq setup.has[read.kind])
  /\ Deliver(read, FALSE, Refused(cache, read, 2),
             Excepted(report, read.kind, read.first .. read.last), todo)
  /\ Dialled /\ SameLink /\ UNCHANGED faults

TrackedReport(j) ==
  Excepted(report, j.kind, Tracked(cache, j).failed[j.kind] \ cache.failed[j.kind])

\* Another exception code: final for an input request; a holding request is
\* tried again until its register counts as failed.
WordRefusedOtherwise ==
  /\ Reading(Words) /\ Reachable /\ Spend(FALSE)
  /\ LET c == Tracked(cache, read) IN
     IF read.kind = "input"
     THEN Deliver(read, FALSE, Refused(cache, read, 6),
                  Excepted(report, "input", read.first .. read.last), todo)
     ELSE IF read.first = read.last /\ read.first \in c.failed["holding"]
          THEN Deliver(read, FALSE, Refused(c, read, 6),
                       Excepted(report, "holding", {read.first}), todo)
          ELSE NextAttempt(read.aborted, c, TrackedReport(read))
  /\ Dialled /\ SameLink

\* Errors of themselves: nobody answers in the wrong framing, and a dropped
\* client refuses.  Others need a fault.
Timeout == Spend(transport # setup.speaks)
LinkError == Spend(~Reachable)

WordTimesOut ==
  /\ Reading(Words) /\ Timeout
  /\ IF read.kind = "input" THEN GiveUp(TRUE, cache, report)
                            ELSE NextAttempt(TRUE, Tracked(cache, read), TrackedReport(read))
  /\ Dialled /\ SameLink

\* A ModbusIOException that says "cancelled".
WordCancelled ==
  /\ Reading(Words) /\ Spend(FALSE)
  /\ GiveUp(TRUE, cache, report)
  /\ Dialled /\ SameLink

\* Any other Modbus or connection exception.
WordModbusError ==
  /\ Reading(Words) /\ LinkError
  /\ NextAttempt(read.aborted, Tracked(cache, read), TrackedReport(read))
  /\ Dialled /\ SameLink

\* An OSError ends the request; an attempt that was aborted before still counts.
OsError ==
  /\ Reading(Kinds) /\ Spend(FALSE)
  /\ GiveUp(read.aborted, cache, report)
  /\ UNCHANGED open /\ SameLink

\* An error answer or a timeout of a bit read: the next attempt.
BitUnanswered ==
  /\ Reading(Bits)
  /\ IF Reachable /\ ~((read.first .. read.last) \subseteq setup.has[read.kind])
     THEN UNCHANGED faults ELSE Timeout
  /\ NextAttempt(FALSE, cache, report)
  /\ UNCHANGED open /\ SameLink

\* _attempt_bit_reconnect
BitModbusError ==
  /\ Reading(Bits) /\ LinkError
  /\ NextAttempt(FALSE, cache, report)
  /\ \/ client' = "live" /\ open' = open \cup {transport}
     \/ client' = "stale" /\ open' = open \ {transport}
  /\ UNCHANGED <<setup, stage, modes, runs, resolved, transport, asked, outcome>>

\* _reset_transport_before_fallback swallows the errors of both steps.
ResetTransport ==
  /\ stage = "scan" /\ resetting
  /\ resetting' = FALSE
  /\ \/ /\ open' = open \cup {transport}
        /\ client' = IF client = "none" THEN "none" ELSE "live"
        /\ UNCHANGED faults
     \/ /\ Spend(FALSE)
        /\ open' = open \ {transport}
        /\ client' = IF client = "none" THEN "none" ELSE "stale"
  /\ UNCHANGED <<setup, stage, modes, runs, resolved, transport, phase, todo, read,
                 parts, cache, report, asked, outcome>>

PhaseDone == Scanning /\ read = Idle /\ todo = <<>>

\* scan_named_holding ends by declaring alarm registers that have not failed.
AlarmsFound(rep) ==
  IF phase = "holding" /\ ~setup.full
  THEN [rep EXCEPT !.available["holding"] = @ \cup (Alarms \ rep.exceptions["holding"])]
  ELSE rep

NextPhase ==
  /\ PhaseDone /\ phase # "raw"
  /\ phase' = Following(phase)
  /\ todo' = PhaseRequests(phase')
  /\ report' = IF phase = "discrete" THEN [report EXCEPT !.before = report.exceptions["input"]]
                                     ELSE AlarmsFound(report)
  /\ UNCHANGED <<setup, link, read, resetting, parts, cache, asked, faults, outcome>>

\* _accumulate_raw_registers sets the failures of the raw reads apart; then
\* the result is built and scan_device closes the connection.
FinishScan ==
  /\ PhaseDone /\ phase = "raw"
  /\ report' = IF setup.deep
               THEN [report EXCEPT !.raw = @ \cup (report.exceptions["input"] \ report.before),
                                   !.exceptions["input"] = report.before]
               ELSE report
  /\ stage' = "done" /\ outcome' = "scanned"
  /\ transport' = "none" /\ client' = "none" /\ open' = open \ {transport}
  /\ NoRequests
  /\ UNCHANGED <<setup, modes, runs, resolved, cache, asked, faults>>

\* What the result lists: collect_missing_registers and
\* _collect_recovered_batch_failures.
MissingRegisters(kind) == Listed(kind) \ report.available[kind]
Recovered(kind) == report.batch[kind] \ report.exceptions[kind]

-----------------------------------------------------------------------------
(* Finding the connection mode                                             *)

AutoOrder == <<"tcp", "tcp_rtu">>
ModesToVerify == IF setup.config = "auto" THEN AutoOrder ELSE <<setup.config>>
SamePlan == UNCHANGED <<plan, cache, report, asked>>

\* verify_connection: one transport per mode, closed again whatever happens.
VerifyConnect ==
  /\ stage = "verify" /\ modes # <<>>
  /\ stage' = "probe"
  /\ open' = open \cup {Head(modes)}
  /\ UNCHANGED <<setup, modes, runs, resolved, transport, client, faults, outcome>> /\ SamePlan

VerifySucceeds ==
  /\ stage = "probe" /\ Head(modes) = setup.speaks
  /\ stage' = "prepare"
  /\ resolved' = Head(modes)
  /\ open' = open \ {Head(modes)}
  /\ runs' = Runs
  /\ UNCHANGED <<setup, modes, transport, client, faults, outcome>> /\ SamePlan

\* A timeout, a refused connection or an I/O error: the next mode, if any, or the
\* next run.  A Modbus error of another kind, always a fault, is final in the last mode.
VerifyFails ==
  /\ stage = "probe" /\ Spend(Head(modes) # setup.speaks)
  /\ open' = open \ {Head(modes)}
  /\ modes' = IF Len(modes) > 1 THEN Tail(modes) ELSE ModesToVerify
  /\ IF Len(modes) > 1
     THEN stage' = "verify" /\ UNCHANGED <<runs, outcome>>
     ELSE \/ runs > 1 /\ stage' = "verify" /\ runs' = runs - 1 /\ UNCHANGED outcome
          \/ /\ runs = 1 \/ faults' < faults
             /\ stage' = "done" /\ outcome' = "failed" /\ UNCHANGED runs
  /\ UNCHANGED <<setup, resolved, transport, client>> /\ SamePlan

\* A "request cancelled" answer raises TimeoutError out of the handler: the
\* modes left are not tried in this call.
VerifyCancelledRequest ==
  /\ stage = "probe" /\ Spend(Head(modes) # setup.speaks)
  /\ open' = open \ {Head(modes)}
  /\ modes' = ModesToVerify
  /\ IF runs > 1 THEN stage' = "verify" /\ runs' = runs - 1 /\ UNCHANGED outcome
                 ELSE stage' = "done" /\ outcome' = "failed" /\ UNCHANGED runs
  /\ UNCHANGED <<setup, resolved, transport, client>> /\ SamePlan

\* _prepare_scan_transport
PrepareTransport ==
  /\ stage = "prepare"
  /\ IF resolved = "none" /\ setup.config = "auto"
     THEN stage' = "detect" /\ modes' = AutoOrder /\ UNCHANGED transport
     ELSE stage' = "connect" /\ UNCHANGED modes
          /\ transport' = IF resolved # "none" THEN resolved ELSE setup.config
  /\ UNCHANGED <<setup, runs, resolved, client, open, faults, outcome>> /\ SamePlan

StartScan(mode) ==
  /\ stage' = "scan"
  /\ transport' = mode
  /\ client' = IF mode = "tcp" THEN "live" ELSE "none"
  /\ open' = open \cup {mode}
  /\ phase' = "info" /\ todo' = PhaseRequests("info")
  /\ parts' = Version
  /\ asked' = [k \in Words |-> {}]
  /\ UNCHANGED <<setup, runs, read, resetting, cache, report, outcome>>

\* _auto_detect_tcp_transport dials a mode ...
DetectConnect ==
  /\ stage = "detect" /\ modes # <<>> /\ Head(modes) \notin open
  /\ open' = open \cup {Head(modes)}
  /\ UNCHANGED <<setup, stage, modes, runs, resolved, transport, client, faults, outcome>> /\ SamePlan

\* ... and keeps it when the probe is answered, even by an error.
DetectSucceeds ==
  /\ stage = "detect" /\ modes # <<>> /\ Head(modes) \in open
  /\ StartScan(Head(modes))
  /\ resolved' = Head(modes)
  /\ UNCHANGED <<modes, faults>>

DetectFails ==
  /\ stage = "detect" /\ modes # <<>> /\ Head(modes) \in open
  /\ Spend(Head(modes) # setup.speaks)
  /\ open' = open \ {Head(modes)}
  /\ modes' = Tail(modes)
  /\ IF Tail(modes) = <<>> THEN stage' = "done" /\ outcome' = "failed"
                           ELSE UNCHANGED <<stage, outcome>>
  /\ UNCHANGED <<setup, runs, resolved, transport, client>> /\ SamePlan

Connect ==
  /\ stage = "connect"
  /\ \/ StartScan(transport) /\ UNCHANGED <<modes, resolved, faults>>
     \/ Spend(FALSE) /\ CallFails("prepare") /\ UNCHANGED asked

-----------------------------------------------------------------------------
(* Time limits and cancellation                                            *)

\* Mutant: verify_connection without its finally clause.
VerifyLeaks ==
  /\ stage = "probe" /\ Spend(FALSE)
  /\ modes' = ModesToVerify
  /\ IF runs > 1 THEN stage' = "verify" /\ runs' = runs - 1 /\ UNCHANGED outcome
                 ELSE stage' = "done" /\ outcome' = "failed" /\ UNCHANGED runs
  /\ UNCHANGED <<setup, resolved, transport, client, open>> /\ SamePlan

\* wait_for around verify_connection and scan_device of the config flow.
VerifyTimesOut ==
  /\ stage = "probe" /\ Spend(FALSE)
  /\ open' = open \ {Head(modes)}
  /\ modes' = ModesToVerify
  /\ IF runs > 1 THEN stage' = "verify" /\ runs' = runs - 1 /\ UNCHANGED outcome
                 ELSE stage' = "done" /\ outcome' = "failed" /\ UNCHANGED runs
  /\ UNCHANGED <<setup, resolved, transport, client>> /\ SamePlan

ScanTimesOut ==
  /\ setup.caller = "flow" /\ stage = "scan" /\ Spend(FALSE)
  /\ CallFails("prepare")
  /\ UNCHANGED asked

\* The flow or the set-up is cancelled; the finally clauses on the way close
\* what they know of.
Cancel ==
  /\ stage \in {"probe", "detect", "connect", "scan"} /\ Spend(FALSE)
  /\ outcome' = "cancelled"
  /\ stage' = "done"
  /\ transport' = "none" /\ client' = "none"
  /\ open' = open \ (IF stage = "probe" THEN {Head(modes)} ELSE {transport})
  /\ NoRequests
  /\ UNCHANGED <<setup, modes, runs, resolved, cache, report, asked>>

-----------------------------------------------------------------------------

Addresses == (UNION {Named[k] \cup Swept(k) : k \in Kinds}) \cup Tails \cup RawAddresses \cup Version
             \cup Span(InfoBlock[1], InfoBlock[2]) \cup Span(NameBlock[1], NameBlock[2])

\* initialize_runtime_collections
Init ==
  /\ setup \in Setups
  /\ stage = IF setup.caller = "flow" THEN "verify" ELSE "prepare"
  /\ modes = IF setup.caller = "flow" THEN ModesToVerify ELSE <<>>
  /\ runs = Runs
  /\ resolved = IF setup.config = "auto" THEN "none" ELSE setup.config
  /\ transport = "none" /\ client = "none" /\ open = {}
  /\ phase = "none" /\ todo = <<>> /\ read = Idle /\ resetting = FALSE /\ parts = {}
  /\ cache = [failed |-> [k \in Words |-> {}], ranges |-> [k \in Words |-> {}],
              count |-> [k \in Words |-> [a \in Addresses |-> 0]]]
  /\ report = [available |-> [k \in Kinds |-> {}], exceptions |-> [k \in Kinds |-> {}],
               invalid |-> [k \in Kinds |-> {}], batch |-> [k \in Kinds |-> {}],
               raw |-> {}, before |-> {}]
  /\ asked = [k \in Words |-> {}]
  /\ faults = MaxFaults
  /\ outcome = "none"

Request == \/ BeginRequest \/ NoBitClient \/ Answered \/ WordRejected \/ WordRefusedOtherwise
           \/ WordTimesOut \/ WordCancelled \/ WordModbusError \/ OsError
           \/ BitUnanswered \/ BitModbusError \/ ResetTransport \/ NextPhase \/ FinishScan
FindMode == \/ VerifyConnect \/ VerifySucceeds \/ VerifyFails \/ VerifyCancelledRequest
            \/ PrepareTransport \/ DetectConnect \/ DetectSucceeds \/ DetectFails \/ Connect
Next == Request \/ FindMode \/ VerifyTimesOut \/ ScanTimesOut \/ Cancel

Spec == Init /\ [][Next]_vars
\* A request ends: the transport puts a time limit on every call.
FairSpec == Spec /\ WF_vars(Request \/ FindMode)

-----------------------------------------------------------------------------
(* Properties                                                              *)

\* TLC tests membership without enumerating these sets.
CodedRanges == [first : Nat, last : Nat, code : {2, 6}]
RequestType ==
  {j \in [kind : Kinds, first : Addresses, last : Nat, force : BOOLEAN,
          role : {"block", "version", "batch", "probe", "full", "raw"},
          attempt : 1 .. Retry, aborted : BOOLEAN] : j.first <= j.last}
CacheType == [failed : [Words -> SUBSET Nat], ranges : [Words -> SUBSET CodedRanges],
              count : [Words -> [Addresses -> 0 .. Retry]]]
ReportType == [available : [Kinds -> SUBSET Nat], exceptions : [Kinds -> SUBSET Nat],
               invalid : [Kinds -> SUBSET Nat], batch : [Kinds -> SUBSET Nat],
               raw : SUBSET Nat, before : SUBSET Nat]
Phases == Kinds \cup {"none", "info", "firmware", "identity", "raw"}

\* Every variable keeps its type through all the steps of a validation.
TypeOK ==
  /\ setup \in Setups
  /\ stage \in {"verify", "probe", "prepare", "detect", "connect", "scan", "done"}
  /\ modes \in Seq(Modes)
  /\ runs \in 1 .. Runs
  /\ resolved \in Modes \cup {"none"}
  /\ transport \in Modes \cup {"none"}
  /\ client \in {"none", "live", "stale"}
  /\ open \subseteq Modes
  /\ phase \in Phases
  /\ todo \in Seq(RequestType)
  /\ read \in RequestType \cup {Idle}
  /\ resetting \in BOOLEAN
  /\ parts \subseteq Version
  /\ cache \in CacheType
  /\ report \in ReportType
  /\ asked \in [Words -> SUBSET Nat]
  /\ faults \in 0 .. MaxFaults
  /\ outcome \in {"none", "scanned", "failed", "cancelled"}

Apart(r, s) == r.last < s.first \/ s.last < r.first

\* The cache of failures stays coherent however refusals, probes that succeed
\* and retried scans cut and merge it: the unsupported ranges of a register
\* type are not empty, do not overlap, and cover failed addresses only, so no
\* address a probe cleared is skipped as unsupported.
CacheCoherent ==
  \A k \in Words :
    /\ \A r \in cache.ranges[k] : r.first <= r.last /\ r.first .. r.last \subseteq cache.failed[k]
    /\ \A r, s \in cache.ranges[k] : r # s => Apart(r, s)

FirstScanDone == outcome = "scanned" /\ runs = Runs /\ ~setup.full

\* A word register is not written off because of its neighbours: when the first
\* scan has neither found it nor read an invalid value from it, it was requested
\* on its own.  The requests that fail are batches, the cache of failures skips
\* whole ranges, and a skipped range may reach past the request.
FailedWereProbed ==
  FirstScanDone =>
    \A k \in Words : Sought(k) \ (report.available[k] \cup report.invalid[k]) \subseteq asked[k]

\* When nothing but the unit's own refusals goes wrong, the scan finds exactly
\* the registers the unit answers with a valid value, and the alarm registers,
\* whatever the batches and the blocks read before lumped together.
QuietScanIsExact ==
  FirstScanDone /\ faults = MaxFaults /\ resolved = setup.speaks =>
    \A k \in Kinds :
      report.available[k] =
        (Sought(k) \cap setup.has[k] \cap (IF k \in Words THEN setup.sane[k] ELSE Nat))
        \cup (IF k = "holding" THEN Alarms \ report.exceptions[k] ELSE {})

\* A register the result lists as missing was refused, held an invalid value or,
\* in a full scan, was lost with its batch: no path of retries, skipped ranges
\* and aborted requests drops an address without a trace.  The UART settings a scan
\* leaves out are listed as missing all the same.
MissingIsExplained ==
  outcome = "scanned" =>
    \A k \in Kinds :
      MissingRegisters(k) \subseteq
        report.exceptions[k] \cup report.invalid[k] \cup (IF setup.full THEN Recovered(k) ELSE LeftOut(k))

\* The config flow leaves no connection to the unit open, however the
\* validation ends: the unit serves few connections at a time.
ValidationClosesAll == setup.caller = "flow" /\ outcome # "none" => open = {}

\* The caller gets an answer: resets, probes, retries and mode changes come to
\* an end.
ScanEnds == <>(outcome # "none")
=============================================================================
