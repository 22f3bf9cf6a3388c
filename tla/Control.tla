------------------------------ MODULE Control ------------------------------
(***************************************************************************)
(* What happens when somebody operates the unit from Home Assistant: an    *)
(* entity or a service writes registers, the coordinator confirms, retries *)
(* or gives up, and what the entities show follows.  Meanwhile the unit's  *)
(* own panel changes the same registers, and the poll goes on.  Commands   *)
(* works out what a command writes and what a display shows.               *)
(*                                                                         *)
(* One request and its answer are one step, for the write lock keeps every *)
(* other client away; the panel may act between two steps.  Links and      *)
(* DeviceAccess have the connection and the lock's other users.  Debounce  *)
(* and scheduling are Home Assistant's (DataUpdateCoordinator, Debouncer). *)
(***************************************************************************)
EXTENDS Commands

CONSTANTS
  Callers,     \* a platform (PARALLEL_UPDATES = 1) or a service call
  CommandsOf,  \* [Callers -> sets of commands]
  Others,      \* the unit's status registers
  Initial,     \* the registers at the beginning
  Displays,    \* what the entities show: keys of Display
  Panel,       \* [register that the panel sets -> values]
  Follows,     \* [status register -> the set-point it follows]
  Blocks,      \* sets of registers that are written in one request only
  Retry,       \* attempts of a write
  MaxCalls, MaxFaults, MaxTouches,  \* bounds: calls, faults, uses of the panel
  Poll         \* the poll, as a holder of the lock

Regs == Available \cup Others
WordMax == 65535

ASSUME BoundsAssumption ==
  /\ BatchSize \in Nat \ {0} /\ Retry \in Nat \ {0}
  /\ {MaxCalls, MaxFaults, MaxTouches} \subseteq Nat
ASSUME NamesAssumption == {None, Poll} \cap Callers = {} /\ None # Poll
ASSUME RegistersAssumption ==
  /\ Initial \in [Regs -> 0..WordMax]
  /\ DOMAIN Panel \subseteq Regs /\ \A r \in DOMAIN Panel : Panel[r] \subseteq 0..WordMax
  /\ DOMAIN Follows \subseteq Regs /\ \A r \in DOMAIN Follows : Follows[r] \in Regs

\* What the service schemas and the entities let through.  A block of Blocks is
\* the block of a temporary mode, and nothing else sets its registers: where the
\* single controls of these registers are operated, it is no block.
AirflowBlock == {"cfg_mode_1", "air_flow_rate_temporary_4401", "airflow_rate_change_flag"}
TemperatureBlock == {"cfg_mode_2", "supply_air_temperature_temporary_4404", "temperature_change_flag"}
InBlock(r) == \E b \in Blocks : r \in b
Admissible(cmd) ==
  CASE cmd.do \in {"set", "quiet"}                -> ~InBlock(cmd.reg)
    [] cmd.do \in {"fan_on", "fan_speed"}         -> cmd.pct \in Nat
    [] cmd.do = "temperature"                     -> cmd.temp \in Nat \ {0}
    [] cmd.do = "schedule"                        -> ~InBlock(cmd.slot) /\ ~InBlock(cmd.setting)
    [] cmd.do \in {"switch", "fan_off", "hvac", "climate_on", "preset", "fan_mode", "special",
                   "bypass", "gwc", "air_quality", "curve", "filters", "pressure",
                   "sync_time", "sync_clock"}     -> TRUE
    [] cmd.do = "reset"  -> cmd.what \in {"user_settings", "schedule_settings", "all_settings"}
    [] cmd.do = "modbus" -> cmd.port \in DOMAIN Uart
    [] cmd.do \in {"name", "text"} -> cmd.text \in Seq(0..255)
    [] OTHER -> FALSE
ASSUME CommandsAssumption == \A c \in Callers : \A cmd \in CommandsOf[c] : Admissible(cmd)
ASSUME BlocksAssumption ==
  \A b \in Blocks :
    /\ b \in {AirflowBlock, TemperatureBlock}
    /\ b \subseteq Regs \ (DOMAIN Panel \cup DOMAIN Follows)
    /\ \A r \in b : Initial[r] = 0

VARIABLES
  unit,    \* the unit's registers
  ui,      \* coordinator.data; pend: None, or an optimistic value and whether its
           \* time is up; shown: the state last written for each display
  call,    \* what each caller is doing
  acked,   \* words of the caller's job that the unit has acknowledged (history)
  lock,    \* the holder of _write_lock
  poll,    \* the refresh in progress, for whom, and what it has read
  debounce,\* Debouncer: idle, running, cooling, or cooling with a request noted
  issue,   \* the repair issue "modbus_write_failed"
  left     \* bounds that are left

refresh == <<poll, debounce>>
vars == <<unit, ui, call, acked, lock, refresh, issue, left>>

Spend(what) == left[what] > 0 /\ left' = [left EXCEPT ![what] = @ - 1]
Free(result) == [pc |-> "idle", job |-> None, step |-> 1, chunk |-> 1, attempt |-> 1, result |-> result]
NoPoll == [pc |-> "idle", by |-> None, read |-> None]

Init ==
  /\ unit = Initial
  /\ ui = [data |-> Initial, pend |-> [k \in Displays |-> None], shown |-> [k \in Displays |-> Display(k, Initial)]]
  /\ call = [c \in Callers |-> Free("none")]
  /\ acked = [c \in Callers |-> {}]
  /\ lock = None
  /\ poll = NoPoll
  /\ debounce = "idle"
  /\ issue = FALSE
  /\ left = [calls |-> MaxCalls, faults |-> MaxFaults, touches |-> MaxTouches]

-----------------------------------------------------------------------------
(* What the entities show                                                  *)

\* Mutant: only a confirmation clears it.
DropsEqual(k, p, v) == p # None /\ Matches(k, p.val, v)
\* clear_if_confirmed, and get_pending, which forgets a value that has expired.
Drops(k, p, v) == p # None /\ (p.old \/ Matches(k, p.val, v))

\* async_update_listeners: every entity looks at the data and writes its state.
Told(u, d) ==
  LET p == [k \in Displays |-> IF Drops(k, u.pend[k], Confirms(k, d)) THEN None ELSE u.pend[k]]
  IN  [data |-> d, pend |-> p,
       shown |-> [k \in Displays |-> IF p[k] = None THEN Display(k, d) ELSE Overlay(k, p[k].val, d)]]

\* set_pending and async_write_ha_state of one entity.
Recorded(u, key, val) ==
  [u EXCEPT !.pend[key] = [val |-> val, old |-> FALSE], !.shown[key] = Overlay(key, val, u.data)]

Forgotten(u, job) == IF job.forget \in Displays THEN [u EXCEPT !.pend[job.forget] = None] ELSE u

\* Ten seconds pass.
Expire(k) ==
  /\ ui.pend[k] # None /\ ~ui.pend[k].old
  /\ ui' = [ui EXCEPT !.pend[k].old = TRUE]
  /\ UNCHANGED <<unit, call, acked, lock, refresh, issue, left>>

-----------------------------------------------------------------------------
(* The unit                                                                *)

\* Somebody uses the panel.
Touch(r) ==
  /\ Spend("touches")
  /\ \E v \in Panel[r] \ {unit[r]} : unit' = [unit EXCEPT ![r] = v]
  /\ UNCHANGED <<ui, call, acked, lock, refresh, issue>>

\* A status register catches up with its set-point.
CatchUp(r) ==
  /\ unit[r] # unit[Follows[r]]
  /\ unit' = [unit EXCEPT ![r] = unit[Follows[r]]]
  /\ UNCHANGED <<ui, call, acked, lock, refresh, issue, left>>

\* The unit refuses a request for a register that it does not have.
Accepts(words) == \A w \in words : w.reg \in Available
Written(words) ==
  [r \in Regs |-> IF \E w \in words : w.reg = r THEN (CHOOSE w \in words : w.reg = r).val ELSE unit[r]]

-----------------------------------------------------------------------------
(* The refresh                                                             *)

Calm == IF debounce = "running" THEN "running" ELSE "idle"  \* async_cancel

\* The scheduled refresh begins; it takes the place of a debounced one.
Tick ==
  /\ poll.pc = "idle"
  /\ poll' = [NoPoll EXCEPT !.pc = "wait"]
  /\ debounce' = Calm
  /\ UNCHANGED <<unit, ui, call, acked, lock, issue, left>>

\* The cool-down ends.  A request noted meanwhile runs now, unless a cycle is
\* under way: begin_update_cycle then returns the old data at once.
CoolDownEnds ==
  /\ \/ /\ debounce = "cooling" /\ debounce' = "idle"
        /\ UNCHANGED <<poll, ui>>
     \/ /\ debounce = "again" /\ poll.pc = "idle"
        /\ debounce' = "running" /\ poll' = [NoPoll EXCEPT !.pc = "wait", !.by = Poll]
        /\ UNCHANGED ui
     \/ /\ debounce = "again" /\ poll.pc # "idle"
        /\ debounce' = "cooling" /\ ui' = Told(ui, ui.data) /\ UNCHANGED poll
  /\ UNCHANGED <<unit, call, acked, lock, issue, left>>

PollReads ==
  /\ poll.pc = "wait" /\ lock = None
  /\ lock' = Poll
  /\ poll' = [poll EXCEPT !.pc = "read", !.read = unit]
  /\ UNCHANGED <<unit, ui, call, acked, debounce, issue, left>>

\* The caller that waits for the refresh goes on.
Resumed == IF poll.by \in Callers THEN [call EXCEPT ![poll.by].pc = "resume"] ELSE call

PollEnds ==
  /\ poll.pc = "read"
  /\ \/ ui' = Told(ui, poll.read) /\ UNCHANGED left
     \/ Spend("faults") /\ UNCHANGED ui
  /\ lock' = None
  /\ poll' = NoPoll
  /\ debounce' = IF poll.by = None THEN debounce ELSE "cooling"
  /\ call' = Resumed
  /\ UNCHANGED <<unit, acked, issue>>

-----------------------------------------------------------------------------
(* A caller                                                                *)

At(c, pc) == call[c].pc = pc
Step(c) == call[c].job.steps[call[c].step]
LastStep(c) == call[c].step = Len(call[c].job.steps)

\* Mutant: the plan does not ask for a single request.
AlwaysBatch(step) == BatchSize
\* _plan_multi_register_chunks, chunk_register_values
ChunkSize(step) == IF step.single THEN Len(step.words) ELSE BatchSize
Chunks(step) ==
  LET size == ChunkSize(step)
  IN  [k \in 1..((Len(step.words) + size - 1) \div size) |->
         {i \in 1..Len(step.words) : (i - 1) \div size = k - 1}]

Become(c, next) == call' = [call EXCEPT ![c] = next]
Ends(c, result) == Become(c, Free(result))
Goto(c, pc) == Become(c, [call[c] EXCEPT !.pc = pc])

\* The entity or service works out what to write from the data it is shown.
Start(c, cmd) ==
  LET job == JobOf(cmd, ui.data)
  IN  /\ At(c, "idle") /\ Spend("calls")
      /\ ui' = Forgotten(ui, job)
      /\ IF job.steps = <<>> THEN Ends(c, "refused")
         ELSE Become(c, [Free("none") EXCEPT !.pc = "lock", !.job = job])
      /\ acked' = [acked EXCEPT ![c] = {}]
      /\ UNCHANGED <<unit, lock, refresh, issue>>

Resolved(c) == Step(c).words[1].reg \in Known

Acquire(c) ==
  /\ At(c, "lock") /\ lock = None /\ Resolved(c)
  /\ lock' = c
  /\ Goto(c, "send")
  /\ UNCHANGED <<unit, ui, acked, refresh, issue, left>>

\* A register that the map does not have, or _ensure_connection raised: there is
\* no attempt and no repair issue, and the remaining steps are not written.
NotWritten(c) ==
  /\ At(c, "lock") /\ lock = None
  /\ IF Resolved(c) THEN Spend("faults") ELSE UNCHANGED left
  /\ Ends(c, "failed")
  /\ UNCHANGED <<unit, ui, acked, lock, refresh, issue>>

\* What a job does after its refresh: a simple entity records its optimistic
\* value, fan.async_turn_off puts 0 into the data and tells nobody.
After(job, u) ==
  CASE job.record = "after" -> Recorded(u, job.key, job.val)
    [] job.zero # None      -> [u EXCEPT !.data[job.zero] = 0]
    [] OTHER                -> u
\* A climate or fan command records it before.
Before(job, u) == IF job.record = "before" THEN Recorded(u, job.key, job.val) ELSE u

\* async_request_refresh: run now, and the caller waits; or noted for the end of
\* the cool-down, or dropped because a debounced refresh is running, or turned
\* away by a cycle under way (begin_update_cycle): then the caller is done.
Refreshes(c) ==
  LET job == call[c].job
      runs == debounce = "idle" /\ poll.pc = "idle"
      away == debounce = "idle" /\ poll.pc # "idle"
      u == Before(job, ui)
  IN  IF runs
      THEN /\ poll' = [NoPoll EXCEPT !.pc = "wait", !.by = c]
           /\ debounce' = "running"
           /\ ui' = u
           /\ Goto(c, "await")
      ELSE /\ debounce' = CASE away -> "cooling" [] debounce = "running" -> "running" [] OTHER -> "again"
           /\ ui' = After(job, IF away THEN Told(u, u.data) ELSE u)
           /\ Ends(c, "ok")
           /\ UNCHANGED poll

\* The command that follows a job is worked out only now.
Continues(c) ==
  LET job == call[c].job
      next == JobOf(job.then, ui.data)
  IN  /\ ui' = Forgotten(ui, next)
      /\ IF next.steps = <<>> THEN Ends(c, "failed")
         ELSE Become(c, [Free("none") EXCEPT !.pc = "lock", !.step = Len(job.steps) + 1,
                                             !.job = [next EXCEPT !.steps = job.steps \o @]])

\* The last word of a step is acknowledged.  A register on the read-back list
\* and the clock keep the lock; every other step gives it back.
Confirmed(c) ==
  LET job == call[c].job
  IN  /\ issue' = FALSE
      /\ IF job.back \/ job.clock THEN Goto(c, "back") /\ UNCHANGED <<lock, ui, refresh>>
         ELSE /\ lock' = None
              /\ IF ~LastStep(c)
                 THEN /\ Become(c, [call[c] EXCEPT !.pc = "lock", !.step = @ + 1, !.chunk = 1, !.attempt = 1])
                      /\ UNCHANGED <<ui, refresh>>
                 ELSE IF job.then # None THEN Continues(c) /\ UNCHANGED refresh
                 ELSE IF job.refresh THEN Refreshes(c)
                 ELSE Ends(c, "ok") /\ UNCHANGED <<ui, refresh>>

\* Mutant: the next attempt goes on with the chunk after the failed one.
RetriesTheRest(c) ==
  /\ Become(c, [call[c] EXCEPT !.chunk = IF @ < Len(Chunks(Step(c))) THEN @ + 1 ELSE 1, !.attempt = @ + 1])
  /\ UNCHANGED <<ui, lock, refresh, issue>>
\* The retry loop: the next attempt writes the step again from its first chunk.
Retries(c) ==
  /\ Become(c, [call[c] EXCEPT !.chunk = 1, !.attempt = @ + 1])
  /\ UNCHANGED <<ui, lock, refresh, issue>>
\* Mutant: the optimistic value is recorded whatever comes of the write.
GivesUpRecorded(c) ==
  /\ issue' = TRUE /\ lock' = None
  /\ ui' = IF call[c].job.key = None THEN ui ELSE Recorded(ui, call[c].job.key, call[c].job.val)
  /\ Ends(c, "failed")
  /\ UNCHANGED refresh
\* Mutant: the early return leaves the lock held.
GivesUpHolding(c) == issue' = TRUE /\ Ends(c, "failed") /\ UNCHANGED <<lock, ui, refresh>>
\* Mutant: a failed step is logged and the next one is written.
CarriesOn(c) ==
  /\ issue' = TRUE /\ lock' = None
  /\ IF LastStep(c) THEN Ends(c, "failed")
     ELSE Become(c, [call[c] EXCEPT !.pc = "lock", !.step = @ + 1, !.chunk = 1, !.attempt = 1])
  /\ UNCHANGED <<ui, refresh>>
GivesUp(c) ==
  /\ issue' = TRUE /\ lock' = None
  /\ Ends(c, "failed")
  /\ UNCHANGED <<ui, refresh>>

Encodable(words) == \A w \in words : w.val \in 0..WordMax
\* A word of more than sixteen bits: the request raises before it is sent, and
\* the error escapes all handlers.
Escapes(c) ==
  /\ At(c, "send")
  /\ ~Encodable({Step(c).words[i] : i \in Chunks(Step(c))[call[c].chunk]})
  /\ lock' = None
  /\ Ends(c, "failed")
  /\ UNCHANGED <<unit, ui, acked, refresh, issue, left>>

\* One request of the step.
Send(c) ==
  LET plan == Chunks(Step(c))
      ids == plan[call[c].chunk]
      words == {Step(c).words[i] : i \in ids}
  IN  /\ At(c, "send") /\ Encodable(words)
      /\ \/ /\ Accepts(words) /\ unit' = Written(words)
            /\ acked' = [acked EXCEPT ![c] = @ \cup {<<call[c].step, i>> : i \in ids}]
            /\ IF call[c].chunk < Len(plan)
               THEN Become(c, [call[c] EXCEPT !.chunk = @ + 1]) /\ UNCHANGED <<ui, lock, refresh, issue>>
               ELSE Confirmed(c)
            /\ UNCHANGED left
         \* An error response, a lost request or a lost answer.
         \/ /\ IF Accepts(words) THEN Spend("faults") /\ unit' \in {unit, Written(words)}
               ELSE UNCHANGED <<unit, left>>
            /\ IF call[c].attempt < Retry THEN Retries(c) ELSE GivesUp(c)
            /\ UNCHANGED acked
         \* OSError: no further attempt.
         \/ /\ Spend("faults")
            /\ unit' \in {unit, Written(words)}
            /\ GivesUp(c)
            /\ UNCHANGED acked

\* The targeted read-back under the same lock; the value is published once the
\* lock is free, and publishing cancels a debounced refresh.
ReadsBack(c) ==
  LET job == call[c].job
      r == job.steps[1].words[1].reg
  IN  /\ At(c, "back") /\ job.back
      /\ lock' = None
      /\ \/ /\ ui' = After(job, Told(ui, [ui.data EXCEPT ![r] = unit[r]]))
            /\ debounce' = Calm
            /\ Ends(c, "ok")
            /\ UNCHANGED <<poll, left>>
         \/ Spend("faults") /\ Refreshes(c)
      /\ UNCHANGED <<unit, acked, issue>>

\* The clock is read back and compared with the time taken before the lock was
\* waited for: it may be off.  An unreadable clock is taken for a good one.
ReadsClock(c) ==
  /\ At(c, "back") /\ call[c].job.clock
  /\ lock' = None
  /\ \E result \in {"ok", "failed"} : Ends(c, result)
  /\ UNCHANGED <<unit, ui, acked, refresh, issue, left>>

Resume(c) ==
  /\ At(c, "resume")
  /\ ui' = After(call[c].job, ui)
  /\ Ends(c, "ok")
  /\ UNCHANGED <<unit, acked, lock, refresh, issue, left>>

-----------------------------------------------------------------------------
CallNext(c) == Acquire(c) \/ NotWritten(c) \/ Escapes(c) \/ Send(c) \/ ReadsBack(c) \/ ReadsClock(c) \/ Resume(c)
PollNext == Tick \/ PollReads \/ PollEnds
Next ==
  \/ \E c \in Callers : CallNext(c) \/ \E cmd \in CommandsOf[c] : Start(c, cmd)
  \/ PollNext \/ CoolDownEnds
  \/ \E k \in Displays : Expire(k)
  \/ \E r \in DOMAIN Panel : Touch(r)
  \/ \E r \in DOMAIN Follows : CatchUp(r)

Spec == Init /\ [][Next]_vars

\* asyncio.Lock is first come, first served: who waits for it gets it.  Timers
\* fire, requests end, and the unit's status follows.
Fairness ==
  /\ \A c \in Callers :
       /\ SF_vars(Acquire(c) \/ NotWritten(c))
       /\ WF_vars(Escapes(c) \/ Send(c) \/ ReadsBack(c) \/ ReadsClock(c) \/ Resume(c))
  /\ WF_vars(Tick) /\ SF_vars(PollReads) /\ WF_vars(PollEnds) /\ WF_vars(CoolDownEnds)
  /\ \A k \in Displays : WF_vars(Expire(k))
  /\ \A r \in DOMAIN Follows : WF_vars(CatchUp(r))
FairSpec == Spec /\ Fairness

-----------------------------------------------------------------------------
(* Properties                                                              *)

\* Every variable keeps its type; the holder of the lock is in a step that
\* needs it.
TypeOK ==
  /\ unit \in [Regs -> 0..WordMax] /\ ui.data \in [Regs -> 0..WordMax]
  /\ DOMAIN ui.shown = Displays /\ DOMAIN ui.pend = Displays
  /\ lock \in {None, Poll} \cup Callers
  /\ \A c \in Callers : lock = c <=> call[c].pc \in {"send", "back"}
  /\ lock = Poll <=> poll.pc = "read"
  /\ \A c \in Callers : call[c].attempt \in 1..Retry
  /\ debounce \in {"idle", "running", "cooling", "again"}
  /\ debounce = "running" <=> poll.by # None

\* Registers that belong together, as the mode, the value and the flag of a
\* temporary airflow, are never seen half written, whatever request is lost or
\* repeated (require_single_request).
BlocksAreWhole == \A b \in Blocks : \A r, s \in b : unit[r] = Initial[r] <=> unit[s] = Initial[s]

AllAcked(c, k, seen) == \A i \in 1..Len(call[c].job.steps[k].words) : <<k, i>> \in seen

\* A step is written only when the unit has acknowledged every word of the
\* earlier ones: a fan is not given a speed when switching it on failed.
StepsInOrder ==
  \A c \in Callers : ~At(c, "idle") => \A k \in 1..(call[c].step - 1) : AllAcked(c, k, acked[c])

\* A call that reports success has had every word of every step acknowledged,
\* over all chunks, attempts and reconnections.
SuccessIsEarned ==
  [][\A c \in Callers :
        ~At(c, "idle") /\ call'[c].pc = "idle" /\ call'[c].result = "ok"
        => \A k \in 1..Len(call[c].job.steps) : AllAcked(c, k, acked'[c])]_vars

\* An entity shows an optimistic value only after a write of that value that
\* the unit has acknowledged in full; failed writes never populate it.
OverlayIsEarned ==
  [][\A k \in Displays :
        ui'.pend[k] # ui.pend[k] /\ ui'.pend[k] # None /\ ~ui'.pend[k].old
        => \E c \in Callers :
             /\ ~At(c, "idle") /\ call[c].job.key = k /\ call[c].job.val = ui'.pend[k].val
             /\ \A i \in 1..Len(call[c].job.steps) : AllAcked(c, i, acked'[c])]_vars

\* When the panel, the callers and the faults come to rest, every call has
\* ended and every entity shows the unit's own value, and goes on doing so.
Settles == <>[](/\ \A c \in Callers : At(c, "idle")
                /\ \A k \in Displays : ui.shown[k] = Display(k, unit))

\* "Optimistic state is short-lived and must be superseded by confirmed device
\* state as soon as it arrives" (docs/architecture/write_path.md): a value that
\* has arrived in the coordinator's data is the one shown.  It is not: only an
\* equal value or the time supersedes an optimistic one.
ConfirmedIsShown ==
  [][\A k \in Displays : Display(k, ui'.data) # Display(k, ui.data) => ui'.shown[k] = Display(k, ui'.data)]_vars
=============================================================================
