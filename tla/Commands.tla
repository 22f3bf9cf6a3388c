----------------------------- MODULE Commands -----------------------------
(***************************************************************************)
(* What a command of an entity or a service asks of the coordinator, given *)
(* the data the coordinator holds: the writes, one after the other, and    *)
(* what is shown before the unit has confirmed them.  Nothing here has     *)
(* state; Control carries the jobs out.  A command names its registers and *)
(* the words to be written; Registers has the codec.                       *)
(***************************************************************************)
EXTENDS Registers

CONSTANTS
  Known,      \* holding registers of the register map
  Available,  \* those this unit has (device_client.available_registers)
  BatchSize,  \* effective_batch
  None        \* no value

Val(d, r) == IF r \in DOMAIN d THEN d[r] ELSE None
Writable(r) == r \in Known \cap Available

-----------------------------------------------------------------------------
(* Jobs                                                                    *)

Word(r, v) == [reg |-> r, val |-> v]
\* A step is one write of the coordinator; a single step is never chunked.
One(r, v) == [words |-> <<Word(r, v)>>, single |-> FALSE]
Block(words) == [words |-> words, single |-> TRUE]
Chunked(words) == [words |-> words, single |-> FALSE]
\* An optional value that was not given is left out.
Given(r, v) == IF v = None THEN <<>> ELSE <<One(r, v)>>

\* back, clock: what is read back under the lock of the write.  refresh: a
\* refresh is requested at the end.  record: whether the value val of the
\* display key is shown before the refresh, after it, or never.  zero: a register
\* set to 0 in the data afterwards.  forget: a display whose optimistic value is
\* dropped at once.  then: a command that follows, given the data of that time.
Job(steps) ==
  [steps |-> steps, back |-> FALSE, clock |-> FALSE, refresh |-> TRUE, record |-> "never",
   key |-> None, val |-> None, zero |-> None, forget |-> None, then |-> None]
\* A command that is refused before anything is written.
Refused == Job(<<>>)
Shows(job, key, val) == [job EXCEPT !.record = "before", !.key = key, !.val = val]

-----------------------------------------------------------------------------
(* Plain entities: number, select, switch, text and time                   *)

\* _READBACK_ALLOW_LIST, as far as the models name its registers.
ReadBackSafe(r) ==
  r \in {"air_flow_rate_manual", "air_flow_rate_temporary_4401",
         "supply_air_temperature_temporary_4404", "mode", "special_mode", "on_off_panel_mode",
         "min_bypass_temperature", "min_gwc_air_temperature", "max_gwc_air_temperature"}

SetRegister(r, v, key) ==
  [Job(<<One(r, v)>>) EXCEPT !.back = ReadBackSafe(r), !.record = "after", !.key = key, !.val = v]

\* Special modes that a switch or a service can start.
Special == [boost |-> 1, eco |-> 2, away |-> 3, sleep |-> 4, fireplace |-> 5, hood |-> 6,
            party |-> 7, bathroom |-> 8, kitchen |-> 9, summer |-> 10, winter |-> 11]
SpecialOf(mode) == IF mode \in DOMAIN Special THEN Special[mode] ELSE 0
DurationOf == [boost |-> "boost_duration", fireplace |-> "fireplace_duration", hood |-> "hood_duration",
               party |-> "party_duration", bathroom |-> "bathroom_duration"]
SwitchSpecial(mode, on) ==
  [SetRegister("special_mode", IF on THEN Special[mode] ELSE 0, mode) EXCEPT !.val = on]

\* Time entities and schedule selects keep no optimistic value.
SetQuietly(r, v) == Job(<<One(r, v)>>)

-----------------------------------------------------------------------------
(* The fan                                                                 *)

Low(d) == IF Val(d, "min_percentage") = None THEN 0 ELSE Greater(0, d["min_percentage"])
High(d) ==
  LET max == IF Val(d, "max_percentage") = None THEN 150 ELSE Lesser(150, d["max_percentage"])
  IN  Greater(max, Low(d))
Clamped(p, d) == Greater(Low(d), Lesser(High(d), p))

Automatic == 0
Manual == 1
Temporary == 2
FanMode(d) == IF Val(d, "mode") \in {Automatic, Manual, Temporary} THEN d["mode"] ELSE None
FollowsManual(d) == FanMode(d) \in {Manual, None}
SpeedRegister(d) == IF FollowsManual(d) THEN "air_flow_rate_manual" ELSE "air_flow_rate_temporary_2"

\* async_write_temporary_airflow, async_write_temporary_temperature
TemporaryAirflow(p) ==
  Block(<<Word("cfg_mode_1", Temporary), Word("air_flow_rate_temporary_4401", p), Word("airflow_rate_change_flag", 1)>>)
TemporaryTemperature(t) ==
  Block(<<Word("cfg_mode_2", Temporary), Word("supply_air_temperature_temporary_4404", t), Word("temperature_change_flag", 1)>>)

FanOff(d) ==
  LET r == IF Writable("on_off_panel_mode") THEN "on_off_panel_mode" ELSE SpeedRegister(d)
      job == IF Writable(r) THEN [Job(<<One(r, 0)>>) EXCEPT !.zero = r] ELSE Refused
  IN  [job EXCEPT !.forget = "percentage"]

FanSpeed(p, d) ==
  LET speed == Greater(Low(d), Lesser(p, High(d)))
      mode == IF Writable("mode") THEN <<One("mode", Manual)>> ELSE <<>>
  IN  IF Lesser(p, High(d)) = 0 THEN FanOff(d)
      ELSE IF FanMode(d) = Temporary THEN Shows(Job(<<TemporaryAirflow(speed)>>), "percentage", speed)
      ELSE IF ~Writable(SpeedRegister(d)) THEN Refused
      ELSE Shows(Job((IF FollowsManual(d) THEN mode ELSE <<>>) \o <<One(SpeedRegister(d), speed)>>), "percentage", speed)

\* The speed is worked out after the power is on, from the data of that moment.
FanOn(p, d) ==
  IF p > 0 /\ FanMode(d) # Temporary /\ ~Writable(SpeedRegister(d)) THEN Refused
  ELSE IF Writable("on_off_panel_mode")
       THEN [Job(<<One("on_off_panel_mode", 1)>>) EXCEPT !.refresh = FALSE, !.then = [do |-> "fan_speed", pct |-> p]]
       ELSE FanSpeed(p, d)

-----------------------------------------------------------------------------
(* The climate entity                                                      *)

Power(on) == One("on_off_panel_mode", IF on THEN 1 ELSE 0)
HvacOf(mode) == IF mode \in {Manual, Temporary} THEN "fan_only" ELSE "auto"
HvacModes == [auto |-> Automatic, fan_only |-> Manual]

SetHvac(m) ==
  Shows(Job(IF m = "off" THEN <<Power(FALSE)>> ELSE <<Power(TRUE), One("mode", HvacModes[m])>>), "hvac_mode", m)
ClimateOn(d) == Shows(Job(<<Power(TRUE)>>), "hvac_mode", HvacOf(Val(d, "mode")))
SetPreset(m) ==
  Shows(Job(<<Power(TRUE), One("special_mode", SpecialOf(m))>>), "preset_mode", m)
SetFanMode(p, d) ==
  IF Clamped(p, d) = p THEN Shows(Job(<<One("air_flow_rate_manual", p)>>), "fan_mode", p) ELSE Refused

\* In the temporary mode a block, otherwise the set-points one by one.
SetTemperature(t, d) ==
  LET comfort == IF Writable("comfort_temperature") THEN <<One("comfort_temperature", t)>> ELSE <<>>
      steps == IF Val(d, "mode") = Temporary THEN <<TemporaryTemperature(t)>>
               ELSE comfort \o <<One("required_temperature", t)>>
  IN  Shows(Job(steps), "target_temperature", t)

-----------------------------------------------------------------------------
(* Services                                                                *)

SetSpecialMode(mode, duration) ==
  LET lasts == duration > 0 /\ mode \in DOMAIN DurationOf
  IN  IF lasts /\ DurationOf[mode] \notin Available THEN Refused
      ELSE Job(<<One("special_mode", SpecialOf(mode))>>
               \o (IF lasts THEN <<One(DurationOf[mode], duration)>> ELSE <<>>))

\* The slot's start, then airflow and temperature in one word, which encode
\* packs a second time: any airflow but 0 gives a word of more than sixteen bits.
SetSchedule(slot, setting, start, pct, temp, ends, d) ==
  IF ends \/ ~({slot, setting} \subseteq Available) THEN Refused
  ELSE Job(<<One(slot, start), One(setting, AattWord(AattWord(Clamped(pct, d), temp), 0))>>)

BypassModes == [auto |-> 0, open |-> 1, closed |-> 2]
SetBypass(mode, min) == Job(<<One("bypass_mode", BypassModes[mode])>> \o Given("min_bypass_temperature", min))
GwcModes == [off |-> 0, auto |-> 1, forced |-> 2]
\* Refused by the schema unless min is below max.
SetGwc(mode, min, max) ==
  IF min # None /\ max # None /\ min >= max THEN Refused
  ELSE Job(<<One("gwc_mode", GwcModes[mode])>>
           \o Given("min_gwc_air_temperature", min) \o Given("max_gwc_air_temperature", max))
SetAirQuality(low, medium, high, humidity) ==
  Job(Given("co2_threshold_low", low) \o Given("co2_threshold_medium", medium)
      \o Given("co2_threshold_high", high) \o Given("humidity_target", humidity))
SetCurve(slope, offset, max, min) ==
  Job(Given("heating_curve_slope", slope) \o Given("heating_curve_offset", offset)
      \o Given("max_supply_temperature", max) \o Given("min_supply_temperature", min))

ResetFilters(type) == Job(<<One("filter_change", type)>>)
ResetSettings(what) ==
  LET r == [user_settings |-> "hard_reset_settings", schedule_settings |-> "hard_reset_schedule"]
  IN  Job(IF what = "all_settings"
          THEN <<One("hard_reset_settings", 1), One("hard_reset_schedule", 1)>>
          ELSE <<One(r[what], 1)>>)
PressureTest(day, time) == Job(<<One("pres_check_day_2", day), One("pres_check_time_2", time)>>)
Uart == [air_b |-> <<"uart_0_baud", "uart_0_parity", "uart_0_stop">>,
         air |-> <<"uart_1_baud", "uart_1_parity", "uart_1_stop">>]
\* The baud rate's code is scaled by the factor of its register.
SetModbus(port, baud, parity, stop) ==
  Job(Given(Uart[port][1], IF baud = None THEN None ELSE Unscaled(10 * baud, 30, 30))
      \o Given(Uart[port][2], parity) \o Given(Uart[port][3], stop))

\* The name has eight registers of two characters each.  A piece of a short name
\* is encoded to all eight, and what is written is their rest from its own offset
\* on, so that every piece but the first writes zeros.
NameRegister == <<"device_name_1", "device_name_2", "device_name_3", "device_name_4",
                  "device_name_5", "device_name_6", "device_name_7", "device_name_8">>
Encoded(text) == TextWords(8, text)
NameStep(text, offset) ==
  Chunked([i \in 1..(8 - offset) |-> Word(NameRegister[offset + i], Encoded(text)[offset + i])])
SetName(text) ==
  LET size == 2 * BatchSize
      pieces == (Len(text) + size - 1) \div size
      piece(k) == SubSeq(text, (k - 1) * size + 1, Lesser(k * size, Len(text)))
  IN  Job(IF Len(text) >= 16 THEN <<NameStep(text, 0)>>
          ELSE [k \in 1..pieces |-> NameStep(piece(k), (k - 1) * BatchSize)])

\* TextEntity of the name
SetText(text) == Job(<<NameStep(text, 0)>>)

\* The clock block; the synchronisation reads it back, the service does not.
ClockStep(now) ==
  LET w == ClockWords(now)
  IN  Chunked(<<Word("date_time", w[1]), Word("date_time_ddtt", w[2]),
                Word("date_time_ggmm", w[3]), Word("date_time_sscc", w[4])>>)
SyncTime(now) == [Job(<<ClockStep(now)>>) EXCEPT !.refresh = FALSE]
SyncClock(now) == [SyncTime(now) EXCEPT !.clock = TRUE]

-----------------------------------------------------------------------------
JobOf(cmd, d) ==
  CASE cmd.do = "set"         -> SetRegister(cmd.reg, cmd.val, cmd.reg)
    [] cmd.do = "switch"      -> SwitchSpecial(cmd.mode, cmd.on)
    [] cmd.do = "quiet"       -> SetQuietly(cmd.reg, cmd.val)
    [] cmd.do = "fan_on"      -> FanOn(cmd.pct, d)
    [] cmd.do = "fan_off"     -> FanOff(d)
    [] cmd.do = "fan_speed"   -> FanSpeed(cmd.pct, d)
    [] cmd.do = "hvac"        -> SetHvac(cmd.mode)
    [] cmd.do = "climate_on"  -> ClimateOn(d)
    [] cmd.do = "preset"      -> SetPreset(cmd.mode)
    [] cmd.do = "fan_mode"    -> SetFanMode(cmd.pct, d)
    [] cmd.do = "temperature" -> SetTemperature(cmd.temp, d)
    [] cmd.do = "special"     -> SetSpecialMode(cmd.mode, cmd.duration)
    [] cmd.do = "schedule"    -> SetSchedule(cmd.slot, cmd.setting, cmd.start, cmd.pct, cmd.temp, cmd.ends, d)
    [] cmd.do = "bypass"      -> SetBypass(cmd.mode, cmd.min)
    [] cmd.do = "gwc"         -> SetGwc(cmd.mode, cmd.min, cmd.max)
    [] cmd.do = "air_quality" -> SetAirQuality(cmd.low, cmd.medium, cmd.high, cmd.humidity)
    [] cmd.do = "curve"       -> SetCurve(cmd.slope, cmd.offset, cmd.max, cmd.min)
    [] cmd.do = "filters"     -> ResetFilters(cmd.type)
    [] cmd.do = "reset"       -> ResetSettings(cmd.what)
    [] cmd.do = "pressure"    -> PressureTest(cmd.day, cmd.time)
    [] cmd.do = "modbus"      -> SetModbus(cmd.port, cmd.baud, cmd.parity, cmd.stop)
    [] cmd.do = "name"        -> SetName(cmd.text)
    [] cmd.do = "text"        -> SetText(cmd.text)
    [] cmd.do = "sync_time"   -> SyncTime(cmd.now)
    [] cmd.do = "sync_clock"  -> SyncClock(cmd.now)

-----------------------------------------------------------------------------
(* What the displays show of the data                                      *)

FirstOf(d, regs) ==
  LET have == {i \in 1..Len(regs) : Val(d, regs[i]) # None}
  IN  IF have = {} THEN None ELSE d[regs[CHOOSE i \in have : \A j \in have : i <= j]]

Status(d) == FirstOf(d, <<"supply_percentage", "exhaust_percentage">>)
\* The unit goes above 100 %, the display of the fan does not.
Capped(p, d) == Lesser(p, Lesser(100, High(d)))
Percentage(d) ==
  LET set == FirstOf(d, IF FanMode(d) = Temporary
                        THEN <<"air_flow_rate_temporary_2", "air_flow_rate_manual">>
                        ELSE <<"air_flow_rate_manual">>)
      flow == IF Status(d) # None THEN Status(d) ELSE set
  IN  IF flow = None THEN None ELSE Capped(flow, d)

\* _confirmed_fan_mode: the airflow in steps of ten, within the limits.
FanModeShown(d) ==
  LET flow == IF Val(d, "air_flow_rate_manual") \in {None, 0} THEN Val(d, "air_flow_rate_temporary_2")
              ELSE d["air_flow_rate_manual"]
  IN  IF flow \in {None, 0} THEN None ELSE Clamped(((flow + 5) \div 10) * 10, d)

Preset(d) ==
  LET named == {m \in DOMAIN Special : Special[m] = Val(d, "special_mode")}
  IN  IF named = {} THEN "none" ELSE CHOOSE m \in named : TRUE

Display(key, d) ==
  CASE key = "percentage"         -> Percentage(d)
    [] key = "hvac_mode"          -> IF Val(d, "on_off_panel_mode") = 0 THEN "off" ELSE HvacOf(Val(d, "mode"))
    [] key = "fan_mode"           -> FanModeShown(d)
    [] key = "preset_mode"        -> Preset(d)
    [] key = "target_temperature" ->
         FirstOf(d, <<"comfort_temperature", "required_temperature", "required_temp">>)
    [] key \in DOMAIN Special     ->
         IF Val(d, "special_mode") = None THEN None ELSE d["special_mode"] = Special[key]
    [] OTHER                      -> Val(d, key)
\* What an optimistic value looks like on its display.
Overlay(key, val, d) == IF key = "percentage" THEN Capped(val, d) ELSE val
\* What can confirm an optimistic value: of the fan, only its status registers.
Confirms(key, d) == IF key = "percentage" THEN Status(d) ELSE Display(key, d)
\* The fan's status may differ by 2 %.  The tolerances of the climate (0.25 degrees)
\* and of the numbers (half a step) are less than one unit of a word.
Matches(key, val, v) ==
  IF key = "percentage" THEN v # None /\ Distance(v, val) <= 2 ELSE v = val

\* What the steps of a job leave in the registers, when all are acknowledged.
Applied(job, d) ==
  LET words == UNION {{s.words[i] : i \in 1..Len(s.words)} : s \in {job.steps[k] : k \in 1..Len(job.steps)}}
  IN  [r \in DOMAIN d |-> IF \E w \in words : w.reg = r THEN (CHOOSE w \in words : w.reg = r).val ELSE d[r]]
=============================================================================
