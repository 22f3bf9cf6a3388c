----------------------------- MODULE Registers -----------------------------
(***************************************************************************)
(* The register map and its codec: which definitions are well formed, what *)
(* a word of the unit means, which words a value is written as, the values *)
(* derived from a published dictionary.  Pure operators; Commands writes   *)
(* with them and Registers_codec proves that what is written is read back. *)
(*                                                                         *)
(* Quantities are integers in tenths of their unit, so a factor of 0.5 is  *)
(* 5.  The factor of the analogue outputs, 0.00244, is out of this scale:  *)
(* of these registers only the range check is here.                        *)
(***************************************************************************)
EXTENDS Integers, Sequences, FiniteSets, TLC

WordSize == 65536
Unavailable == 32768
Lesser(a, b) == IF a < b THEN a ELSE b
Greater(a, b) == IF a < b THEN b ELSE a
Distance(a, b) == Greater(a, b) - Lesser(a, b)

HighByte(w) == (w \div 256) % 256
LowByte(w) == w % 256
Signed(w) == IF w >= 32768 THEN w - WordSize ELSE w
\* & 65535
Unsigned(v) == v % WordSize
BitIsSet(w, bit) == (w \div bit) % 2 = 1

\* Rounded half up: to a whole number, to a whole number of steps.
Quotient(n, d) == (2 * n + d) \div (2 * d)
Rounded(v, step) == Quotient(v, step) * step
Clamp(v, low, high) == Greater(low, Lesser(high, v))

-----------------------------------------------------------------------------
(* Packed decimal and clock words                                          *)

BcdByte(n) == (n \div 10) * 16 + (n % 10)
BcdValue(b) == ((b \div 16) % 16) * 10 + (b % 16)
TwoBytes(high, low) == BcdByte(high) * 256 + BcdByte(low)

\* encode_rtc_registers: year and month, day and weekday, hour and minute, second.
ClockWords(t) ==
  <<TwoBytes(t.year % 100, t.month), TwoBytes(t.day, t.weekday),
    TwoBytes(t.hour, t.minute), TwoBytes(t.second, 0)>>
\* The parts a clock block is read as, and those that make a time.
ClockParts(w) ==
  [year |-> 2000 + BcdValue(HighByte(w[1])), month |-> BcdValue(LowByte(w[1])),
   day |-> BcdValue(HighByte(w[2])), hour |-> BcdValue(HighByte(w[3])),
   minute |-> BcdValue(LowByte(w[3])), second |-> BcdValue(HighByte(w[4]))]
IsClock(t) ==
  /\ t.month \in 1..12 /\ t.day \in 1..31
  /\ t.hour <= 23 /\ t.minute <= 59 /\ t.second <= 59

\* What a word means; a number is in tenths, a time in minutes.
Nothing == [is |-> "nothing"]
Number(n) == [is |-> "number", tenths |-> n]
Label(code) == [is |-> "label", code |-> code]
Flags(bits) == [is |-> "flags", bits |-> bits]
TimeOfDay(minutes) == [is |-> "time", minutes |-> minutes]
Packed(flow, half) == [is |-> "packed", flow |-> flow, half |-> half]

TimeWord(minutes) == TwoBytes(minutes \div 60, minutes % 60)
\* Packed decimals first; a word that is none is read as decimal HHMM.
TimeOf(w) ==
  LET digit == <<w \div 4096, HighByte(w) % 16, LowByte(w) \div 16, w % 16>>
      packed == \A i \in 1..4 : digit[i] <= 9
      hours == digit[1] * 10 + digit[2]
      minutes == digit[3] * 10 + digit[4]
      decimal == w \div 100 <= 23 /\ w % 100 <= 59
  IN  IF w \in {32768, 65535} THEN Nothing
      ELSE IF packed /\ hours = 24 /\ minutes = 0 THEN TimeOfDay(0)
      ELSE IF packed /\ hours <= 23 /\ minutes <= 59 THEN TimeOfDay(hours * 60 + minutes)
      ELSE IF decimal THEN TimeOfDay((w \div 100) * 60 + (w % 100))
      ELSE Nothing

\* Airflow and temperature in one word: the codec of a schedule setting.  Nothing
\* bounds the airflow that is written.
AattWord(flow, half) == flow * 256 + (half % 256)
AattOf(w) ==
  IF w = Unavailable \/ HighByte(w) > 150 \/ LowByte(w) > 200 THEN Nothing
  ELSE Packed(HighByte(w), LowByte(w))

-----------------------------------------------------------------------------
(* Definitions: function, access, length, type (or "none"), little (its     *)
(* words are in little-endian order), enum (its codes), bits (a bit mask),  *)
(* bitdefs (the positions of its named bits), bitkeys (the keys of their    *)
(* entities), unnamed (a bit has no name), min, max, mask (sets of at most  *)
(* one number), multiplier and resolution, and what the name says:          *)
(* temperature, output, time, packed, flow.                                 *)

TypeLength == [u16 |-> 1, i16 |-> 1, bitmask |-> 1, u32 |-> 2, i32 |-> 2, f32 |-> 2, u64 |-> 4, i64 |-> 4, f64 |-> 4]
\* check_consistency
WellFormed(def) ==
  /\ def.function \in 1..4
  /\ def.function \in {1, 2} => def.access = "R"
  /\ def.access \in {"R", "RW", "W"}
  /\ def.type \in DOMAIN TypeLength => def.length = TypeLength[def.type]
  /\ def.type = "string" => def.length >= 1
  /\ \A low \in def.min, high \in def.max : low <= high
  /\ \A i, j \in 1..Len(def.bitdefs) : i # j => def.bitdefs[i] # def.bitdefs[j]
  /\ \A i \in 1..Len(def.bitdefs) : def.bitdefs[i] \in 0..15 /\ \A m \in def.mask : 2 ^ def.bitdefs[i] <= m
\* No two definitions share an address of a function or a name.
Distinct(defs) ==
  \A i, j \in 1..Len(defs) :
    i # j => /\ <<defs[i].function, defs[i].address>> # <<defs[j].function, defs[j].address>>
             /\ defs[i].name # defs[j].name
\* What a block of the map asks of the unit: all the words of its definitions.
MapAddresses(defs, function) ==
  UNION {d.address .. (d.address + d.length - 1) : d \in {e \in defs : e.function = function}}

-----------------------------------------------------------------------------
(* Reading                                                                 *)

\* Python rounds a tie to even; none arises while the resolution is the factor.
Scaled(raw, def) ==
  LET v == raw * def.multiplier
  IN  IF def.resolution = 10 THEN v ELSE Rounded(v, def.resolution)
IsOutput(def, w) == def.output /\ ~(w \in 0..4095)

\* RegisterDef.decode of one word, already given its sign.
Decode(def, raw) ==
  CASE IsOutput(def, raw) -> Nothing
    [] raw = Unavailable /\ (def.function = 4 \/ def.temperature) -> Nothing
    [] def.bits /\ def.enum # {} -> Flags({b \in def.enum : b > 0 /\ BitIsSet(raw, b)})
    [] raw \in def.enum -> Label(raw)
    [] def.packed -> AattOf(raw)
    [] def.time -> TimeOf(raw)
    [] OTHER -> Number(Scaled(IF def.type = "i16" THEN Signed(raw) ELSE raw, def))

\* process_register_value: an unavailable flow is published as its sentinel, an
\* enumerated register as its code, a negative flow or temperature with its sign.
Published(def, w) ==
  LET raw == IF def.temperature THEN Signed(w) ELSE w
      v == Decode(def, raw)
      sentinel == w = Unavailable /\ def.flow
  IN  IF IsOutput(def, w) \/ (w = Unavailable /\ def.temperature) THEN Nothing
      ELSE IF sentinel THEN Number(Unavailable * 10)
      ELSE IF v.is = "label" THEN Number(w * 10)
      ELSE IF v.is = "number" /\ def.flow THEN Number(Signed(w) * 10)
      ELSE v

\* The words of an unsigned number of two or four registers, the most significant
\* first unless the definition says otherwise.
WordsOf(def, v) ==
  LET big == [i \in 1..def.length |-> (v \div WordSize ^ (def.length - i)) % WordSize]
  IN  IF def.little THEN [i \in 1..def.length |-> big[def.length + 1 - i]] ELSE big
ValueOf(def, words) ==
  LET at(i) == IF def.little THEN words[def.length + 1 - i] ELSE words[i]
      part[i \in 0..def.length] == IF i = 0 THEN 0 ELSE part[i - 1] * WordSize + at(i)
  IN  part[def.length]

\* _encode_multi_register of a string: two characters to a word, zeros to the end.
TextWords(length, text) ==
  LET char(i) == IF i <= Len(text) THEN text[i] ELSE 0
  IN  [w \in 1..length |-> char(2 * w - 1) * 256 + char(2 * w)]

-----------------------------------------------------------------------------
(* Writing                                                                 *)

InRange(def, v) == (\A low \in def.min : low <= v) /\ (\A high \in def.max : v <= high)
\* A quantity, in tenths, to the word it is written as: rounded to the
\* resolution, divided by the factor.
Unscaled(v, multiplier, resolution) ==
  LET stepped == IF resolution = 10 THEN v ELSE Rounded(v, resolution)
  IN  Quotient(stepped, multiplier)
\* The code of an enumerated register is a value like any other: it is scaled.
EncodeCode(def, code) == Unscaled(code * 10, def.multiplier, def.resolution)
EncodeFlags(bits) == LET part[b \in 0..15] == (IF 2 ^ b \in bits THEN 2 ^ b ELSE 0) + (IF b = 0 THEN 0 ELSE part[b - 1])
                     IN  part[15]
\* A value out of range is refused before anything is written.
Encodes(def, v) ==
  CASE v.is = "time"   -> {TimeWord(v.minutes)}
    [] v.is = "packed" -> {AattWord(v.flow, v.half)}
    [] v.is = "label"  -> IF v.code \in def.enum THEN {EncodeCode(def, v.code)} ELSE {}
    [] v.is = "flags"  -> {EncodeFlags(v.bits)}
    [] v.is = "number" -> IF InRange(def, v.tenths) THEN {Unscaled(v.tenths, def.multiplier, def.resolution)} ELSE {}

-----------------------------------------------------------------------------
(* Values derived from what was read; d holds temperatures in tenths.      *)

Has(d, names) == names \subseteq DOMAIN d
Temperatures == {"outside_temperature", "supply_temperature", "exhaust_temperature"}
Flows == {"supply_flow_rate", "exhaust_flow_rate"}
\* bypass_mode 1 and 2 open the damper.
BypassOpen(d) == Has(d, {"bypass_mode"}) /\ d["bypass_mode"] \in {1, 2}

\* In tenths of a percent.  The smaller flow bounds what can be recovered; without
\* one, or with a flow of zero, the temperatures alone decide.
Efficiency(d) ==
  LET gain == d["supply_temperature"] - d["outside_temperature"]
      span == d["exhaust_temperature"] - d["outside_temperature"]
      least == Lesser(d["supply_flow_rate"], d["exhaust_flow_rate"])
      ratio == IF Has(d, Flows) /\ least > 0
               THEN Quotient(d["supply_flow_rate"] * gain * 1000, least * span)
               ELSE Quotient(gain * 1000, span)
  IN  IF BypassOpen(d) \/ ~Has(d, Temperatures) THEN {}
      ELSE IF span < 50 THEN {} ELSE {Clamp(ratio, 0, 1000)}

\* In watts, rounded down: 0.335 of the flow times the degrees gained.
RecoveredPower(d) ==
  Greater(0, (335 * d["supply_flow_rate"] * (d["supply_temperature"] - d["outside_temperature"])) \div 10000)
FlowBalance(d) == d["supply_flow_rate"] - d["exhaust_flow_rate"]
BalanceStatus(d) ==
  CASE Distance(FlowBalance(d), 0) < 10 -> "balanced"
    [] FlowBalance(d) >= 10             -> "supply_dominant"
    [] OTHER                            -> "exhaust_dominant"

\* Nominal flow of each model, with the power of its fans and of its heater.
ModelPower ==
  [fans   |-> 300 :> 105 @@ 400 :> 170 @@ 420 :> 94 @@ 500 :> 255 @@ 550 :> 345,
   heater |-> 300 :> 1150 @@ 400 :> 1500 @@ 420 :> 1449 @@ 500 :> 1850 @@ 550 :> 1950]
ModelOf(nominal) ==
  LET near == {m \in DOMAIN ModelPower.fans : Distance(nominal, m) <= 15}
  IN  {m \in near : \A n \in near : Distance(nominal, m) <= Distance(nominal, n)}
\* The estimate for a known model, in tenths of a watt and rounded down: the fans
\* at percentages of the nominal flow, the heater at tenths of a volt, and what
\* the unit draws at rest.
FanPower(model, percent) == (ModelPower.fans[model] * 5 * (percent ^ 3 \div 1000)) \div 1000
PowerOf(model, supply, exhaust, heater) ==
  FanPower(model, supply) + FanPower(model, exhaust)
  + (ModelPower.heater[model] * Clamp(heater, 0, 100)) \div 10 + 100
=============================================================================
