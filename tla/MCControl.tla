----------------------------- MODULE MCControl -----------------------------
(***************************************************************************)
(* The fan, and beside it another entity, a service call or the clock      *)
(* synchronisation.  The unit has no register for the speed in the         *)
(* automatic mode, as no unit has: the register map does not know it.      *)
(* The assumptions check the pure operators over small domains.            *)
(***************************************************************************)
EXTENDS Control, EntityMap

Clock == {"date_time", "date_time_ddtt", "date_time_ggmm", "date_time_sscc"}
mcHolding == {"on_off_panel_mode", "mode", "air_flow_rate_manual", "setting", "schedule"} \cup AirflowBlock \cup Clock
mcOthers == {"supply_percentage"}
mcInitial == [r \in mcHolding \cup mcOthers |-> CASE r = "mode" -> Manual [] OTHER -> 0]
mcBlocks == {AirflowBlock}

mcPanel == [mode |-> {Automatic, Temporary}]
mcFollows == [supply_percentage |-> "air_flow_rate_manual"]

mcNow == [year |-> 2025, month |-> 6, day |-> 30, weekday |-> 1, hour |-> 23, minute |-> 59, second |-> 58]
mcCommands ==
  [c \in Callers |->
     IF c = "fan"
     THEN {[do |-> "fan_on", pct |-> 60], [do |-> "fan_off"]}
     ELSE {[do |-> "set", reg |-> "air_flow_rate_manual", val |-> 61],
           [do |-> "schedule", slot |-> "schedule", setting |-> "setting", start |-> 8,
            pct |-> 60, temp |-> 10, ends |-> FALSE],
           [do |-> "curve", slope |-> 1, offset |-> 0, max |-> None, min |-> None],
           [do |-> "sync_clock", now |-> mcNow]}]

\* One number entity, whose register the panel also sets.
mcNumber == [c \in Callers |-> {[do |-> "set", reg |-> "air_flow_rate_manual", val |-> 60]}]
mcNumberPanel == [air_flow_rate_manual |-> {30}]

mcDatas ==
  {("on_off_panel_mode" :> power) @@ ("mode" :> mode) @@ ("special_mode" :> special)
     @@ ("air_flow_rate_manual" :> 30) @@ ("required_temperature" :> 40) @@ ("min_percentage" :> 10)
   : power \in {0, 1}, mode \in {Automatic, Manual}, special \in {0, 1, 8}}
mcShowing ==
  {[do |-> "set", reg |-> "air_flow_rate_manual", val |-> 60], [do |-> "hvac", mode |-> "off"],
   [do |-> "hvac", mode |-> "auto"], [do |-> "hvac", mode |-> "fan_only"], [do |-> "climate_on"],
   [do |-> "preset", mode |-> "none"], [do |-> "preset", mode |-> "boost"],
   [do |-> "fan_mode", pct |-> 60], [do |-> "temperature", temp |-> 44]}
  \cup [do : {"switch"}, mode : {"boost", "bathroom"}, on : {TRUE}]
\* What a command shows in advance is what its display shows once its writes
\* are in the registers: commands and displays agree.
ASSUME ShownIsWritten ==
  \A cmd \in mcShowing, d \in mcDatas :
    LET job == JobOf(cmd, d) IN Display(job.key, Applied(job, d)) = Overlay(job.key, job.val, d)
\* Ten characters at two registers a piece: only the first four are kept.
ASSUME ShortNames ==
  LET job == JobOf([do |-> "name", text |-> [i \in 1..10 |-> 60 + i]], << >>)
  IN  /\ Len(job.steps) = 3
      /\ \A k \in {2, 3} : \A i \in 1..Len(job.steps[k].words) : job.steps[k].words[i].val = 0

mcDef ==
  [name |-> "r", function |-> 3, access |-> "RW", length |-> 1, type |-> "u16", little |-> FALSE,
   enum |-> {}, states |-> {}, hints |-> {}, bits |-> FALSE, bitdefs |-> <<>>, bitkeys |-> {},
   unnamed |-> FALSE, mask |-> {}, min |-> {}, max |-> {},
   multiplier |-> 10, resolution |-> 10, temperature |-> FALSE, output |-> FALSE, time |-> FALSE,
   packed |-> FALSE, flow |-> FALSE, family |-> "plain", settable |-> TRUE]
\* A number of two registers is read as written, in either order of its words.
ASSUME WordsReadBack ==
  \A little \in BOOLEAN, high \in {0, 1, 255, 32767}, low \in {0, 1, 32768, 65535} :
    LET def == [mcDef EXCEPT !.length = 2, !.type = "u32", !.little = little]
        v == high * WordSize + low
    IN  WellFormed(def) /\ ValueOf(def, WordsOf(def, v)) = v
\* A set of flags is read as written.
ASSUME FlagsReadBack ==
  LET flags == {1, 2, 16, 32768}
      def == [mcDef EXCEPT !.enum = flags, !.bits = TRUE, !.type = "bitmask"]
  IN  \A bits \in SUBSET flags : \A w \in Encodes(def, Flags(bits)) : Decode(def, w) = Flags(bits)
\* A temperature of half a degree is published as written, with its sign, but for
\* the one word that means no sensor.
ASSUME TemperaturesReadBack ==
  LET def == [mcDef EXCEPT !.temperature = TRUE, !.multiplier = 5, !.resolution = 5]
  IN  \A t \in -400..400 :
        \A w \in Encodes(def, Number(5 * t)) : Published(def, Unsigned(w)) = Number(5 * t)

\* Every register has one control at most, and one that is translated everywhere
\* has an entity, unless it is the clock.  Only switches look at the access: a
\* register whose unit lists three states is a select even when it is read-only.
\* A special mode named like the register is a switch of another register; without
\* one, the second build, when an entry is reloaded, changes nothing.
mcKeys == [p \in Platforms |-> {"r"}]
mcNoKeys == [p \in Platforms |-> {}]
mcNone == [p \in Platforms |-> << >>]
mcStatics == {mcNone} \cup {[mcNone EXCEPT ![p] = Own({"r"})] : p \in {"sensor", "select", "switch"}}
ASSUME EntitiesAreClear ==
  \A access \in {"R", "RW"}, family \in {"clock", "alarm", "fault", "time", "season", "plain"},
     codes, states \in {{}, {0, 1}, {0, 1, 2}}, max \in {{}, {10}, {50}, {900}},
     static \in mcStatics, modes \in {{}, {"m"}, {"r"}} :
    LET def == [mcDef EXCEPT !.access = access, !.family = family, !.enum = codes, !.states = states,
                             !.min = IF max = {} THEN {} ELSE {0}, !.max = max]
        map == EntityMappings({def}, static, mcKeys, {}, modes)
        controls == {p \in {"number", "switch", "select", "time"} : \E k \in DOMAIN map[p] : map[p][k] = def.name}
    IN  /\ Cardinality(controls) <= 1
        /\ family # "clock" => Mapped(def.name, map)
        /\ family = "plain" /\ states = {0, 1, 2} /\ static.switch = << >> => def.name \in DOMAIN map.select
        /\ def.name \notin modes => EntityMappings({def}, map, mcKeys, {}, modes) = map
\* A mask with a bit that has no name is an entity beside those of its bits.
ASSUME MasksAreSplit ==
  \A unnamed \in BOOLEAN, bitkeys \in SUBSET {"r_a", "r_b"}, keys \in {mcKeys, mcNoKeys} :
    LET def == [mcDef EXCEPT !.bits = TRUE, !.enum = {1, 2}, !.bitkeys = bitkeys, !.unnamed = unnamed]
        binary == EntityMappings({def}, mcNone, keys, {}, {}).binary_sensor
    IN  /\ bitkeys \subseteq DOMAIN binary /\ \A key \in DOMAIN binary : binary[key] = "r"
        /\ "r" \in DOMAIN binary <=> unnamed \/ bitkeys = {}
=============================================================================
