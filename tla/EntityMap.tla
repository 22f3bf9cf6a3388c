----------------------------- MODULE EntityMap -----------------------------
(***************************************************************************)
(* Which entities the registers of the map become: the loaders that fill   *)
(* the dictionaries of the platforms, in the order they run.  A dictionary *)
(* is a function from the keys of its entities to the registers they read  *)
(* and write; an entry without a register of its own has it for its key.   *)
(* The dictionaries a build starts from are the hand-written ones or, when *)
(* an entry is reloaded, those the last build left.  The translation keys  *)
(* and the overrides come in as sets of names.  A definition also tells    *)
(* the family its name puts it in.                                         *)
(***************************************************************************)
EXTENDS Registers

Platforms == {"number", "sensor", "binary_sensor", "switch", "select", "text", "time"}

Writes(def) == def.access # "R"
Holding(def) == def.function = 3
\* A plain enumeration, not a bit mask.
Enumerated(def) == def.enum # {} /\ ~def.bits
OnOff(codes) == codes = {0, 1}
Names(defs) == {def.name : def \in defs}

\* The entries of registers that are their own keys; d.update(e); d without some
\* keys.  (The provers do not know the @@ of TLC.)
Own(names) == [name \in names |-> name]
Updated(d, e) == [k \in DOMAIN d \cup DOMAIN e |-> IF k \in DOMAIN e THEN e[k] ELSE d[k]]
Without(d, keys) == [k \in DOMAIN d \ keys |-> d[k]]

-----------------------------------------------------------------------------
\* _load_number_mappings: what nothing better than a number can show, and what
\* the overrides add whatever it is.
IsNumber(def, static, keys) ==
  /\ Holding(def) /\ def.type # "string"
  /\ def.name \in DOMAIN static.sensor => Writes(def)
  /\ def.name \notin DOMAIN static.select \cup DOMAIN static.switch
  /\ def.family \notin {"clock", "alarm", "fault", "time", "season"}
  /\ def.states = {} /\ ~Enumerated(def)
  /\ def.name \in keys.number
Numbers(defs, static, keys, overrides) ==
  Names({d \in defs : IsNumber(d, static, keys)}) \cup overrides

\* _load_discrete_mappings: coils and inputs, and holding registers whose unit
\* lists states; alarms and errors, unlike faults, are moved to the binary sensors.
Diagnostic(def, keys) == Holding(def) /\ def.family = "alarm" /\ def.name \in keys.binary_sensor
IsSwitch(def, keys) == OnOff(def.states) /\ Writes(def) /\ def.name \in keys.switch
IsSelect(def, keys) == def.states # {} /\ ~OnOff(def.states) /\ def.name \in keys.select
IsBinary(def, keys) ==
  /\ def.name \in keys.binary_sensor
  /\ \/ def.function \in {1, 2}
     \/ Holding(def) /\ OnOff(def.states) /\ ~IsSwitch(def, keys)
     \/ Diagnostic(def, keys)
\* A bit mask has an entity for each named bit, and one of its own when no bit is
\* named or some bit is not; no two masks share a key.
MaskKeys(def) == def.bitkeys \cup {name \in {def.name} : def.bitkeys = {} \/ def.unnamed}
Masks(defs) ==
  LET masks == {d \in defs : d.bits}
  IN  [key \in UNION {MaskKeys(d) : d \in masks} |-> (CHOOSE d \in masks : key \in MaskKeys(d)).name]
Generated(defs, keys) ==
  [binary_sensor |-> Updated(Masks(defs), Own(Names({d \in defs : IsBinary(d, keys)}))),
   switch |-> Own(Names({d \in defs : Holding(d) /\ IsSwitch(d, keys) /\ ~Diagnostic(d, keys)})),
   select |-> Own(Names({d \in defs : Holding(d) /\ IsSelect(d, keys) /\ ~Diagnostic(d, keys)}))]

\* The register all special modes are written to.
ModeRegister == "special_mode"
\* _build_entity_mappings: what one dictionary names is not generated for another;
\* the special modes become switches, whatever had their keys.
Merged(defs, static, keys, overrides, modes) ==
  LET made == Generated(defs, keys)
      new(p, others) == Updated(static[p], Without(made[p], UNION {DOMAIN static[q] : q \in others}))
  IN  [static EXCEPT
         !.number = Own(Numbers(defs, static, keys, overrides)),
         !.binary_sensor = new("binary_sensor", {"binary_sensor", "switch", "select"}),
         !.switch = Updated(new("switch", {"binary_sensor", "select"}), [mode \in modes |-> ModeRegister]),
         !.select = new("select", {"binary_sensor", "switch"}),
         !.time = << >>]

-----------------------------------------------------------------------------
\* _extend_entity_mappings_from_registers: a holding register no dictionary has.
\* Its family decides first, then its codes, then its bounds.
Translated(def, p, keys) == {q \in {p} : def.name \in keys[q]}
EnumPlatform(def, keys) ==
  CASE OnOff(def.enum) /\ Writes(def) -> Translated(def, "switch", keys)
    [] OnOff(def.enum)                -> Translated(def, "binary_sensor", keys)
    [] Writes(def)                    -> Translated(def, "select", keys)
    [] OTHER                          -> {"sensor"}
\* Bounds are in tenths; hints are the codes the register's description lists.
BoundsPlatform(def, keys) ==
  LET atMost(n) == \A high \in def.max : high <= n
  IN  CASE def.min = {} \/ def.max = {}                     -> {}
        [] atMost(10) /\ Writes(def)                        -> Translated(def, "switch", keys)
        [] atMost(10)                                       -> Translated(def, "binary_sensor", keys)
        [] Writes(def) /\ atMost(100) /\ def.hints # {}     -> Translated(def, "select", keys)
        [] Writes(def)                                      -> Translated(def, "number", keys)
        [] OTHER                                            -> {}
PlatformOf(def, keys) ==
  CASE def.family \in {"alarm", "fault"} -> Translated(def, "binary_sensor", keys)
    [] def.family = "clock" -> {}
    [] def.family = "time" -> IF def.settable /\ Writes(def) THEN {"time"} ELSE {"sensor"}
    [] def.family = "season" -> IF Writes(def) THEN {"select"} ELSE {"sensor"}
    [] Enumerated(def) -> EnumPlatform(def, keys)
    [] OTHER -> BoundsPlatform(def, keys)

\* is_unmappable_holding_register: named by a dictionary, or what a binary sensor reads.
Mapped(name, maps) ==
  \/ \E p \in Platforms : name \in DOMAIN maps[p]
  \/ \E key \in DOMAIN maps.binary_sensor : maps.binary_sensor[key] = name
EntityMappings(defs, static, keys, overrides, modes) ==
  LET maps == Merged(defs, static, keys, overrides, modes)
      rest == {d \in defs : Holding(d) /\ ~Mapped(d.name, maps)}
  IN  [p \in Platforms |-> Updated(maps[p], Own(Names({d \in rest : p \in PlatformOf(d, keys)})))]
=============================================================================
