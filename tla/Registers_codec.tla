-------------------------- MODULE Registers_codec --------------------------
(***************************************************************************)
(* What is written is read back: the codecs of Registers are inverse to    *)
(* each other over the values a control can set, a register has at most    *)
(* one control, and what a command shows in advance is what its writes     *)
(* make the unit show.  Every statement is about all values, not a sample. *)
(***************************************************************************)
EXTENDS EntityMap, Commands, SequenceTheorems, TLAPS

IsWord(w) == w \in Int /\ 0 <= w /\ w < 65536

\* A packed decimal byte keeps every number below a hundred.
LEMMA BcdRoundTrip ==
  ASSUME NEW n \in 0..99
  PROVE  BcdByte(n) \in 0..153 /\ BcdValue(BcdByte(n)) = n
BY DEF BcdByte, BcdValue

LEMMA BytesApart ==
  ASSUME NEW h \in 0..99, NEW l \in 0..99
  PROVE  /\ IsWord(TwoBytes(h, l))
         /\ HighByte(TwoBytes(h, l)) = BcdByte(h)
         /\ LowByte(TwoBytes(h, l)) = BcdByte(l)
<1>1. PICK a \in 0..153 : a = BcdByte(h)
  BY BcdRoundTrip
<1>2. PICK b \in 0..153 : b = BcdByte(l)
  BY BcdRoundTrip
<1>3. PICK w \in Int : w = a * 256 + b
  OBVIOUS
<1>4. TwoBytes(h, l) = w
  BY <1>1, <1>2, <1>3 DEF TwoBytes
<1>5. w \div 256 = a /\ w % 256 = b
  BY <1>3
<1>6. a % 256 = a
  OBVIOUS
<1>7. IsWord(w)
  BY <1>3 DEF IsWord
<1>8. HighByte(w) = a /\ LowByte(w) = b
  BY <1>5, <1>6 DEF HighByte, LowByte
<1> QED
  BY <1>1, <1>2, <1>4, <1>7, <1>8

\* The numbers that fit a packed byte, and a word whose halves are read back.
Digits == 0..99
Back(h, l) == BcdValue(HighByte(TwoBytes(h, l))) = h /\ BcdValue(LowByte(TwoBytes(h, l))) = l

\* Both halves of a packed word are read back.
LEMMA BytesBack == \A h, l \in Digits : Back(h, l)
<1> SUFFICES ASSUME NEW h \in 0..99, NEW l \in 0..99 PROVE Back(h, l)
  BY DEF Digits
<1>1. HighByte(TwoBytes(h, l)) = BcdByte(h) /\ LowByte(TwoBytes(h, l)) = BcdByte(l)
  BY BytesApart
<1>2. BcdValue(BcdByte(h)) = h
  BY BcdRoundTrip
<1>3. BcdValue(BcdByte(l)) = l
  BY BcdRoundTrip
<1> QED
  BY <1>1, <1>2, <1>3 DEF Back

\* % takes a negative number back to the word it stands for.
LEMMA NonNegative == ASSUME NEW v \in Int, v >= 0, v <= 32767 PROVE v % 65536 = v
OBVIOUS
LEMMA Negative == ASSUME NEW v \in Int, v < 0, v >= -32768 PROVE v % 65536 = v + 65536
OBVIOUS

\* Two's complement: the sign a reader gives a word is the one a writer took off
\* (decode_int16, process_register_value against "& 65535" in encode).
THEOREM SignRoundTrip ==
  /\ \A v \in Int : v >= -32768 /\ v <= 32767 => Signed(Unsigned(v)) = v
  /\ \A w : IsWord(w) => Unsigned(Signed(w)) = w
<1>1. ASSUME NEW v \in Int, v >= -32768, v <= 32767 PROVE Signed(Unsigned(v)) = v
  <2>1. CASE v >= 0
    <3>1. Unsigned(v) = v
      BY <1>1, <2>1, NonNegative DEF Unsigned, WordSize
    <3> QED
      BY <1>1, <3>1 DEF Signed
  <2>2. CASE v < 0
    <3>1. Unsigned(v) = v + 65536
      BY <1>1, <2>2, Negative DEF Unsigned, WordSize
    <3> QED
      BY <1>1, <3>1 DEF Signed, WordSize
  <2> QED
    BY <2>1, <2>2
<1>2. ASSUME NEW w, IsWord(w) PROVE Unsigned(Signed(w)) = w
  <2>1. w \in Int /\ 0 <= w /\ w <= 65535
    BY <1>2 DEF IsWord
  <2>2. CASE w < 32768
    <3>1. Signed(w) = w
      BY <2>1, <2>2 DEF Signed
    <3> QED
      BY <2>1, <2>2, <3>1, NonNegative DEF Unsigned, WordSize
  <2>3. CASE w >= 32768
    <3>1. PICK x \in Int : x = w - 65536
      BY <2>1
    <3>2. Signed(w) = x
      BY <2>1, <2>3, <3>1 DEF Signed, WordSize
    <3>3. x % 65536 = w
      BY <2>1, <2>3, <3>1, Negative
    <3> QED
      BY <3>2, <3>3 DEF Unsigned, WordSize
  <2> QED
    BY <2>1, <2>2, <2>3
<1> QED
  BY <1>1, <1>2

\* An hour and a minute packed in a word are read as that time.
LEMMA TimeOfPacked ==
  ASSUME NEW h \in 0..23, NEW l \in 0..59
  PROVE  TimeOf(TwoBytes(h, l)) = TimeOfDay(h * 60 + l)
<1> DEFINE w == TwoBytes(h, l)
<1>1. /\ w \div 4096 = h \div 10
      /\ HighByte(w) % 16 = h % 10
      /\ LowByte(w) \div 16 = l \div 10
      /\ w % 16 = l % 10
      /\ w < 32768
  BY DEF TwoBytes, BcdByte, HighByte, LowByte
<1>2. /\ h \div 10 \in 0..2 /\ h % 10 \in 0..9 /\ (h \div 10) * 10 + (h % 10) = h
      /\ l \div 10 \in 0..5 /\ l % 10 \in 0..9 /\ (l \div 10) * 10 + (l % 10) = l
  OBVIOUS
<1> HIDE DEF w
<1>3. TimeOf(w) = TimeOfDay(h * 60 + l)
  BY <1>1, <1>2 DEF TimeOf, Nothing
<1> QED
  BY <1>3 DEF w

\* A schedule time is read back as the minutes written: of every time of day the
\* word is packed decimals, never the marker of an unused slot (encode_bcd_time
\* against _decode_bcd_time_to_time).
THEOREM TimeRoundTrip ==
  \A m \in 0..1439 : TimeOf(TimeWord(m)) = TimeOfDay(m)
<1> SUFFICES ASSUME NEW m \in 0..1439 PROVE TimeOf(TimeWord(m)) = TimeOfDay(m)
  OBVIOUS
<1>1. PICK h \in 0..23 : h = m \div 60
  OBVIOUS
<1>2. PICK l \in 0..59 : l = m % 60
  OBVIOUS
<1>3. h * 60 + l = m
  BY <1>1, <1>2
<1>4. TimeWord(m) = TwoBytes(h, l)
  BY <1>1, <1>2 DEF TimeWord
<1> QED
  BY <1>3, <1>4, TimeOfPacked

\* The clock block is read back as the time that was written, of any second of
\* this century (encode_rtc_registers against _decode_device_clock).
THEOREM ClockRoundTrip ==
  ASSUME NEW t,
         t.year \in 2000..2099, t.month \in 1..12, t.day \in 1..31, t.weekday \in 0..6,
         t.hour \in 0..23, t.minute \in 0..59, t.second \in 0..59
  PROVE  LET r == ClockParts(ClockWords(t))
         IN  /\ IsClock(r)
             /\ r.year = t.year /\ r.month = t.month /\ r.day = t.day
             /\ r.hour = t.hour /\ r.minute = t.minute /\ r.second = t.second
<1> DEFINE r == ClockParts(ClockWords(t))
<1>1. t.year % 100 \in 0..99 /\ 2000 + (t.year % 100) = t.year
  OBVIOUS
<1>2. /\ t.month \in Digits /\ t.day \in Digits /\ t.weekday \in Digits
      /\ t.hour \in Digits /\ t.minute \in Digits /\ t.second \in Digits
      /\ 0 \in Digits /\ t.year % 100 \in Digits
  BY <1>1 DEF Digits
<1>3. Back(t.year % 100, t.month) /\ Back(t.day, t.weekday)
  BY <1>2, BytesBack
<1>4. Back(t.hour, t.minute) /\ Back(t.second, 0)
  BY <1>2, BytesBack
<1>5. /\ r.year = t.year /\ r.month = t.month /\ r.day = t.day
      /\ r.hour = t.hour /\ r.minute = t.minute /\ r.second = t.second
  BY <1>1, <1>3, <1>4 DEF Back, ClockParts, ClockWords
<1> QED
  BY <1>5 DEF IsClock

\* A schedule setting is read back as written, but for the one pair whose word is
\* the marker of a missing value: an airflow of 128 % at 0 degrees.
THEOREM AattRoundTrip ==
  \A flow \in 0..150, half \in 0..200 :
    AattOf(AattWord(flow, half)) = IF flow = 128 /\ half = 0 THEN Nothing ELSE Packed(flow, half)
<1> SUFFICES ASSUME NEW flow \in 0..150, NEW half \in 0..200
             PROVE  AattOf(AattWord(flow, half))
                    = IF flow = 128 /\ half = 0 THEN Nothing ELSE Packed(flow, half)
  OBVIOUS
<1>1. /\ HighByte(AattWord(flow, half)) = flow /\ LowByte(AattWord(flow, half)) = half
      /\ AattWord(flow, half) = Unavailable <=> flow = 128 /\ half = 0
  BY DEF AattWord, HighByte, LowByte, Unavailable
<1> QED
  BY <1>1 DEF AattOf

\* Packing a setting that is already packed, as a schedule service does, gives a
\* word no register holds, whatever the airflow but 0 (handlers_schedule.py, encode).
THEOREM PackedTwice ==
  \A flow \in 1..150, half \in 0..200, any \in 0..255 :
    AattWord(AattWord(flow, half), any) >= WordSize
<1> SUFFICES ASSUME NEW flow \in 1..150, NEW half \in 0..200, NEW any \in 0..255
             PROVE  AattWord(AattWord(flow, half), any) >= WordSize
  OBVIOUS
<1>1. PICK x \in Int : x = AattWord(flow, half) /\ x >= 256
  BY DEF AattWord
<1>2. PICK y \in Int : y = AattWord(x, any) /\ y >= 65536
  BY <1>1 DEF AattWord
<1> QED
  BY <1>1, <1>2 DEF WordSize

\* A quantity that was read is written back as the same word, for every factor
\* whose resolution is the factor itself, as in the whole map (apply_output_scaling
\* against coerce_scaled_input).
THEOREM ScaleRoundTrip ==
  ASSUME NEW def, NEW w \in Nat,
         def.multiplier \in {1, 5, 10, 20, 30}, def.resolution = def.multiplier
  PROVE  Unscaled(Scaled(w, def), def.multiplier, def.resolution) = w
<1>1. ASSUME NEW f \in {1, 5, 10, 20, 30}
      PROVE  /\ Rounded(w * f, f) = w * f
             /\ Quotient(w * f, f) = w
  <2>1. CASE f = 1  BY <2>1 DEF Rounded, Quotient
  <2>2. CASE f = 5  BY <2>2 DEF Rounded, Quotient
  <2>3. CASE f = 10 BY <2>3 DEF Rounded, Quotient
  <2>4. CASE f = 20 BY <2>4 DEF Rounded, Quotient
  <2>5. CASE f = 30 BY <2>5 DEF Rounded, Quotient
  <2> QED BY <2>1, <2>2, <2>3, <2>4, <2>5
<1>2. Scaled(w, def) = w * def.multiplier
  BY <1>1 DEF Scaled
<1> QED
  BY <1>1, <1>2 DEF Unscaled

\* A temperature is published as it was written, with its sign, but for the one
\* word that means that there is no sensor (encode and "& 65535" against
\* process_register_value), also where the register is declared signed.
THEOREM TemperatureRoundTrip ==
  ASSUME NEW def, NEW t \in Int, t >= -32768, t <= 32767,
         def.multiplier \in {1, 5, 10}, def.resolution = def.multiplier, def.temperature = TRUE,
         def.enum = {}, ~def.output, ~def.packed, ~def.time, ~def.flow, InRange(def, t * def.multiplier)
  PROVE  \E w \in Encodes(def, Number(t * def.multiplier)) :
           Published(def, Unsigned(w)) = IF t = -32768 THEN Nothing ELSE Number(t * def.multiplier)
<1> DEFINE w == Unsigned(t)
<1>1. ASSUME NEW f \in {1, 5, 10}
      PROVE  Rounded(t * f, f) = t * f /\ Quotient(t * f, f) = t
  <2>1. CASE f = 1  BY <2>1 DEF Rounded, Quotient
  <2>2. CASE f = 5  BY <2>2 DEF Rounded, Quotient
  <2>3. CASE f = 10 BY <2>3 DEF Rounded, Quotient
  <2> QED BY <2>1, <2>2, <2>3
<1>2. t \in Encodes(def, Number(t * def.multiplier))
  <2>1. Unscaled(t * def.multiplier, def.multiplier, def.resolution) = t
    BY <1>1 DEF Unscaled
  <2> QED
    BY <2>1 DEF Encodes, Number
<1>3. Signed(w) = t /\ (w = Unavailable <=> t = -32768)
  <2>1. Signed(w) = t
    BY SignRoundTrip
  <2>2. t >= 0 => w = t
    BY NonNegative DEF Unsigned, WordSize
  <2>3. t < 0 => w = t + 65536
    BY Negative DEF Unsigned, WordSize
  <2> QED
    BY <2>1, <2>2, <2>3 DEF Unavailable
<1> HIDE DEF w
<1>4. Scaled(t, def) = t * def.multiplier
  BY <1>1 DEF Scaled
<1>5. CASE t = -32768
  <2>1. Published(def, w) = Nothing
    BY <1>3, <1>5 DEF Published
  <2> QED
    BY <1>2, <1>5, <2>1 DEF w
<1>6. CASE t # -32768
  <2>1. Signed(t) = t /\ t # Unavailable
    BY <1>6 DEF Signed, Unavailable
  <2>2. Decode(def, t) = Number(t * def.multiplier)
    BY <1>4, <2>1 DEF Decode, IsOutput
  <2>3. Published(def, w) = Number(t * def.multiplier)
    BY <1>3, <1>6, <2>2 DEF Published, IsOutput, Number
  <2> QED
    BY <1>2, <1>6, <2>3 DEF w
<1> QED
  BY <1>5, <1>6

\* A code of three is no longer that code once it is divided by a factor of three:
\* every code but zero of the two baud rates is written as another one.
THEOREM CodesAreScaled ==
  ASSUME NEW def, NEW code \in 1..8, def.multiplier = 30, def.resolution = 30
  PROVE  EncodeCode(def, code) # code
BY DEF EncodeCode, Unscaled, Rounded, Quotient

\* A register has at most one entity that writes it, for any map and translations,
\* on the first build and on those of reloads: no two entries of the dictionaries of
\* numbers, switches, selects, texts and times are for the same register.  The one
\* exception is special_mode, which a select and the switch of each mode write.  (The
\* climate and the fan, which no dictionary describes, and the services write some of
\* the same registers.)
Exclusive == {"number", "switch", "select", "text", "time"}
\* What a build starts from: no two dictionaries name the same thing, and what they
\* or the overrides name is not taken for something else for its states or its type.
Start(defs, static, overrides) ==
  /\ static = [p \in Platforms |-> static[p]]
  /\ \A p \in {"switch", "select", "text"} :
       /\ \A key \in DOMAIN static[p] : static[p][key] \in {key, ModeRegister}
       /\ DOMAIN static[p] \cap overrides = {}
       /\ \A q \in {"switch", "select", "text"} \ {p} : DOMAIN static[p] \cap DOMAIN static[q] = {}
  /\ \A d \in defs :
       /\ d.name \in overrides => d.states = {}
       /\ d.name \in DOMAIN static.text => d.type = "string" /\ d.states = {}
THEOREM OneControl ==
  ASSUME NEW defs, NEW static, NEW keys, NEW overrides, NEW modes,
         \A d, e \in defs : d.name = e.name => d = e,
         Start(defs, static, overrides),
         NEW p \in Exclusive, NEW q \in Exclusive, NEW k, NEW j, NEW register,
         register # ModeRegister,
         k \in DOMAIN EntityMappings(defs, static, keys, overrides, modes)[p],
         EntityMappings(defs, static, keys, overrides, modes)[p][k] = register,
         j \in DOMAIN EntityMappings(defs, static, keys, overrides, modes)[q],
         EntityMappings(defs, static, keys, overrides, modes)[q][j] = register
  PROVE  p = q /\ k = j
<1> DEFINE maps == Merged(defs, static, keys, overrides, modes)
           made == Generated(defs, keys)
           rest == {d \in defs : Holding(d) /\ ~Mapped(d.name, maps)}
           added(x) == Names({d \in rest : x \in PlatformOf(d, keys)})
           Binary == Updated(static.binary_sensor,
                             Without(made.binary_sensor, UNION {DOMAIN static[x] : x \in {"binary_sensor", "switch", "select"}}))
           Switch == Updated(Updated(static.switch, Without(made.switch, UNION {DOMAIN static[x] : x \in {"binary_sensor", "select"}})),
                             [mode \in modes |-> ModeRegister])
           Select == Updated(static.select, Without(made.select, UNION {DOMAIN static[x] : x \in {"binary_sensor", "switch"}}))
\* The dictionaries of one platform each.
<1>1. /\ maps.number = Own(Numbers(defs, static, keys, overrides))
      /\ maps.switch = Switch /\ maps.select = Select
      /\ maps.text = static.text /\ maps.time = << >>
  BY DEF Start, Merged, Platforms
<1>2. \A r : r \in DOMAIN maps.number => r \in overrides \/ \E d \in defs : d.name = r /\ IsNumber(d, static, keys)
  BY <1>1 DEF Own, Numbers, Names
<1>3. \A r : r \in DOMAIN made.switch => \E d \in defs : d.name = r /\ OnOff(d.states)
  BY DEF Generated, Own, Names, IsSwitch
<1>4. \A r : r \in DOMAIN made.select => \E d \in defs : d.name = r /\ d.states # {} /\ ~OnOff(d.states)
  BY DEF Generated, Own, Names, IsSelect
<1>5. made.switch = Own(DOMAIN made.switch) /\ made.select = Own(DOMAIN made.select)
  BY DEF Generated, Own
\* An entry of them is for its key, or for the register of the modes.
<1>6. \A x \in Exclusive : \A r \in DOMAIN maps[x] : maps[x][r] \in {r, ModeRegister}
  <2>1. \A r \in DOMAIN Switch : Switch[r] \in {r, ModeRegister}
    BY <1>5 DEF Start, Updated, Without, Own
  <2>2. \A r \in DOMAIN Select : Select[r] \in {r, ModeRegister}
    BY <1>5 DEF Start, Updated, Without, Own
  <2>3. \A r \in DOMAIN maps.number : maps.number[r] = r
    BY <1>1 DEF Own
  <2>4. \A r \in DOMAIN static.text : static.text[r] \in {r, ModeRegister}
    BY DEF Start
  <2>5. \A r : r \notin DOMAIN maps.time
    BY <1>1
  <2> HIDE DEF maps, Switch, Select
  <2> SUFFICES ASSUME NEW x \in Exclusive, NEW r \in DOMAIN maps[x] PROVE maps[x][r] \in {r, ModeRegister}
    OBVIOUS
  <2> QED
    BY <1>1, <2>1, <2>2, <2>3, <2>4, <2>5 DEF Exclusive
\* Where the entry of a register that is its own key comes from.
<1>7. \A r : r # ModeRegister /\ r \in DOMAIN Switch /\ Switch[r] = r
               => r \in DOMAIN static.switch \/ (r \in DOMAIN made.switch /\ r \notin DOMAIN static.select)
  BY DEF Updated, Without
<1>8. \A r : r \in DOMAIN Select
               => r \in DOMAIN static.select \/ (r \in DOMAIN made.select /\ r \notin DOMAIN static.switch)
  BY DEF Updated, Without
<1> HIDE DEF made, Switch, Select
<1>9. ASSUME NEW r, NEW x \in Exclusive, NEW y \in Exclusive, r # ModeRegister,
             r \in DOMAIN maps[x], maps[x][r] = r, r \in DOMAIN maps[y], maps[y][r] = r
      PROVE  x = y
  <2> DEFINE in(z) == r \in DOMAIN maps[z] /\ maps[z][r] = r
  <2>1. \A d, e \in defs : d.name = r /\ e.name = r => d = e
    OBVIOUS
  <2>2. in("number") => \/ r \in overrides
                        \/ \E d \in defs : d.name = r /\ IsNumber(d, static, keys)
    BY <1>2
  <2>3. in("switch") => \/ r \in DOMAIN static.switch
                        \/ r \notin DOMAIN static.select /\ \E d \in defs : d.name = r /\ OnOff(d.states)
    BY <1>1, <1>3, <1>7, <1>9
  <2>4. in("select") => \/ r \in DOMAIN static.select
                        \/ r \notin DOMAIN static.switch /\ \E d \in defs : d.name = r /\ d.states # {} /\ ~OnOff(d.states)
    BY <1>1, <1>4, <1>8
  <2>5. in("text") => r \in DOMAIN static.text
    BY <1>1
  <2>6. ~in("time")
    BY <1>1
  <2> HIDE DEF in
  <2>7. ~(in("number") /\ in("switch"))
    BY <2>1, <2>2, <2>3 DEF Start, IsNumber, OnOff
  <2>8. ~(in("number") /\ in("select"))
    BY <2>1, <2>2, <2>4 DEF Start, IsNumber
  <2>9. ~(in("number") /\ in("text"))
    BY <2>1, <2>2, <2>5 DEF Start, IsNumber
  <2>10. ~(in("switch") /\ in("select"))
    BY <2>1, <2>3, <2>4 DEF Start
  <2>11. ~(in("switch") /\ in("text"))
    BY <2>1, <2>3, <2>5 DEF Start, OnOff
  <2>12. ~(in("select") /\ in("text"))
    BY <2>1, <2>4, <2>5 DEF Start
  <2>13. in(x) /\ in(y)
    BY <1>9 DEF in
  <2> QED
    BY <2>6, <2>7, <2>8, <2>9, <2>10, <2>11, <2>12, <2>13 DEF Exclusive
\* What is added is in no dictionary yet, and in one of them afterwards.
<1>10. \A x \in Exclusive : \A r \in added(x) : \A y \in Exclusive : r \notin DOMAIN maps[y]
  BY DEF Mapped, Names, Exclusive, Platforms
<1>11. ASSUME NEW r, NEW x \in Exclusive, NEW y \in Exclusive, r \in added(x), r \in added(y) PROVE x = y
  <2>1. PICK d \in rest : d.name = r /\ x \in PlatformOf(d, keys)
    BY <1>11 DEF Names
  <2>2. PICK e \in rest : e.name = r /\ y \in PlatformOf(e, keys)
    BY <1>11 DEF Names
  <2>3. d = e
    BY <2>1, <2>2
  <2> QED
    BY <2>1, <2>2, <2>3 DEF PlatformOf, EnumPlatform, BoundsPlatform, Translated
<1> HIDE DEF maps, added
<1>12. \A x \in Exclusive : EntityMappings(defs, static, keys, overrides, modes)[x] = Updated(maps[x], Own(added(x)))
  BY DEF EntityMappings, Exclusive, Platforms, maps, added
<1>13. ASSUME NEW x \in Exclusive, NEW i, i \in DOMAIN EntityMappings(defs, static, keys, overrides, modes)[x],
              EntityMappings(defs, static, keys, overrides, modes)[x][i] = register
       PROVE  i = register /\ (register \in added(x) \/ (register \in DOMAIN maps[x] /\ maps[x][register] = register))
  <2>1. CASE i \in added(x)
    <3>1. register = i
      BY <1>12, <1>13, <2>1 DEF Updated, Own
    <3> QED
      BY <2>1, <3>1
  <2>2. CASE i \notin added(x)
    <3>1. EntityMappings(defs, static, keys, overrides, modes)[x] = Updated(maps[x], Own(added(x)))
      BY <1>12
    <3>2. DOMAIN Own(added(x)) = added(x)
      BY DEF Own
    <3>3. i \in DOMAIN maps[x] /\ maps[x][i] = register
      BY <1>13, <2>2, <3>1, <3>2 DEF Updated
    <3>4. maps[x][i] \in {i, ModeRegister}
      BY <1>6, <3>3
    <3> QED
      BY <3>3, <3>4
  <2> QED
    BY <2>1, <2>2
<1>14. \A x \in Exclusive : \A i :
         /\ i \in DOMAIN EntityMappings(defs, static, keys, overrides, modes)[x]
         /\ EntityMappings(defs, static, keys, overrides, modes)[x][i] = register
         => i = register /\ (register \in added(x) \/ (register \in DOMAIN maps[x] /\ maps[x][register] = register))
  BY <1>13
<1>15. \A x, y \in Exclusive : register \in added(x) /\ register \in added(y) => x = y
  BY <1>11
<1>16. \A x, y \in Exclusive :
         register \in DOMAIN maps[x] /\ maps[x][register] = register
         /\ register \in DOMAIN maps[y] /\ maps[y][register] = register => x = y
  BY <1>9
<1> QED
  BY <1>10, <1>14, <1>15, <1>16

\* The dictionaries a build leaves are such as a build may start from, so OneControl
\* holds after every reload: the special modes are named like no override, no entry
\* of a select or a text and no holding register.
ModesApart(defs, static, overrides, modes) ==
  modes \cap (overrides \cup DOMAIN static.select \cup DOMAIN static.text \cup Names({d \in defs : Holding(d)})) = {}
THEOREM StartsAgain ==
  ASSUME NEW defs, NEW static, NEW keys, NEW overrides, NEW modes, NEW left,
         \A d, e \in defs : d.name = e.name => d = e,
         Start(defs, static, overrides), ModesApart(defs, static, overrides, modes),
         left = EntityMappings(defs, static, keys, overrides, modes)
  PROVE  Start(defs, left, overrides) /\ ModesApart(defs, left, overrides, modes)
<1> DEFINE maps == Merged(defs, static, keys, overrides, modes)
           made == Generated(defs, keys)
           rest == {d \in defs : Holding(d) /\ ~Mapped(d.name, maps)}
           added(x) == Names({d \in rest : x \in PlatformOf(d, keys)})
           Switch == Updated(Updated(static.switch, Without(made.switch, UNION {DOMAIN static[x] : x \in {"binary_sensor", "select"}})),
                             [mode \in modes |-> ModeRegister])
           Select == Updated(static.select, Without(made.select, UNION {DOMAIN static[x] : x \in {"binary_sensor", "switch"}}))
<1>1. /\ maps.number = Own(Numbers(defs, static, keys, overrides))
      /\ maps.switch = Switch /\ maps.select = Select /\ maps.text = static.text
  BY DEF Start, Merged, Platforms
<1>2. /\ made.switch = Own(DOMAIN made.switch)
      /\ \A r \in DOMAIN made.switch : \E d \in defs : d.name = r /\ OnOff(d.states)
  BY DEF Generated, Own, Names, IsSwitch
<1>3. /\ made.select = Own(DOMAIN made.select)
      /\ \A r \in DOMAIN made.select : \E d \in defs : d.name = r /\ Holding(d) /\ d.states # {} /\ ~OnOff(d.states)
  BY DEF Generated, Own, Names, IsSelect
<1>4. overrides \subseteq DOMAIN maps.number
  BY <1>1 DEF Own, Numbers
<1>5. \A r : r \in DOMAIN Switch <=> \/ r \in DOMAIN static.switch \/ r \in modes
                                     \/ /\ r \in DOMAIN made.switch
                                        /\ r \notin DOMAIN static.binary_sensor /\ r \notin DOMAIN static.select
  BY DEF Updated, Without
<1>6. \A r : r \in DOMAIN Select <=> \/ r \in DOMAIN static.select
                                     \/ /\ r \in DOMAIN made.select
                                        /\ r \notin DOMAIN static.binary_sensor /\ r \notin DOMAIN static.switch
  BY DEF Updated, Without
<1>7. \A r \in DOMAIN Switch : Switch[r] \in {r, ModeRegister}
  BY <1>2 DEF Start, Updated, Without, Own
<1>8. \A r \in DOMAIN Select : Select[r] \in {r, ModeRegister}
  BY <1>3 DEF Start, Updated, Without, Own
<1> HIDE DEF made, Switch, Select
\* What is added: nothing to the texts, what no dictionary has to one of the others.
<1>9. added("text") = {}
  BY DEF Names, PlatformOf, EnumPlatform, BoundsPlatform, Translated
<1>10. \A x \in Platforms : \A r \in added(x) : \A y \in Platforms : r \notin DOMAIN maps[y]
  BY DEF Mapped, Names
<1>11. added("switch") \cap added("select") = {}
  <2>1. \A d \in rest : ~("switch" \in PlatformOf(d, keys) /\ "select" \in PlatformOf(d, keys))
    BY DEF PlatformOf, EnumPlatform, BoundsPlatform, Translated
  <2>2. \A d, e \in rest : d.name = e.name => d = e
    OBVIOUS
  <2> QED
    BY <2>1, <2>2 DEF Names
<1> HIDE DEF maps, added
<1>12. left = [x \in Platforms |-> left[x]] /\ \A x \in Platforms : left[x] = Updated(maps[x], Own(added(x)))
  BY DEF EntityMappings, maps, added
<1>13. \A x \in Platforms : /\ DOMAIN left[x] = DOMAIN maps[x] \cup added(x)
                            /\ \A r \in DOMAIN left[x] : left[x][r] = IF r \in added(x) THEN r ELSE maps[x][r]
  <2>1. SUFFICES ASSUME NEW x \in Platforms
                 PROVE  /\ DOMAIN left[x] = DOMAIN maps[x] \cup added(x)
                        /\ \A r \in DOMAIN left[x] : left[x][r] = IF r \in added(x) THEN r ELSE maps[x][r]
    OBVIOUS
  <2>2. left[x] = Updated(maps[x], Own(added(x)))
    BY <1>12
  <2>3. DOMAIN Own(added(x)) = added(x) /\ \A r \in added(x) : Own(added(x))[r] = r
    BY DEF Own
  <2> QED
    BY <2>2, <2>3 DEF Updated
<1>14. /\ DOMAIN left.switch = DOMAIN Switch \cup added("switch")
       /\ DOMAIN left.select = DOMAIN Select \cup added("select")
       /\ DOMAIN left.text = DOMAIN static.text
  BY <1>1, <1>9, <1>13 DEF Platforms
\* The keys of the three platforms stay apart, from each other and from the overrides.
<1>15. \A r \in DOMAIN made.switch \cup DOMAIN made.select : r \notin overrides /\ r \notin DOMAIN static.text
  <2>1. \A d \in defs : d.name \in overrides \/ d.name \in DOMAIN static.text => d.states = {}
    BY DEF Start
  <2>2. \A r \in DOMAIN made.switch : \E d \in defs : d.name = r /\ d.states # {}
    BY <1>2 DEF OnOff
  <2> QED
    BY <1>3, <2>1, <2>2
<1>16. DOMAIN Switch \cap DOMAIN Select = {}
  BY <1>2, <1>3, <1>5, <1>6 DEF Start, ModesApart, Names
<1>17. DOMAIN Switch \cap DOMAIN static.text = {}
  BY <1>5, <1>15 DEF Start, ModesApart
<1>18. DOMAIN Select \cap DOMAIN static.text = {}
  BY <1>6, <1>15 DEF Start
<1>19. overrides \cap DOMAIN Switch = {} /\ overrides \cap DOMAIN Select = {}
  BY <1>5, <1>6, <1>15 DEF Start, ModesApart
<1>20. \A x \in {"switch", "select"} :
         added(x) \cap (DOMAIN Switch \cup DOMAIN Select \cup DOMAIN static.text \cup overrides) = {}
  BY <1>1, <1>4, <1>10 DEF Platforms
<1>21. \A x, y \in {"switch", "select", "text"} : x # y => DOMAIN left[x] \cap DOMAIN left[y] = {}
  BY <1>11, <1>14, <1>16, <1>17, <1>18, <1>20
<1>22. \A x \in {"switch", "select", "text"} : DOMAIN left[x] \cap overrides = {}
  BY <1>14, <1>19, <1>20 DEF Start
<1>23. \A x \in {"switch", "select", "text"} : \A r \in DOMAIN left[x] : left[x][r] \in {r, ModeRegister}
  <2>1. \A x \in {"switch", "select", "text"} : \A r \in DOMAIN maps[x] : maps[x][r] \in {r, ModeRegister}
    BY <1>1, <1>7, <1>8 DEF Start
  <2> QED
    BY <1>13, <2>1 DEF Platforms
<1>24. Start(defs, left, overrides)
  BY <1>12, <1>14, <1>21, <1>22, <1>23 DEF Start
<1>25. modes \cap DOMAIN left.select = {}
  BY <1>3, <1>5, <1>6, <1>14, <1>20 DEF ModesApart, Names
<1> QED
  BY <1>14, <1>24, <1>25 DEF ModesApart

-----------------------------------------------------------------------------
(* Commands and displays agree                                             *)

\* What the steps of a job have written.
Wrote(job, words) ==
  words = UNION {{s.words[i] : i \in 1..Len(s.words)} : s \in {job.steps[k] : k \in 1..Len(job.steps)}}

LEMMA WroteOne == ASSUME NEW job, NEW r, NEW v, job.steps = <<One(r, v)>> PROVE Wrote(job, {Word(r, v)})
<1>1. Len(<<One(r, v)>>) = 1 /\ <<One(r, v)>>[1] = One(r, v)
  OBVIOUS
<1>2. One(r, v).words = <<Word(r, v)>> /\ Len(<<Word(r, v)>>) = 1 /\ <<Word(r, v)>>[1] = Word(r, v)
  BY DEF One
<1>3. {One(r, v).words[i] : i \in 1 .. Len(One(r, v).words)} = {Word(r, v)}
  BY <1>2
<1>4. {job.steps[k] : k \in 1 .. Len(job.steps)} = {One(r, v)}
  BY <1>1
<1> QED
  BY <1>3, <1>4 DEF Wrote

LEMMA WroteTwo ==
  ASSUME NEW job, NEW r, NEW v, NEW q, NEW u, job.steps = <<One(r, v), One(q, u)>>
  PROVE  Wrote(job, {Word(r, v), Word(q, u)})
<1> DEFINE s == <<One(r, v), One(q, u)>>
<1>1. Len(s) = 2 /\ s[1] = One(r, v) /\ s[2] = One(q, u)
  OBVIOUS
<1>2. \A x, y : {One(x, y).words[i] : i \in 1 .. Len(One(x, y).words)} = {Word(x, y)}
  <2> TAKE x, y
  <2>1. One(x, y).words = <<Word(x, y)>> /\ Len(<<Word(x, y)>>) = 1 /\ <<Word(x, y)>>[1] = Word(x, y)
    BY DEF One
  <2> QED
    BY <2>1
<1>3. {job.steps[k] : k \in 1 .. Len(job.steps)} = {One(r, v), One(q, u)}
  BY <1>1
<1>4. UNION {{t.words[i] : i \in 1 .. Len(t.words)} : t \in {One(r, v), One(q, u)}} = {Word(r, v), Word(q, u)}
  <2> DEFINE words(t) == {t.words[i] : i \in 1 .. Len(t.words)}
  <2>1. words(One(r, v)) = {Word(r, v)} /\ words(One(q, u)) = {Word(q, u)}
    BY <1>2
  <2> HIDE DEF words
  <2>2. UNION {words(t) : t \in {One(r, v), One(q, u)}} = {Word(r, v), Word(q, u)}
    BY <2>1
  <2> QED
    BY <2>2 DEF words
<1> QED
  BY <1>3, <1>4 DEF Wrote

LEMMA AppliedOne ==
  ASSUME NEW job, NEW d, NEW r, NEW v, job.steps = <<One(r, v)>>
  PROVE  Applied(job, d) = [x \in DOMAIN d |-> IF x = r THEN v ELSE d[x]]
<1>1. Wrote(job, {Word(r, v)})
  BY WroteOne
<1>2. \A x : (\E w \in {Word(r, v)} : w.reg = x) <=> x = r
  BY DEF Word
<1>3. (CHOOSE w \in {Word(r, v)} : w.reg = r).val = v
  <2>1. (CHOOSE w \in {Word(r, v)} : w.reg = r) = Word(r, v)
    BY <1>2
  <2> QED
    BY <2>1 DEF Word
<1> QED
  BY <1>1, <1>2, <1>3 DEF Applied, Wrote

LEMMA AppliedTwo ==
  ASSUME NEW job, NEW d, NEW r, NEW v, NEW q, NEW u, job.steps = <<One(r, v), One(q, u)>>, r # q
  PROVE  Applied(job, d) = [x \in DOMAIN d |-> IF x = r THEN v ELSE IF x = q THEN u ELSE d[x]]
<1> DEFINE words == {Word(r, v), Word(q, u)}
<1>1. Wrote(job, words)
  BY WroteTwo
<1>2. \A x : (\E w \in words : w.reg = x) <=> x = r \/ x = q
  BY DEF Word
<1>3. /\ Word(r, v).reg = r /\ Word(r, v).val = v
      /\ Word(q, u).reg = q /\ Word(q, u).val = u
  BY DEF Word
<1>4. (CHOOSE w \in words : w.reg = r).val = v /\ (CHOOSE w \in words : w.reg = q).val = u
  BY <1>3
<1> HIDE DEF words
<1>5. Applied(job, d) = [x \in DOMAIN d |-> IF \E w \in words : w.reg = x
                                            THEN (CHOOSE w \in words : w.reg = x).val ELSE d[x]]
  BY <1>1 DEF Applied, Wrote
<1>6. \A x : (IF \E w \in words : w.reg = x THEN (CHOOSE w \in words : w.reg = x).val ELSE d[x])
             = IF x = r THEN v ELSE IF x = q THEN u ELSE d[x]
  BY <1>2, <1>4
<1> QED
  BY <1>5, <1>6

-----------------------------------------------------------------------------
\* The registers that the displays are taken from.
Sources == {"on_off_panel_mode", "mode", "special_mode", "air_flow_rate_manual", "required_temperature"}
Keys == {"percentage", "hvac_mode", "fan_mode", "preset_mode", "target_temperature"} \cup DOMAIN Special

\* The commands whose value is confirmed by their own writes: the speed in steps
\* of ten, the temperature outside the temporary mode.
Confirmable(cmd, d) ==
  \/ cmd.do = "set" /\ cmd.reg \in DOMAIN d \ Keys
  \/ cmd.do = "switch" /\ cmd.mode \in DOMAIN Special /\ cmd.on \in BOOLEAN
  \/ cmd.do = "hvac" /\ cmd.mode \in {"off", "auto", "fan_only"}
  \/ cmd.do = "climate_on"
  \/ cmd.do = "preset" /\ cmd.mode \in DOMAIN Special \cup {"none"}
  \/ cmd.do = "fan_mode" /\ cmd.pct \in Nat \ {0} /\ cmd.pct % 10 = 0
  \/ /\ cmd.do = "temperature" /\ cmd.temp \in Nat /\ d["mode"] # Temporary
     /\ "comfort_temperature" \in DOMAIN d => Writable("comfort_temperature")

LEMMA ValApplied ==
  ASSUME NEW S, NEW d \in [S -> Nat], NEW r \in S, NEW v, NEW e, e = [x \in DOMAIN d |-> IF x = r THEN v ELSE d[x]]
  PROVE  DOMAIN e = S /\ Val(e, r) = v /\ \A x : x # r => Val(e, x) = Val(d, x)
BY DEF Val

LEMMA SpecialValues ==
  /\ \A m, n \in DOMAIN Special : Special[m] = Special[n] => m = n
  /\ \A m \in DOMAIN Special : Special[m] \in Nat \ {0}
BY DEF Special

LEMMA PresetIs ==
  ASSUME NEW e, NEW m \in DOMAIN Special \cup {"none"}, Val(e, "special_mode") = SpecialOf(m)
  PROVE  Preset(e) = m
<1> DEFINE named == {n \in DOMAIN Special : Special[n] = Val(e, "special_mode")}
<1>1. CASE m \in DOMAIN Special
  <2>1. SpecialOf(m) = Special[m]
    BY <1>1 DEF SpecialOf
  <2>2. named = {m}
    BY <1>1, <2>1, SpecialValues
  <2> QED
    BY <2>2 DEF Preset
<1>2. CASE m \notin DOMAIN Special
  <2>1. SpecialOf(m) = 0 /\ m = "none"
    BY <1>2 DEF SpecialOf
  <2>2. named = {}
    BY <2>1, SpecialValues
  <2> QED
    BY <2>1, <2>2 DEF Preset
<1> QED
  BY <1>1, <1>2

Agrees(job, d) == job.record # "never" => Display(job.key, Applied(job, d)) = job.val

LEMMA Displayed ==
  ASSUME NEW e
  PROVE  /\ Display("hvac_mode", e) = IF Val(e, "on_off_panel_mode") = 0 THEN "off" ELSE HvacOf(Val(e, "mode"))
         /\ Display("preset_mode", e) = Preset(e)
         /\ Display("fan_mode", e) = FanModeShown(e)
         /\ Display("target_temperature", e) =
              FirstOf(e, <<"comfort_temperature", "required_temperature", "required_temp">>)
<1>1. {"hvac_mode", "preset_mode", "fan_mode", "target_temperature"} \cap DOMAIN Special = {}
  BY DEF Special
<1> QED
  BY <1>1 DEF Display

LEMMA SetAgrees ==
  ASSUME NEW S, NEW d \in [S -> Nat], NEW r \in S \ Keys, NEW v
  PROVE  Agrees(SetRegister(r, v, r), d)
<1> DEFINE job == SetRegister(r, v, r)
<1>1. job.steps = <<One(r, v)>> /\ job.key = r /\ job.val = v
  BY DEF SetRegister, Job
<1> DEFINE e == Applied(job, d)
<1> HIDE DEF job
<1>2. e = [x \in DOMAIN d |-> IF x = r THEN v ELSE d[x]]
  BY <1>1, AppliedOne
<1>3. Val(e, r) = v
  BY <1>2, ValApplied
<1> HIDE DEF e
<1>4. Display(r, e) = Val(e, r)
  BY DEF Display, Keys
<1> QED
  BY <1>1, <1>3, <1>4 DEF Agrees, e, job

LEMMA SwitchAgrees ==
  ASSUME NEW S, NEW d \in [S -> Nat], "special_mode" \in S, None \notin Nat,
         NEW m \in DOMAIN Special, NEW on \in BOOLEAN
  PROVE  Agrees(SwitchSpecial(m, on), d)
<1> DEFINE job == SwitchSpecial(m, on)
           v == IF on THEN Special[m] ELSE 0
           e == Applied(job, d)
<1>1. job.steps = <<One("special_mode", v)>> /\ job.key = m /\ job.val = on
  BY DEF SwitchSpecial, SetRegister, Job
<1>3. v \in Nat /\ (v = Special[m]) = on
  BY SpecialValues
<1> HIDE DEF job, v
<1>2. Val(e, "special_mode") = v /\ DOMAIN e = S
  <2>1. e = [x \in DOMAIN d |-> IF x = "special_mode" THEN v ELSE d[x]]
    BY <1>1, AppliedOne
  <2> QED
    BY <2>1, ValApplied, SMTT(30)
<1> HIDE DEF e
<1>4. e["special_mode"] = v /\ v # None
  BY <1>2, <1>3 DEF Val
<1>5. m \notin {"percentage", "hvac_mode", "fan_mode", "preset_mode", "target_temperature"}
  BY DEF Special
<1>6. Display(m, e) = (e["special_mode"] = Special[m])
  BY <1>2, <1>4, <1>5 DEF Display
<1> QED
  BY <1>1, <1>3, <1>4, <1>6 DEF Agrees, job, e

LEMMA HvacAgrees ==
  ASSUME NEW S, NEW d \in [S -> Nat], {"on_off_panel_mode", "mode"} \subseteq S,
         NEW m \in {"off", "auto", "fan_only"}
  PROVE  Agrees(SetHvac(m), d)
<1> DEFINE job == SetHvac(m)
           e == Applied(job, d)
<1>1. job.key = "hvac_mode" /\ job.val = m
  BY DEF SetHvac, Shows, Job
<1>2. Display("hvac_mode", e) = IF Val(e, "on_off_panel_mode") = 0 THEN "off" ELSE HvacOf(Val(e, "mode"))
  BY Displayed
<1>3. CASE m = "off"
  <2>1. job.steps = <<One("on_off_panel_mode", 0)>>
    BY <1>3 DEF SetHvac, Shows, Job, Power
  <2>2. Val(e, "on_off_panel_mode") = 0
    BY <2>1, AppliedOne, ValApplied
  <2> QED
    BY <1>1, <1>2, <1>3, <2>2 DEF Agrees
<1>4. CASE m # "off"
  <2>1. job.steps = <<One("on_off_panel_mode", 1), One("mode", HvacModes[m])>>
    BY <1>4 DEF SetHvac, Shows, Job, Power
  <2>2. e = [x \in DOMAIN d |-> IF x = "on_off_panel_mode" THEN 1 ELSE IF x = "mode" THEN HvacModes[m] ELSE d[x]]
    BY <2>1, AppliedTwo
  <2>3. Val(e, "on_off_panel_mode") = 1 /\ Val(e, "mode") = HvacModes[m]
    BY <2>2 DEF Val
  <2>4. HvacOf(HvacModes[m]) = m
    BY <1>4 DEF HvacOf, HvacModes, Manual, Temporary, Automatic
  <2> QED
    BY <1>1, <1>2, <2>3, <2>4 DEF Agrees
<1> QED
  BY <1>3, <1>4

LEMMA ClimateOnAgrees ==
  ASSUME NEW S, NEW d \in [S -> Nat], "on_off_panel_mode" \in S
  PROVE  Agrees(ClimateOn(d), d)
<1> DEFINE job == ClimateOn(d)
           e == Applied(job, d)
<1>1. job.key = "hvac_mode" /\ job.val = HvacOf(Val(d, "mode")) /\ job.steps = <<One("on_off_panel_mode", 1)>>
  BY DEF ClimateOn, Shows, Job, Power
<1> HIDE DEF job
<1>2. Val(e, "on_off_panel_mode") = 1 /\ Val(e, "mode") = Val(d, "mode")
  <2>1. e = [x \in DOMAIN d |-> IF x = "on_off_panel_mode" THEN 1 ELSE d[x]]
    BY <1>1, AppliedOne
  <2> QED
    BY <2>1, ValApplied
<1> HIDE DEF e
<1>3. Display("hvac_mode", e) = IF Val(e, "on_off_panel_mode") = 0 THEN "off" ELSE HvacOf(Val(e, "mode"))
  BY Displayed
<1> QED
  BY <1>1, <1>2, <1>3 DEF Agrees, e, job

LEMMA PresetAgrees ==
  ASSUME NEW S, NEW d \in [S -> Nat], {"on_off_panel_mode", "special_mode"} \subseteq S,
         NEW m \in DOMAIN Special \cup {"none"}
  PROVE  Agrees(SetPreset(m), d)
<1> DEFINE job == SetPreset(m)
           e == Applied(job, d)
<1>1. /\ job.key = "preset_mode" /\ job.val = m
      /\ job.steps = <<One("on_off_panel_mode", 1), One("special_mode", SpecialOf(m))>>
  BY DEF SetPreset, Shows, Job, Power
<1>2. e = [x \in DOMAIN d |-> IF x = "on_off_panel_mode" THEN 1
                             ELSE IF x = "special_mode" THEN SpecialOf(m) ELSE d[x]]
  BY <1>1, AppliedTwo
<1>3. Val(e, "special_mode") = SpecialOf(m)
  BY <1>2 DEF Val
<1>4. Display("preset_mode", e) = Preset(e)
  BY Displayed
<1> QED
  BY <1>1, <1>3, <1>4, PresetIs DEF Agrees

\* A display that no step touches shows what it showed.
LEMMA SameLimits ==
  ASSUME NEW S, NEW d \in [S -> Nat], NEW r, r \notin {"min_percentage", "max_percentage"}, NEW v,
         NEW e, e = [x \in DOMAIN d |-> IF x = r THEN v ELSE d[x]], NEW p
  PROVE  Clamped(p, e) = Clamped(p, d)
<1>1. \A x \in {"min_percentage", "max_percentage"} : Val(e, x) = Val(d, x)
  BY DEF Val
<1>2. \A x \in {"min_percentage", "max_percentage"} : x \in DOMAIN d => e[x] = d[x]
  OBVIOUS
<1>3. None = None /\ \A x \in {"min_percentage", "max_percentage"} : x \notin DOMAIN d => Val(d, x) = None
  BY DEF Val
<1>4. Low(e) = Low(d)
  BY <1>1, <1>2, <1>3 DEF Low
<1>5. High(e) = High(d)
  BY <1>1, <1>2, <1>3, <1>4 DEF High
<1> QED
  BY <1>4, <1>5 DEF Clamped

LEMMA FanModeAgrees ==
  ASSUME NEW S, NEW d \in [S -> Nat], "air_flow_rate_manual" \in S, None \notin Nat,
         NEW p \in Nat \ {0}, p % 10 = 0
  PROVE  Agrees(SetFanMode(p, d), d)
<1> DEFINE job == SetFanMode(p, d)
           e == Applied(job, d)
<1>1. CASE Clamped(p, d) # p
  BY <1>1 DEF SetFanMode, Refused, Job, Agrees
<1>2. CASE Clamped(p, d) = p
  <2>1. job.key = "fan_mode" /\ job.val = p /\ job.steps = <<One("air_flow_rate_manual", p)>>
    BY <1>2 DEF SetFanMode, Shows, Job
  <2>2. e = [x \in DOMAIN d |-> IF x = "air_flow_rate_manual" THEN p ELSE d[x]]
    BY <2>1, AppliedOne
  <2>3. Val(e, "air_flow_rate_manual") = p /\ e["air_flow_rate_manual"] = p
    BY <2>2 DEF Val
  <2>4. ((p + 5) \div 10) * 10 = p
    OBVIOUS
  <2>5. Clamped(p, e) = p
    BY <1>2, <2>2, SameLimits
  <2>6. FanModeShown(e) = p
    BY <2>3, <2>4, <2>5 DEF FanModeShown
  <2> QED
    BY <2>1, <2>6, Displayed DEF Agrees
<1> QED
  BY <1>1, <1>2

LEMMA Pairs == ASSUME NEW x, NEW y PROVE <<x>> \o <<y>> = <<x, y>>
<1>1. <<x>> \in Seq({x, y}) /\ <<y>> \in Seq({x, y}) /\ <<x, y>> \in Seq({x, y})
  OBVIOUS
<1>2. /\ Len(<<x>>) = 1 /\ <<x>>[1] = x /\ Len(<<y>>) = 1 /\ <<y>>[1] = y
      /\ Len(<<x, y>>) = 2 /\ <<x, y>>[1] = x /\ <<x, y>>[2] = y
  OBVIOUS
<1> DEFINE both == <<x>> \o <<y>>
<1>3. both \in Seq({x, y}) /\ Len(both) = 2 /\ both[1] = x /\ both[2] = y
  BY <1>1, <1>2, ConcatProperties
<1> HIDE DEF both
<1>4. \A i \in 1 .. Len(both) : both[i] = <<x, y>>[i]
  BY <1>2, <1>3
<1>5. both = <<x, y>>
  BY <1>1, <1>2, <1>3, <1>4, SeqEqual
<1> QED
  BY <1>5 DEF both

LEMMA First ==
  ASSUME NEW e, NEW a, NEW b, NEW c
  PROVE  /\ Val(e, a) # None => FirstOf(e, <<a, b, c>>) = e[a]
         /\ Val(e, a) = None /\ Val(e, b) # None => FirstOf(e, <<a, b, c>>) = e[b]
<1> DEFINE s == <<a, b, c>>
           have == {i \in 1..Len(s) : Val(e, s[i]) # None}
<1>1. Len(s) = 3 /\ s[1] = a /\ s[2] = b /\ s[3] = c
  OBVIOUS
<1> HIDE DEF s
<1>2. ASSUME Val(e, a) # None PROVE FirstOf(e, s) = e[a]
  <2>1. 1 \in have /\ \A i \in have : i >= 1
    BY <1>1, <1>2
  <2>2. (CHOOSE i \in have : \A j \in have : i <= j) = 1
    <3>1. \A i \in have : (\A j \in have : i <= j) => i = 1
      BY <2>1
    <3>2. \E i \in have : \A j \in have : i <= j
      BY <2>1
    <3> QED
      BY <3>1, <3>2
  <2> QED
    BY <1>1, <2>1, <2>2 DEF FirstOf
<1>3. ASSUME Val(e, a) = None, Val(e, b) # None PROVE FirstOf(e, s) = e[b]
  <2>1. 2 \in have /\ \A i \in have : i >= 2
    BY <1>1, <1>3
  <2>2. (CHOOSE i \in have : \A j \in have : i <= j) = 2
    <3>1. \A i \in have : (\A j \in have : i <= j) => i = 2
      BY <2>1
    <3>2. \E i \in have : \A j \in have : i <= j
      BY <2>1
    <3> QED
      BY <3>1, <3>2
  <2> QED
    BY <1>1, <2>1, <2>2 DEF FirstOf
<1> QED
  BY <1>2, <1>3 DEF s

LEMMA TemperatureAgrees ==
  ASSUME NEW S, NEW d \in [S -> Nat], {"mode", "required_temperature"} \subseteq S, None \notin Nat,
         NEW t \in Nat, d["mode"] # Temporary,
         "comfort_temperature" \in S => Writable("comfort_temperature")
  PROVE  Agrees(SetTemperature(t, d), d)
<1> DEFINE job == SetTemperature(t, d)
           e == Applied(job, d)
           shown == FirstOf(e, <<"comfort_temperature", "required_temperature", "required_temp">>)
<1>1. job.key = "target_temperature" /\ job.val = t /\ t # None
  BY DEF SetTemperature, Shows, Job
<1>2. Val(d, "mode") # Temporary
  BY DEF Val
<1>3. CASE Writable("comfort_temperature")
  <2>1. <<One("comfort_temperature", t)>> \o <<One("required_temperature", t)>>
        = <<One("comfort_temperature", t), One("required_temperature", t)>>
    BY Pairs
  <2>2. job.steps = <<One("comfort_temperature", t), One("required_temperature", t)>>
    BY <1>2, <1>3, <2>1 DEF SetTemperature, Shows, Job
  <2>3. e = [x \in DOMAIN d |-> IF x = "comfort_temperature" THEN t
                               ELSE IF x = "required_temperature" THEN t ELSE d[x]]
    BY <2>2, AppliedTwo
  <2>4. /\ "comfort_temperature" \in S => Val(e, "comfort_temperature") = t /\ e["comfort_temperature"] = t
        /\ "comfort_temperature" \notin S => Val(e, "comfort_temperature") = None
        /\ Val(e, "required_temperature") = t /\ e["required_temperature"] = t
    BY <2>3 DEF Val
  <2> HIDE DEF job, e
  <2>5. shown = t
    BY <1>1, <2>4, First
  <2> QED
    BY <1>1, <2>5, Displayed DEF Agrees, job, e
<1>4. CASE ~Writable("comfort_temperature")
  <2>1. <<>> \o <<One("required_temperature", t)>> = <<One("required_temperature", t)>>
    OBVIOUS
  <2>2. job.steps = <<One("required_temperature", t)>>
    BY <1>2, <1>4, <2>1 DEF SetTemperature, Shows, Job
  <2>3. e = [x \in DOMAIN d |-> IF x = "required_temperature" THEN t ELSE d[x]]
    BY <2>2, AppliedOne
  <2>4. /\ Val(e, "comfort_temperature") = None
        /\ Val(e, "required_temperature") = t /\ e["required_temperature"] = t
    BY <1>4, <2>3 DEF Val
  <2> HIDE DEF job, e
  <2>5. shown = t
    BY <1>1, <2>4, First
  <2> QED
    BY <1>1, <2>5, Displayed DEF Agrees, job, e
<1> QED
  BY <1>3, <1>4

\* What an entity shows in advance is what it shows once the words of its command
\* are in the registers, so that the next refresh confirms it (set_pending and
\* clear_if_confirmed against the writes of fan.py, climate.py and switch.py).
THEOREM ShownIsConfirmed ==
  ASSUME NEW S, NEW d \in [S -> Nat], Sources \subseteq S, None \notin Nat,
         NEW cmd, Confirmable(cmd, d)
  PROVE  Agrees(JobOf(cmd, d), d)
<1>1. /\ DOMAIN d = S
      /\ {"on_off_panel_mode", "mode", "special_mode", "air_flow_rate_manual", "required_temperature"} \subseteq S
  BY DEF Sources
<1>2. CASE cmd.do = "set" /\ cmd.reg \in DOMAIN d \ Keys
  <2>1. JobOf(cmd, d) = SetRegister(cmd.reg, cmd.val, cmd.reg)
    BY <1>2 DEF JobOf
  <2> QED
    BY <1>1, <1>2, <2>1, SetAgrees
<1>3. CASE cmd.do = "switch" /\ cmd.mode \in DOMAIN Special /\ cmd.on \in BOOLEAN
  <2>1. JobOf(cmd, d) = SwitchSpecial(cmd.mode, cmd.on)
    BY <1>3 DEF JobOf
  <2> QED
    BY <1>1, <1>3, <2>1, SwitchAgrees
<1>4. CASE cmd.do = "hvac" /\ cmd.mode \in {"off", "auto", "fan_only"}
  <2>1. JobOf(cmd, d) = SetHvac(cmd.mode)
    BY <1>4 DEF JobOf
  <2> QED
    BY <1>1, <1>4, <2>1, HvacAgrees
<1>5. CASE cmd.do = "climate_on"
  <2>1. JobOf(cmd, d) = ClimateOn(d)
    BY <1>5 DEF JobOf
  <2> QED
    BY <1>1, <2>1, ClimateOnAgrees
<1>6. CASE cmd.do = "preset" /\ cmd.mode \in DOMAIN Special \cup {"none"}
  <2>1. JobOf(cmd, d) = SetPreset(cmd.mode)
    BY <1>6 DEF JobOf
  <2> QED
    BY <1>1, <1>6, <2>1, PresetAgrees
<1>7. CASE cmd.do = "fan_mode" /\ cmd.pct \in Nat \ {0} /\ cmd.pct % 10 = 0
  <2>1. JobOf(cmd, d) = SetFanMode(cmd.pct, d)
    BY <1>7 DEF JobOf
  <2> QED
    BY <1>1, <1>7, <2>1, FanModeAgrees
<1>8. CASE /\ cmd.do = "temperature" /\ cmd.temp \in Nat /\ d["mode"] # Temporary
           /\ "comfort_temperature" \in DOMAIN d => Writable("comfort_temperature")
  <2>1. JobOf(cmd, d) = SetTemperature(cmd.temp, d)
    BY <1>8 DEF JobOf
  <2> QED
    BY <1>1, <1>8, <2>1, TemperatureAgrees
<1> QED
  BY <1>2, <1>3, <1>4, <1>5, <1>6, <1>7, <1>8 DEF Confirmable

\* What the block of the temporary temperature writes.
TemporaryRegisters == {"cfg_mode_2", "supply_air_temperature_temporary_4404", "temperature_change_flag"}

\* In the temporary mode it is not: the temperature goes to registers that the
\* display does not look at, so that the optimistic value is confirmed only by
\* chance (async_write_temporary_temperature against target_temperature).
THEOREM TemporaryIsNotShown ==
  ASSUME NEW S, NEW d \in [S -> Nat], "mode" \in S, d["mode"] = Temporary, NEW t \in Nat
  PROVE  LET job == JobOf([do |-> "temperature", temp |-> t], d)
         IN  Display(job.key, Applied(job, d)) = Display(job.key, d)
<1> DEFINE job == JobOf([do |-> "temperature", temp |-> t], d)
           e == Applied(job, d)
           shown == <<"comfort_temperature", "required_temperature", "required_temp">>
<1>1. /\ job.key = "target_temperature"
      /\ job.steps = <<TemporaryTemperature(t)>>
  BY DEF JobOf, SetTemperature, Shows, Job, Val
<1> HIDE DEF job
<1>2. {job.steps[k] : k \in 1..Len(job.steps)} = {TemporaryTemperature(t)}
  <2>1. Len(job.steps) = 1 /\ job.steps[1] = TemporaryTemperature(t)
    BY <1>1
  <2> QED
    BY <2>1
<1>3. \A i \in 1..Len(TemporaryTemperature(t).words) :
        TemporaryTemperature(t).words[i].reg \in TemporaryRegisters
  BY DEF TemporaryTemperature, Block, Word, TemporaryRegisters
<1>4. DOMAIN e = DOMAIN d /\ \A r \in DOMAIN d \ TemporaryRegisters : e[r] = d[r]
  <2> DEFINE st == TemporaryTemperature(t)
             words == UNION {{s.words[i] : i \in 1..Len(s.words)} : s \in {job.steps[k] : k \in 1..Len(job.steps)}}
  <2> HIDE DEF st
  <2>1. words = {st.words[i] : i \in 1..Len(st.words)}
    <3>1. {job.steps[k] : k \in 1..Len(job.steps)} = {st}
      BY <1>2 DEF st
    <3> DEFINE of(s) == {s.words[i] : i \in 1..Len(s.words)}
    <3> HIDE DEF of
    <3>2. UNION {of(s) : s \in {job.steps[k] : k \in 1..Len(job.steps)}} = of(st)
      BY <3>1
    <3> QED
      BY <3>2 DEF of
  <2>2. \A w \in words : w.reg \in TemporaryRegisters
    BY <1>3, <2>1 DEF st
  <2>3. e = [r \in DOMAIN d |-> IF \E w \in words : w.reg = r THEN (CHOOSE w \in words : w.reg = r).val ELSE d[r]]
    BY DEF Applied
  <2> HIDE DEF words, e
  <2> QED
    BY <2>2, <2>3
<1> HIDE DEF e
<1>5. \A i \in 1..Len(shown) : shown[i] \notin TemporaryRegisters
  BY DEF TemporaryRegisters
<1> HIDE DEF shown
<1>6. \A i \in 1..Len(shown) : Val(e, shown[i]) = Val(d, shown[i])
  BY <1>4, <1>5 DEF Val
<1>7. \A i \in 1..Len(shown) : Val(d, shown[i]) # None => e[shown[i]] = d[shown[i]]
  BY <1>4, <1>5 DEF Val
<1> DEFINE have == {i \in 1..Len(shown) : Val(d, shown[i]) # None}
           least == CHOOSE i \in have : \A j \in have : i <= j
<1>8. have # {} => least \in have
  <2>1. have \subseteq 1..3
    BY DEF shown
  <2> HIDE DEF have
  <2>2. have # {} => \E i \in have : \A j \in have : i <= j
    <3>1. CASE 1 \in have
      BY <2>1, <3>1
    <3>2. CASE 1 \notin have /\ 2 \in have
      BY <2>1, <3>2
    <3>3. CASE 1 \notin have /\ 2 \notin have /\ 3 \in have
      BY <2>1, <3>3
    <3>4. CASE 1 \notin have /\ 2 \notin have /\ 3 \notin have
      <4>1. \A i \in 1..3 : i \notin have
        BY <3>4
      <4>2. have = {}
        BY <2>1, <4>1
      <4> QED
        BY <4>2
    <3> QED
      BY <3>1, <3>2, <3>3, <3>4
  <2> QED
    BY <2>2
<1>9. FirstOf(e, shown) = FirstOf(d, shown)
  <2>1. {i \in 1..Len(shown) : Val(e, shown[i]) # None} = have
    BY <1>6
  <2>2. have # {} => e[shown[least]] = d[shown[least]]
    BY <1>7, <1>8
  <2> QED
    BY <2>1, <2>2 DEF FirstOf
<1> QED
  BY <1>1, <1>9, Displayed DEF job, e, shown
=============================================================================
