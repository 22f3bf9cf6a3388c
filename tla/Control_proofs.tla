--------------------------- MODULE Control_proofs ---------------------------
(***************************************************************************)
(* Proofs about Control: every step of a job is written in order, success  *)
(* and optimistic values are earned, blocks are whole.                     *)
(***************************************************************************)
EXTENDS Control, SequenceTheorems, TLAPS

(***************************************************************************)
(* Sequences of anything.                                                  *)
(***************************************************************************)
IsSeq(s) == \E S : s \in Seq(S)

LEMMA SeqLen == ASSUME NEW s, IsSeq(s) PROVE Len(s) \in Nat /\ DOMAIN s = 1 .. Len(s)
BY DEF IsSeq

LEMMA SeqConcat ==
  ASSUME NEW s, NEW t, IsSeq(s), IsSeq(t)
  PROVE  /\ IsSeq(s \o t)
         /\ Len(s \o t) = Len(s) + Len(t)
         /\ \A i \in 1 .. Len(s) : (s \o t)[i] = s[i]
         /\ \A i \in 1 .. Len(t) : (s \o t)[Len(s) + i] = t[i]
<1>1. PICK S : s \in Seq(S)
  BY DEF IsSeq
<1>2. PICK T : t \in Seq(T)
  BY DEF IsSeq
<1>3. s \in Seq(S \cup T) /\ t \in Seq(S \cup T)
  <2>1. \A i \in 1 .. Len(s) : s[i] \in S \cup T
    BY <1>1
  <2>2. \A i \in 1 .. Len(t) : t[i] \in S \cup T
    BY <1>2
  <2> QED
    BY <1>1, <1>2, <2>1, <2>2
<1>4. s \o t \in Seq(S \cup T)
  BY <1>3
<1> QED
  BY <1>3, <1>4 DEF IsSeq

LEMMA Empty == IsSeq(<<>>) /\ Len(<<>>) = 0
BY DEF IsSeq
LEMMA Single == ASSUME NEW x PROVE IsSeq(<<x>>) /\ Len(<<x>>) = 1 /\ <<x>>[1] = x
<1>1. <<x>> \in Seq({x})
  OBVIOUS
<1> QED
  BY <1>1 DEF IsSeq
LEMMA Double ==
  ASSUME NEW x, NEW y
  PROVE  IsSeq(<<x, y>>) /\ Len(<<x, y>>) = 2 /\ <<x, y>>[1] = x /\ <<x, y>>[2] = y
<1>1. <<x, y>> \in Seq({x, y})
  OBVIOUS
<1> QED
  BY <1>1 DEF IsSeq
LEMMA Triple ==
  ASSUME NEW x, NEW y, NEW z
  PROVE  /\ IsSeq(<<x, y, z>>) /\ Len(<<x, y, z>>) = 3
         /\ <<x, y, z>>[1] = x /\ <<x, y, z>>[2] = y /\ <<x, y, z>>[3] = z
<1>1. <<x, y, z>> \in Seq({x, y, z})
  OBVIOUS
<1> QED
  BY <1>1 DEF IsSeq
LEMMA Quadruple ==
  ASSUME NEW x, NEW y, NEW z, NEW u
  PROVE  /\ IsSeq(<<x, y, z, u>>) /\ Len(<<x, y, z, u>>) = 4
         /\ <<x, y, z, u>>[1] = x /\ <<x, y, z, u>>[2] = y /\ <<x, y, z, u>>[3] = z /\ <<x, y, z, u>>[4] = u
<1>1. <<x, y, z, u>> \in Seq({x, y, z, u})
  OBVIOUS
<1> QED
  BY <1>1 DEF IsSeq
LEMMA Function ==
  ASSUME NEW n \in Nat, NEW S, NEW f \in [1 .. n -> S]
  PROVE  IsSeq(f) /\ Len(f) = n
<1>1. f \in Seq(S) /\ Len(f) = n
  OBVIOUS
<1> QED
  BY <1>1 DEF IsSeq

-----------------------------------------------------------------------------
(***************************************************************************)
(* Jobs are well formed: whatever a command asks for, every step has words, *)
(* and a step sets either no register of a block or all of them at once.   *)
(***************************************************************************)
Data == [Regs -> 0..WordMax]

Spares(st, b) == \A i \in 1 .. Len(st.words) : st.words[i].reg \notin b
Fills(st, b) ==
  /\ st.single
  /\ \A r \in b : \E i \in 1 .. Len(st.words) : st.words[i].reg = r
  /\ \A i \in 1 .. Len(st.words) : st.words[i].val # 0
GoodStep(st) ==
  /\ IsSeq(st.words) /\ Len(st.words) > 0
  /\ \A b \in Blocks : Spares(st, b) \/ Fills(st, b)
GoodSteps(s) == IsSeq(s) /\ \A k \in 1 .. Len(s) : GoodStep(s[k])

JobsOf(V) ==
  [steps : V, back : BOOLEAN, clock : BOOLEAN, refresh : BOOLEAN, record : {"never", "before", "after"},
   key : V, val : V, zero : V, forget : V, then : V]
IsJob(j) == \E V : j \in JobsOf(V)
FanFollows(cmd) == \E p \in Nat : cmd = [do |-> "fan_speed", pct |-> p]
GoodJob(j) ==
  /\ IsJob(j) /\ GoodSteps(j.steps)
  /\ j.back \/ j.clock => Len(j.steps) = 1
  /\ j.then # None => FanFollows(j.then)

\* What the fan's job is: nothing is read back and nothing follows.
Plain(j) == j.then = None /\ ~j.back /\ ~j.clock

LEMMA JobIs ==
  ASSUME NEW s
  PROVE  /\ IsJob(Job(s)) /\ Job(s).steps = s /\ Job(s).then = None
         /\ ~Job(s).back /\ ~Job(s).clock
<1>1. Job(s) \in JobsOf({s, None})
  BY DEF Job, JobsOf
<1> QED
  BY <1>1 DEF Job, IsJob

LEMMA JobGood == ASSUME NEW s, GoodSteps(s) PROVE GoodJob(Job(s))
BY JobIs DEF GoodJob

LEMMA RefusedGood == GoodJob(Refused) /\ Plain(Refused)
BY Empty, JobGood, JobIs DEF GoodSteps, Refused, Plain

\* What is shown and when is beside the point.
LEMMA ShowsGood ==
  ASSUME NEW j, GoodJob(j), NEW key, NEW val
  PROVE  GoodJob(Shows(j, key, val)) /\ (Plain(j) => Plain(Shows(j, key, val)))
<1>1. PICK V : j \in JobsOf(V)
  BY DEF GoodJob, IsJob
<1> DEFINE W == V \cup {key, val}
           n == Shows(j, key, val)
<1>2. j \in JobsOf(W)
  BY <1>1 DEF JobsOf
<1>3. n \in JobsOf(W)
  BY <1>2 DEF Shows, JobsOf
<1>4. n.steps = j.steps /\ n.then = j.then /\ n.back = j.back /\ n.clock = j.clock
  BY <1>2 DEF Shows, JobsOf
<1> QED
  BY <1>3, <1>4 DEF GoodJob, IsJob, Plain

LEMMA NothingGood == GoodSteps(<<>>)
BY Empty DEF GoodSteps
LEMMA OneOfSteps == ASSUME NEW st, GoodStep(st) PROVE GoodSteps(<<st>>)
BY Single DEF GoodSteps
LEMMA StepsConcat == ASSUME NEW s, NEW t, GoodSteps(s), GoodSteps(t) PROVE GoodSteps(s \o t)
<1>1. IsSeq(s \o t) /\ Len(s) \in Nat /\ Len(t) \in Nat /\ Len(s \o t) = Len(s) + Len(t)
  BY SeqConcat, SeqLen DEF GoodSteps
<1>2. ASSUME NEW k \in 1 .. Len(s \o t) PROVE GoodStep((s \o t)[k])
  <2>1. CASE k <= Len(s)
    BY <1>1, <2>1, SeqConcat DEF GoodSteps
  <2>2. CASE k > Len(s)
    <3>1. k - Len(s) \in 1 .. Len(t) /\ k = Len(s) + (k - Len(s))
      BY <1>1, <2>2
    <3>2. (s \o t)[Len(s) + (k - Len(s))] = t[k - Len(s)]
      BY <3>1, SeqConcat DEF GoodSteps
    <3> QED
      BY <3>1, <3>2 DEF GoodSteps
  <2> QED
    BY <1>1, <2>1, <2>2
<1> QED
  BY <1>1, <1>2 DEF GoodSteps

\* A register that no block has, or a value that was not given.
LEMMA OneGood == ASSUME NEW r, NEW v, ~InBlock(r) PROVE GoodStep(One(r, v))
<1>1. One(r, v).words = <<Word(r, v)>> /\ One(r, v).single = FALSE /\ Word(r, v).reg = r
  BY DEF One, Word
<1>2. IsSeq(One(r, v).words) /\ Len(One(r, v).words) = 1 /\ One(r, v).words[1].reg = r
  BY <1>1, Single
<1> QED
  BY <1>1, <1>2 DEF GoodStep, Spares, InBlock
LEMMA GivenGood == ASSUME NEW r, NEW v, ~InBlock(r) PROVE GoodSteps(Given(r, v))
BY NothingGood, OneGood, OneOfSteps DEF Given
LEMMA OneJob == ASSUME NEW r, NEW v, ~InBlock(r) PROVE GoodSteps(<<One(r, v)>>)
BY OneGood, OneOfSteps
LEMMA TwoJob ==
  ASSUME NEW r, NEW v, ~InBlock(r), NEW q, NEW u, ~InBlock(q)
  PROVE  GoodSteps(<<One(r, v), One(q, u)>>)
BY OneGood, Double DEF GoodSteps

LEMMA ManyGood ==
  ASSUME NEW w, IsSeq(w), Len(w) > 0, \A i \in 1 .. Len(w) : ~InBlock(w[i].reg)
  PROVE  GoodStep(Chunked(w))
<1>1. Chunked(w).words = w /\ Chunked(w).single = FALSE
  BY DEF Chunked
<1> QED
  BY <1>1 DEF GoodStep, Spares, InBlock

\* The blocks of the temporary modes.
LEMMA Names ==
  ASSUME NEW r, r \notin AirflowBlock, r \notin TemperatureBlock
  PROVE  ~InBlock(r)
BY BlocksAssumption DEF InBlock
LEMMA AirflowGood == ASSUME NEW p \in Nat \ {0} PROVE GoodStep(TemporaryAirflow(p))
<1> DEFINE st == TemporaryAirflow(p)
           x == Word("cfg_mode_1", Temporary)
           y == Word("air_flow_rate_temporary_4401", p)
           z == Word("airflow_rate_change_flag", 1)
<1>1. st.words = <<x, y, z>> /\ st.single = TRUE
  BY DEF TemporaryAirflow, Block
<1>2. /\ x.reg = "cfg_mode_1" /\ y.reg = "air_flow_rate_temporary_4401" /\ z.reg = "airflow_rate_change_flag"
      /\ x.val # 0 /\ y.val # 0 /\ z.val # 0
  BY DEF Word, Temporary
<1> HIDE DEF x, y, z, st
<1>3. IsSeq(st.words) /\ Len(st.words) = 3 /\ st.words[1] = x /\ st.words[2] = y /\ st.words[3] = z
  BY <1>1, Triple
<1>4. \A b \in Blocks : b = AirflowBlock => Fills(st, b)
  BY <1>1, <1>2, <1>3 DEF Fills, AirflowBlock
<1>5. \A b \in Blocks : b = TemperatureBlock => Spares(st, b)
  BY <1>2, <1>3 DEF Spares, TemperatureBlock
<1>6. \A b \in Blocks : Spares(st, b) \/ Fills(st, b)
  BY <1>4, <1>5, BlocksAssumption
<1>7. GoodStep(st)
  BY <1>1, <1>3, <1>6 DEF GoodStep
<1> QED
  BY <1>7 DEF st
LEMMA TemperatureGood == ASSUME NEW t \in Nat \ {0} PROVE GoodStep(TemporaryTemperature(t))
<1> DEFINE st == TemporaryTemperature(t)
           x == Word("cfg_mode_2", Temporary)
           y == Word("supply_air_temperature_temporary_4404", t)
           z == Word("temperature_change_flag", 1)
<1>1. st.words = <<x, y, z>> /\ st.single = TRUE
  BY DEF TemporaryTemperature, Block
<1>2. /\ x.reg = "cfg_mode_2" /\ y.reg = "supply_air_temperature_temporary_4404" /\ z.reg = "temperature_change_flag"
      /\ x.val # 0 /\ y.val # 0 /\ z.val # 0
  BY DEF Word, Temporary
<1> HIDE DEF x, y, z, st
<1>3. IsSeq(st.words) /\ Len(st.words) = 3 /\ st.words[1] = x /\ st.words[2] = y /\ st.words[3] = z
  BY <1>1, Triple
<1>4. \A b \in Blocks : b = TemperatureBlock => Fills(st, b)
  BY <1>1, <1>2, <1>3 DEF Fills, TemperatureBlock
<1>5. \A b \in Blocks : b = AirflowBlock => Spares(st, b)
  BY <1>2, <1>3 DEF Spares, AirflowBlock
<1>6. \A b \in Blocks : Spares(st, b) \/ Fills(st, b)
  BY <1>4, <1>5, BlocksAssumption
<1>7. GoodStep(st)
  BY <1>1, <1>3, <1>6 DEF GoodStep
<1> QED
  BY <1>7 DEF st

-----------------------------------------------------------------------------
(***************************************************************************)
(* Every command's job.                                                    *)
(***************************************************************************)
LEMMA LowHigh == ASSUME NEW d \in Data PROVE Low(d) \in Nat /\ High(d) \in Nat /\ Low(d) <= High(d)
<1>1. ASSUME NEW r, Val(d, r) # None PROVE d[r] \in Nat
  <2>1. DOMAIN d = Regs
    BY DEF Data
  <2>2. r \in Regs
    BY <1>1, <2>1 DEF Val
  <2>3. d[r] \in 0..WordMax
    BY <2>2 DEF Data
  <2>4. WordMax \in Int
    BY DEF WordMax
  <2> QED
    BY <2>3, <2>4
<1>2. \A m, n \in Int : Greater(m, n) \in {m, n} /\ Greater(m, n) >= m /\ Greater(m, n) >= n
                        /\ Lesser(m, n) \in {m, n}
  BY DEF Greater, Lesser
<1>3. Low(d) \in Nat
  <2>1. CASE Val(d, "min_percentage") = None
    BY <2>1 DEF Low
  <2>2. CASE Val(d, "min_percentage") # None
    <3>1. d["min_percentage"] \in Nat /\ Low(d) = Greater(0, d["min_percentage"])
      BY <1>1, <2>2 DEF Low
    <3> QED
      BY <1>2, <3>1
  <2> QED
    BY <2>1, <2>2
<1> DEFINE max == IF Val(d, "max_percentage") = None THEN 150 ELSE Lesser(150, d["max_percentage"])
<1>4. max \in Nat
  <2>1. CASE Val(d, "max_percentage") = None
    BY <2>1
  <2>2. CASE Val(d, "max_percentage") # None
    <3>1. d["max_percentage"] \in Nat /\ max = Lesser(150, d["max_percentage"])
      BY <1>1, <2>2
    <3> QED
      BY <1>2, <3>1
  <2> QED
    BY <2>1, <2>2
<1>5. High(d) = Greater(max, Low(d))
  BY DEF High
<1> HIDE DEF max
<1> QED
  BY <1>2, <1>3, <1>4, <1>5

LEMMA FanNames ==
  /\ \A d : ~InBlock(SpeedRegister(d))
  /\ \A r \in {"mode", "on_off_panel_mode", "air_flow_rate_manual", "special_mode", "comfort_temperature",
               "required_temperature", "filter_change", "hard_reset_settings", "hard_reset_schedule",
               "pres_check_day_2", "pres_check_time_2", "bypass_mode", "min_bypass_temperature", "gwc_mode",
               "min_gwc_air_temperature", "max_gwc_air_temperature", "co2_threshold_low",
               "co2_threshold_medium", "co2_threshold_high", "humidity_target", "heating_curve_slope",
               "heating_curve_offset", "max_supply_temperature", "min_supply_temperature",
               "date_time", "date_time_ddtt", "date_time_ggmm", "date_time_sscc",
               "boost_duration", "fireplace_duration", "hood_duration", "party_duration", "bathroom_duration",
               "uart_0_baud", "uart_0_parity", "uart_0_stop", "uart_1_baud", "uart_1_parity", "uart_1_stop",
               "device_name_1", "device_name_2", "device_name_3", "device_name_4",
               "device_name_5", "device_name_6", "device_name_7", "device_name_8"} : ~InBlock(r)
<1>1. \A r \in {"air_flow_rate_manual", "air_flow_rate_temporary_2"} : ~InBlock(r)
  BY Names DEF AirflowBlock, TemperatureBlock
<1>2. \A d : SpeedRegister(d) \in {"air_flow_rate_manual", "air_flow_rate_temporary_2"}
  BY DEF SpeedRegister
<1> QED
  BY <1>1, <1>2, Names DEF AirflowBlock, TemperatureBlock

\* What is set in the data afterwards, or forgotten, is beside the point too.
LEMMA ZeroForget ==
  ASSUME NEW j, GoodJob(j), Plain(j), NEW x
  PROVE  /\ GoodJob([j EXCEPT !.zero = x]) /\ Plain([j EXCEPT !.zero = x])
         /\ GoodJob([j EXCEPT !.forget = x]) /\ Plain([j EXCEPT !.forget = x])
<1>1. PICK V : j \in JobsOf(V)
  BY DEF GoodJob, IsJob
<1>2. j \in JobsOf(V \cup {x})
  BY <1>1 DEF JobsOf
<1>3. [j EXCEPT !.zero = x] \in JobsOf(V \cup {x}) /\ [j EXCEPT !.forget = x] \in JobsOf(V \cup {x})
  BY <1>2 DEF JobsOf
<1> DEFINE z == [j EXCEPT !.zero = x]
           f == [j EXCEPT !.forget = x]
<1>4. /\ z.steps = j.steps /\ z.then = None /\ z.back = j.back /\ z.clock = j.clock
      /\ f.steps = j.steps /\ f.then = None /\ f.back = j.back /\ f.clock = j.clock
  BY <1>2 DEF JobsOf, Plain
<1> QED
  BY <1>3, <1>4 DEF GoodJob, IsJob, Plain

LEMMA FanOffGood == ASSUME NEW d PROVE GoodJob(FanOff(d)) /\ Plain(FanOff(d))
<1> DEFINE r == IF Writable("on_off_panel_mode") THEN "on_off_panel_mode" ELSE SpeedRegister(d)
           plain == Job(<<One(r, 0)>>)
           job == IF Writable(r) THEN [plain EXCEPT !.zero = r] ELSE Refused
<1>1. ~InBlock(r)
  BY FanNames
<1> HIDE DEF r
<1>2. GoodJob(plain) /\ Plain(plain)
  BY <1>1, OneJob, JobGood, JobIs DEF Plain
<1> HIDE DEF plain
<1>3. GoodJob([plain EXCEPT !.zero = r]) /\ Plain([plain EXCEPT !.zero = r])
  BY <1>2, ZeroForget
<1>4. GoodJob(Refused) /\ Plain(Refused)
  BY RefusedGood
<1>5. GoodJob(job) /\ Plain(job)
  BY <1>3, <1>4
<1>6. FanOff(d) = [job EXCEPT !.forget = "percentage"]
  BY DEF FanOff, r, plain
<1> HIDE DEF job
<1>7. \A x : GoodJob([job EXCEPT !.forget = x]) /\ Plain([job EXCEPT !.forget = x])
  BY <1>5, ZeroForget
<1> QED
  BY <1>6, <1>7

LEMMA FanSpeedGood ==
  ASSUME NEW d \in Data, NEW p \in Nat
  PROVE  GoodJob(FanSpeed(p, d)) /\ Plain(FanSpeed(p, d))
<1> DEFINE speed == Greater(Low(d), Lesser(p, High(d)))
           mode == IF Writable("mode") THEN <<One("mode", Manual)>> ELSE <<>>
           steps == (IF FollowsManual(d) THEN mode ELSE <<>>) \o <<One(SpeedRegister(d), speed)>>
<1>1. CASE Lesser(p, High(d)) = 0
  BY <1>1, FanOffGood DEF FanSpeed
<1>2. CASE Lesser(p, High(d)) # 0
  <2>1. speed \in Nat \ {0}
    BY <1>2, LowHigh DEF Greater, Lesser
  <2>2. FanSpeed(p, d) \in {Refused, Shows(Job(<<TemporaryAirflow(speed)>>), "percentage", speed),
                             Shows(Job(steps), "percentage", speed)}
    BY <1>2 DEF FanSpeed
  <2> HIDE DEF speed
  <2>3. GoodSteps(<<TemporaryAirflow(speed)>>)
    BY <2>1, AirflowGood, OneOfSteps
  <2>4. GoodSteps(mode) /\ GoodSteps(<<One(SpeedRegister(d), speed)>>)
    BY FanNames, OneJob, NothingGood
  <2>5. GoodSteps(steps)
    BY <2>4, StepsConcat, NothingGood
  <2> HIDE DEF steps, mode
  <2> QED
    <3>1. \A s : GoodSteps(s) => GoodJob(Job(s)) /\ Plain(Job(s))
      BY JobGood, JobIs DEF Plain
    <3>2. \A s : GoodSteps(s) =>
                   GoodJob(Shows(Job(s), "percentage", speed)) /\ Plain(Shows(Job(s), "percentage", speed))
      BY <3>1, ShowsGood
    <3> QED
      BY <2>2, <2>3, <2>5, <3>2, RefusedGood
<1> QED
  BY <1>1, <1>2

\* The registers that a job names are given, or the fan's speed follows.
LEMMA ThenGood ==
  ASSUME NEW j, GoodJob(j), NEW cmd, FanFollows(cmd)
  PROVE  GoodJob([j EXCEPT !.refresh = FALSE, !.then = cmd])
<1>1. PICK V : j \in JobsOf(V)
  BY DEF GoodJob, IsJob
<1> DEFINE n == [j EXCEPT !.refresh = FALSE, !.then = cmd]
<1>2. j \in JobsOf(V \cup {cmd})
  BY <1>1 DEF JobsOf
<1>3. n \in JobsOf(V \cup {cmd})
  BY <1>2 DEF JobsOf
<1>4. n.steps = j.steps /\ n.then = cmd /\ n.back = j.back /\ n.clock = j.clock
  BY <1>2 DEF JobsOf
<1> QED
  BY <1>3, <1>4 DEF GoodJob, IsJob

LEMMA FanOnGood == ASSUME NEW d \in Data, NEW p \in Nat PROVE GoodJob(FanOn(p, d))
<1> DEFINE cmd == [do |-> "fan_speed", pct |-> p]
           plain == Job(<<One("on_off_panel_mode", 1)>>)
<1>1. FanFollows(cmd)
  BY DEF FanFollows
<1>2. GoodJob(plain)
  BY FanNames, OneJob, JobGood
<1>3. FanOn(p, d) \in {Refused, [plain EXCEPT !.refresh = FALSE, !.then = cmd], FanSpeed(p, d)}
  BY DEF FanOn
<1> HIDE DEF cmd, plain
<1>4. GoodJob([plain EXCEPT !.refresh = FALSE, !.then = cmd])
  BY <1>1, <1>2, ThenGood
<1> QED
  BY <1>3, <1>4, RefusedGood, FanSpeedGood

\* The read-back is of one register.
Backed(j, back, key, val) == [j EXCEPT !.back = back, !.record = "after", !.key = key, !.val = val]
LEMMA BackGood ==
  ASSUME NEW j, GoodJob(j), Len(j.steps) = 1, NEW back, back \in BOOLEAN, NEW key, NEW val
  PROVE  GoodJob(Backed(j, back, key, val)) /\ Backed(j, back, key, val).steps = j.steps
<1>1. PICK V : j \in JobsOf(V)
  BY DEF GoodJob, IsJob
<1> DEFINE n == Backed(j, back, key, val)
           W == V \cup {key, val}
<1>2. j \in JobsOf(W)
  BY <1>1 DEF JobsOf
<1>3. n \in JobsOf(W)
  BY <1>2 DEF JobsOf, Backed
<1>4. n.steps = j.steps /\ n.then = j.then
  BY <1>2 DEF JobsOf, Backed
<1> QED
  BY <1>3, <1>4 DEF GoodJob, IsJob

LEMMA ValueGood ==
  ASSUME NEW j, GoodJob(j), NEW val
  PROVE  GoodJob([j EXCEPT !.val = val])
<1>1. PICK V : j \in JobsOf(V)
  BY DEF GoodJob, IsJob
<1> DEFINE n == [j EXCEPT !.val = val]
<1>2. j \in JobsOf(V \cup {val})
  BY <1>1 DEF JobsOf
<1>3. n \in JobsOf(V \cup {val})
  BY <1>2 DEF JobsOf
<1>4. n.steps = j.steps /\ n.then = j.then /\ n.back = j.back /\ n.clock = j.clock
  BY <1>2 DEF JobsOf
<1> QED
  BY <1>3, <1>4 DEF GoodJob, IsJob

LEMMA SetGood ==
  ASSUME NEW r, ~InBlock(r), NEW v, NEW key
  PROVE  GoodJob(SetRegister(r, v, key))
<1> DEFINE plain == Job(<<One(r, v)>>)
           back == ReadBackSafe(r)
<1>1. GoodJob(plain) /\ Len(plain.steps) = 1
  BY OneJob, JobGood, JobIs, Single
<1>2. back \in BOOLEAN
  BY DEF ReadBackSafe
<1>3. SetRegister(r, v, key) = Backed(plain, back, key, v)
  BY DEF SetRegister, Backed
<1> HIDE DEF plain, back
<1> QED
  BY <1>1, <1>2, <1>3, BackGood

LEMMA SwitchGood == ASSUME NEW mode, NEW on PROVE GoodJob(SwitchSpecial(mode, on))
<1> DEFINE plain == SetRegister("special_mode", IF on THEN Special[mode] ELSE 0, mode)
<1>1. GoodJob(plain)
  BY FanNames, SetGood
<1>2. SwitchSpecial(mode, on) = [plain EXCEPT !.val = on]
  BY DEF SwitchSpecial
<1> HIDE DEF plain
<1>3. \A x : GoodJob([plain EXCEPT !.val = x])
  BY <1>1, ValueGood
<1> QED
  BY <1>2, <1>3

LEMMA QuietGood == ASSUME NEW r, NEW v, ~InBlock(r) PROVE GoodJob(SetQuietly(r, v))
BY OneJob, JobGood DEF SetQuietly

\* The climate entity.
LEMMA PowerGood == \A on : GoodStep(Power(on))
BY FanNames, OneGood DEF Power

LEMMA ClimateGood ==
  ASSUME NEW d \in Data
  PROVE  /\ \A m : GoodJob(SetHvac(m)) /\ GoodJob(SetPreset(m))
         /\ GoodJob(ClimateOn(d))
         /\ \A p : GoodJob(SetFanMode(p, d))
<1>1. \A on : GoodSteps(<<Power(on)>>)
  BY PowerGood, OneOfSteps
<1>2. \A v, on : GoodSteps(<<Power(on), One("mode", v)>>) /\ GoodSteps(<<Power(on), One("special_mode", v)>>)
  <2>1. \A v : GoodStep(One("mode", v)) /\ GoodStep(One("special_mode", v))
    BY FanNames, OneGood
  <2> QED
    BY <2>1, PowerGood, Double DEF GoodSteps
<1>3. ASSUME NEW m PROVE GoodJob(SetHvac(m)) /\ GoodJob(SetPreset(m))
  BY <1>1, <1>2, JobGood, ShowsGood DEF SetHvac, SetPreset
<1>4. GoodJob(ClimateOn(d))
  BY <1>1, JobGood, ShowsGood DEF ClimateOn
<1>5. ASSUME NEW p PROVE GoodJob(SetFanMode(p, d))
  BY FanNames, OneJob, JobGood, ShowsGood, RefusedGood DEF SetFanMode
<1> QED
  BY <1>3, <1>4, <1>5

LEMMA SetTemperatureGood ==
  ASSUME NEW d \in Data, NEW t \in Nat \ {0}
  PROVE  GoodJob(SetTemperature(t, d))
<1> DEFINE comfort == IF Writable("comfort_temperature") THEN <<One("comfort_temperature", t)>> ELSE <<>>
           rest == <<One("required_temperature", t)>>
           block == <<TemporaryTemperature(t)>>
           steps == IF Val(d, "mode") = Temporary THEN block ELSE comfort \o rest
<1>1. GoodSteps(comfort)
  BY FanNames, OneJob, NothingGood
<1>2. GoodSteps(rest)
  BY FanNames, OneJob
<1>3. GoodSteps(block)
  BY TemperatureGood, OneOfSteps
<1>4. SetTemperature(t, d) = Shows(Job(steps), "target_temperature", t)
  BY DEF SetTemperature
<1> HIDE DEF comfort, rest, block
<1>5. GoodSteps(steps)
  BY <1>1, <1>2, <1>3, StepsConcat
<1> QED
  BY <1>4, <1>5, JobGood, ShowsGood


\* The services.
LEMMA SpecialModeGood == ASSUME NEW mode, NEW duration PROVE GoodJob(SetSpecialMode(mode, duration))
<1> DEFINE lasts == duration > 0 /\ mode \in DOMAIN DurationOf
           first == <<One("special_mode", SpecialOf(mode))>>
           rest == IF lasts THEN <<One(DurationOf[mode], duration)>> ELSE <<>>
<1>1. mode \in DOMAIN DurationOf =>
        DurationOf[mode] \in {"boost_duration", "fireplace_duration", "hood_duration", "party_duration",
                              "bathroom_duration"}
  BY DEF DurationOf
<1>2. GoodSteps(first)
  BY FanNames, OneJob
<1>3. mode \in DOMAIN DurationOf => ~InBlock(DurationOf[mode])
  BY <1>1, FanNames
<1>4. GoodSteps(rest)
  BY <1>3, OneJob, NothingGood
<1>5. SetSpecialMode(mode, duration) \in {Refused, Job(first \o rest)}
  BY DEF SetSpecialMode
<1> HIDE DEF first, rest
<1> QED
  BY <1>2, <1>4, <1>5, StepsConcat, JobGood, RefusedGood

LEMMA ScheduleGood ==
  ASSUME NEW slot, ~InBlock(slot), NEW setting, ~InBlock(setting),
         NEW start, NEW pct, NEW temp, NEW ends, NEW d
  PROVE  GoodJob(SetSchedule(slot, setting, start, pct, temp, ends, d))
<1> DEFINE word == AattWord(AattWord(Clamped(pct, d), temp), 0)
           steps == <<One(slot, start), One(setting, word)>>
<1>1. SetSchedule(slot, setting, start, pct, temp, ends, d) \in {Refused, Job(steps)}
  BY DEF SetSchedule
<1> HIDE DEF word
<1>2. GoodSteps(steps)
  BY TwoJob
<1> HIDE DEF steps
<1> QED
  BY <1>1, <1>2, JobGood, RefusedGood

LEMMA LimitsGood ==
  /\ \A mode, min : GoodJob(SetBypass(mode, min))
  /\ \A mode, min, max : GoodJob(SetGwc(mode, min, max))
  /\ \A low, medium, high, humidity : GoodJob(SetAirQuality(low, medium, high, humidity))
  /\ \A slope, offset, max, min : GoodJob(SetCurve(slope, offset, max, min))
<1>1. ASSUME NEW mode, NEW min PROVE GoodJob(SetBypass(mode, min))
  <2>1. GoodSteps(<<One("bypass_mode", BypassModes[mode])>>) /\ GoodSteps(Given("min_bypass_temperature", min))
    BY FanNames, OneJob, GivenGood
  <2> QED
    BY <2>1, StepsConcat, JobGood DEF SetBypass
<1>2. ASSUME NEW mode, NEW min, NEW max PROVE GoodJob(SetGwc(mode, min, max))
  <2> DEFINE first == <<One("gwc_mode", GwcModes[mode])>>
             low == Given("min_gwc_air_temperature", min)
             high == Given("max_gwc_air_temperature", max)
  <2>1. GoodSteps(first) /\ GoodSteps(low) /\ GoodSteps(high)
    BY FanNames, OneJob, GivenGood
  <2>2. SetGwc(mode, min, max) \in {Refused, Job(first \o low \o high)}
    BY DEF SetGwc
  <2> HIDE DEF first, low, high
  <2>3. GoodSteps(first \o low \o high)
    BY <2>1, StepsConcat
  <2> QED
    BY <2>2, <2>3, JobGood, RefusedGood
<1>3. ASSUME NEW low, NEW medium, NEW high, NEW humidity PROVE GoodJob(SetAirQuality(low, medium, high, humidity))
  <2> DEFINE a == Given("co2_threshold_low", low)
             b == Given("co2_threshold_medium", medium)
             c == Given("co2_threshold_high", high)
             e == Given("humidity_target", humidity)
  <2>1. GoodSteps(a) /\ GoodSteps(b) /\ GoodSteps(c) /\ GoodSteps(e)
    BY FanNames, GivenGood
  <2>2. SetAirQuality(low, medium, high, humidity) = Job(a \o b \o c \o e)
    BY DEF SetAirQuality
  <2> HIDE DEF a, b, c, e
  <2>3. GoodSteps(a \o b \o c \o e)
    BY <2>1, StepsConcat
  <2> QED
    BY <2>2, <2>3, JobGood
<1>4. ASSUME NEW slope, NEW offset, NEW max, NEW min PROVE GoodJob(SetCurve(slope, offset, max, min))
  <2> DEFINE a == Given("heating_curve_slope", slope)
             b == Given("heating_curve_offset", offset)
             c == Given("max_supply_temperature", max)
             e == Given("min_supply_temperature", min)
  <2>1. GoodSteps(a) /\ GoodSteps(b) /\ GoodSteps(c) /\ GoodSteps(e)
    BY FanNames, GivenGood
  <2>2. SetCurve(slope, offset, max, min) = Job(a \o b \o c \o e)
    BY DEF SetCurve
  <2> HIDE DEF a, b, c, e
  <2>3. GoodSteps(a \o b \o c \o e)
    BY <2>1, StepsConcat
  <2> QED
    BY <2>2, <2>3, JobGood
<1> QED
  BY <1>1, <1>2, <1>3, <1>4

LEMMA ResetGood ==
  /\ \A type : GoodJob(ResetFilters(type))
  /\ \A what \in {"user_settings", "schedule_settings", "all_settings"} : GoodJob(ResetSettings(what))
  /\ \A day, time : GoodJob(PressureTest(day, time))
<1>1. \A v : GoodSteps(<<One("filter_change", v)>>) /\ GoodSteps(<<One("hard_reset_settings", v)>>)
             /\ GoodSteps(<<One("hard_reset_schedule", v)>>)
  BY FanNames, OneJob
<1>2. \A v, w : GoodSteps(<<One("hard_reset_settings", v), One("hard_reset_schedule", w)>>)
                /\ GoodSteps(<<One("pres_check_day_2", v), One("pres_check_time_2", w)>>)
  BY FanNames, TwoJob
<1>3. ASSUME NEW what \in {"user_settings", "schedule_settings", "all_settings"} PROVE GoodJob(ResetSettings(what))
  <2>1. ResetSettings(what) \in {Job(<<One("hard_reset_settings", 1), One("hard_reset_schedule", 1)>>),
                                 Job(<<One("hard_reset_settings", 1)>>), Job(<<One("hard_reset_schedule", 1)>>)}
    BY DEF ResetSettings
  <2> QED
    BY <1>1, <1>2, <2>1, JobGood
<1> QED
  BY <1>1, <1>2, <1>3, JobGood DEF ResetFilters, PressureTest

LEMMA ModbusGood ==
  ASSUME NEW port \in DOMAIN Uart, NEW baud, NEW parity, NEW stop
  PROVE  GoodJob(SetModbus(port, baud, parity, stop))
<1>1. \A i \in 1 .. 3 : Uart[port][i] \in {"uart_0_baud", "uart_0_parity", "uart_0_stop",
                                           "uart_1_baud", "uart_1_parity", "uart_1_stop"}
  <2>1. Uart[port] \in {<<"uart_0_baud", "uart_0_parity", "uart_0_stop">>,
                         <<"uart_1_baud", "uart_1_parity", "uart_1_stop">>}
    BY DEF Uart
  <2> QED
    BY <2>1
<1>2. \A i \in 1 .. 3 : ~InBlock(Uart[port][i])
  BY <1>1, FanNames
<1> DEFINE code == IF baud = None THEN None ELSE Unscaled(10 * baud, 30, 30)
           a == Given(Uart[port][1], code)
           b == Given(Uart[port][2], parity)
           c == Given(Uart[port][3], stop)
<1>3. SetModbus(port, baud, parity, stop) = Job(a \o b \o c)
  BY DEF SetModbus
<1> HIDE DEF code
<1>4. GoodSteps(a) /\ GoodSteps(b) /\ GoodSteps(c)
  BY <1>2, GivenGood
<1> HIDE DEF a, b, c
<1>5. GoodSteps(a \o b \o c)
  BY <1>4, StepsConcat
<1> QED
  BY <1>3, <1>5, JobGood

\* The clock and the unit's name.
LEMMA ClockGood == ASSUME NEW now PROVE GoodJob(SyncTime(now)) /\ GoodJob(SyncClock(now))
<1> DEFINE w == ClockWords(now)
           x == Word("date_time", w[1])
           y == Word("date_time_ddtt", w[2])
           z == Word("date_time_ggmm", w[3])
           u == Word("date_time_sscc", w[4])
           plain == Job(<<ClockStep(now)>>)
           time == SyncTime(now)
           clock == SyncClock(now)
<1>1. ClockStep(now) = Chunked(<<x, y, z, u>>)
  BY DEF ClockStep
<1>2. x.reg = "date_time" /\ y.reg = "date_time_ddtt" /\ z.reg = "date_time_ggmm" /\ u.reg = "date_time_sscc"
  BY DEF Word
<1>3. ~InBlock(x.reg) /\ ~InBlock(y.reg) /\ ~InBlock(z.reg) /\ ~InBlock(u.reg)
  BY <1>2, FanNames
<1> HIDE DEF x, y, z, u
<1>4. GoodStep(Chunked(<<x, y, z, u>>))
  <2> DEFINE s == <<x, y, z, u>>
  <2>1. IsSeq(s) /\ Len(s) = 4 /\ s[1] = x /\ s[2] = y /\ s[3] = z /\ s[4] = u
    BY Quadruple
  <2> HIDE DEF s
  <2>2. \A i \in 1 .. Len(s) : ~InBlock(s[i].reg)
    BY <1>3, <2>1
  <2>3. IsSeq(s) /\ Len(s) > 0
    BY <2>1
  <2>4. GoodStep(Chunked(s))
    BY <2>2, <2>3, ManyGood
  <2> QED
    BY <2>4 DEF s
<1>5. /\ GoodJob(plain) /\ plain.steps = <<ClockStep(now)>> /\ plain.then = None
      /\ ~plain.back /\ ~plain.clock
  BY <1>1, <1>4, OneOfSteps, JobGood, JobIs
<1>6. time = [plain EXCEPT !.refresh = FALSE] /\ clock = [time EXCEPT !.clock = TRUE]
  BY DEF SyncTime, SyncClock
<1>7. Len(plain.steps) = 1
  BY <1>5, Single
<1> HIDE DEF plain, time, clock
<1>8. PICK V : plain \in JobsOf(V)
  BY <1>5 DEF GoodJob, IsJob
<1>9. /\ time \in JobsOf(V) /\ time.steps = plain.steps /\ time.then = None
      /\ time.back = plain.back /\ time.clock = plain.clock
  BY <1>5, <1>6, <1>8 DEF JobsOf
<1>10. clock \in JobsOf(V) /\ clock.steps = plain.steps /\ clock.then = None
  BY <1>6, <1>9 DEF JobsOf
<1>11. GoodJob(time) /\ GoodJob(clock)
  BY <1>5, <1>7, <1>9, <1>10 DEF GoodJob, IsJob
<1> QED
  BY <1>11 DEF time, clock


LEMMA NameRegisters == \A j \in 1 .. 8 : ~InBlock(NameRegister[j])
<1>1. \A j \in 1 .. 8 :
        NameRegister[j] \in {"device_name_1", "device_name_2", "device_name_3", "device_name_4",
                             "device_name_5", "device_name_6", "device_name_7", "device_name_8"}
  BY DEF NameRegister
<1> QED
  BY <1>1, FanNames

LEMMA NameStepGood == ASSUME NEW text, NEW offset \in 0 .. 7 PROVE GoodStep(NameStep(text, offset))
<1> DEFINE w == [i \in 1 .. (8 - offset) |-> Word(NameRegister[offset + i], Encoded(text)[offset + i])]
           S == {w[i] : i \in 1 .. (8 - offset)}
<1>1. w \in [1 .. (8 - offset) -> S] /\ 8 - offset \in Nat /\ 8 - offset > 0
  OBVIOUS
<1>2. \A i \in 1 .. (8 - offset) : ~InBlock(w[i].reg)
  <2>1. \A i \in 1 .. (8 - offset) : offset + i \in 1 .. 8 /\ w[i].reg = NameRegister[offset + i]
    BY DEF Word
  <2> QED
    BY <2>1, NameRegisters
<1>3. NameStep(text, offset) = Chunked(w)
  BY DEF NameStep
<1> HIDE DEF w, S
<1>4. IsSeq(w) /\ Len(w) = 8 - offset
  BY <1>1, Function
<1>5. IsSeq(w) /\ Len(w) > 0 /\ \A i \in 1 .. Len(w) : ~InBlock(w[i].reg)
  BY <1>1, <1>2, <1>4
<1> QED
  BY <1>3, <1>5, ManyGood

\* A short name has no piece that begins behind the eighth register.
LEMMA PieceWithin ==
  ASSUME NEW n \in 0 .. 15, NEW k \in 1 .. ((n + 2 * BatchSize - 1) \div (2 * BatchSize))
  PROVE  (k - 1) * BatchSize \in 0 .. 7
<1> DEFINE size == 2 * BatchSize
           top == n + size - 1
           q == top \div size
<1>1. size \in Nat \ {0} /\ top \in Nat /\ BatchSize \in Nat \ {0}
  BY BoundsAssumption
<1>2. k \in Nat \ {0} /\ k <= q
  <2>1. q \in Nat
    BY <1>1
  <2> QED
    BY <2>1
<1>3. size * q <= top
  <2> HIDE DEF size, top
  <2>1. \A a \in Nat : \A b \in Nat \ {0} : b * (a \div b) <= a
    OBVIOUS
  <2> QED
    BY <1>1, <2>1
<1> HIDE DEF q
<1>4. q \in Nat /\ size * k <= size * q
  BY <1>1, <1>2 DEF q
<1>5. size * k = size * (k - 1) + size
  BY <1>1, <1>2
<1>6. size * (k - 1) <= n - 1
  <2>1. size * (k - 1) \in Int /\ size * q \in Int /\ size * k \in Int
    BY <1>1, <1>2, <1>4
  <2> QED
    BY <1>1, <1>3, <1>4, <1>5, <2>1
<1>7. size * (k - 1) = 2 * ((k - 1) * BatchSize) /\ (k - 1) * BatchSize \in Nat
  BY <1>1, <1>2
<1> QED
  BY <1>6, <1>7

LEMMA NameGood ==
  ASSUME NEW text \in Seq(0..255)
  PROVE  GoodJob(SetName(text)) /\ GoodJob(SetText(text))
<1> DEFINE size == 2 * BatchSize
           pieces == (Len(text) + size - 1) \div size
           piece(k) == SubSeq(text, (k - 1) * size + 1, Lesser(k * size, Len(text)))
           steps == [k \in 1 .. pieces |-> NameStep(piece(k), (k - 1) * BatchSize)]
<1>1. GoodSteps(<<NameStep(text, 0)>>)
  BY NameStepGood, OneOfSteps
<1>2. Len(text) \in Nat /\ BatchSize \in Nat \ {0}
  BY BoundsAssumption
<1>3. CASE Len(text) >= 16
  <2>1. SetName(text) = Job(<<NameStep(text, 0)>>)
    BY <1>3 DEF SetName
  <2> QED
    BY <1>1, <2>1, JobGood DEF SetText
<1>4. CASE ~(Len(text) >= 16)
  <2>1. Len(text) \in 0 .. 15
    <3>1. \A n \in Nat : ~(n >= 16) => n \in 0 .. 15
      OBVIOUS
    <3> QED
      BY <1>2, <1>4, <3>1
  <2>2. \A k \in 1 .. pieces : (k - 1) * BatchSize \in 0 .. 7
    BY <2>1, PieceWithin
  <2>3. \A k \in 1 .. pieces : GoodStep(steps[k])
    BY <2>2, NameStepGood
  <2>4. SetName(text) = Job(steps)
    BY <1>2, <1>4 DEF SetName
  <2>5. pieces \in Nat
    BY <1>2
  <2> DEFINE S == {steps[k] : k \in 1 .. pieces}
  <2>6. steps \in [1 .. pieces -> S]
    OBVIOUS
  <2> HIDE DEF steps, pieces, S
  <2>7. IsSeq(steps) /\ Len(steps) = pieces
    BY <2>5, <2>6, Function
  <2>8. GoodSteps(steps)
    BY <2>3, <2>7 DEF GoodSteps
  <2> QED
    BY <1>1, <2>4, <2>8, JobGood DEF SetText
<1> QED
  BY <1>2, <1>3, <1>4

\* Whatever is asked of the coordinator.
LEMMA JobsAreGood ==
  ASSUME NEW cmd, Admissible(cmd), NEW d \in Data
  PROVE  GoodJob(JobOf(cmd, d))
<1>1. CASE cmd.do = "set"
  BY <1>1, SetGood DEF Admissible, JobOf
<1>2. CASE cmd.do = "switch"
  BY <1>2, SwitchGood DEF JobOf
<1>3. CASE cmd.do = "quiet"
  BY <1>3, QuietGood DEF Admissible, JobOf
<1>4. CASE cmd.do = "fan_on"
  BY <1>4, FanOnGood DEF Admissible, JobOf
<1>5. CASE cmd.do = "fan_off"
  BY <1>5, FanOffGood DEF JobOf
<1>6. CASE cmd.do = "fan_speed"
  BY <1>6, FanSpeedGood DEF Admissible, JobOf
<1>7. CASE cmd.do = "hvac"
  BY <1>7, ClimateGood DEF JobOf
<1>8. CASE cmd.do = "climate_on"
  BY <1>8, ClimateGood DEF JobOf
<1>9. CASE cmd.do = "preset"
  BY <1>9, ClimateGood DEF JobOf
<1>10. CASE cmd.do = "fan_mode"
  BY <1>10, ClimateGood DEF JobOf
<1>11. CASE cmd.do = "temperature"
  BY <1>11, SetTemperatureGood DEF Admissible, JobOf
<1>12. CASE cmd.do = "special"
  BY <1>12, SpecialModeGood DEF JobOf
<1>13. CASE cmd.do = "schedule"
  BY <1>13, ScheduleGood DEF Admissible, JobOf
<1>14. CASE cmd.do = "bypass"
  BY <1>14, LimitsGood DEF JobOf
<1>15. CASE cmd.do = "gwc"
  BY <1>15, LimitsGood DEF JobOf
<1>16. CASE cmd.do = "air_quality"
  BY <1>16, LimitsGood DEF JobOf
<1>17. CASE cmd.do = "curve"
  BY <1>17, LimitsGood DEF JobOf
<1>18. CASE cmd.do = "filters"
  BY <1>18, ResetGood DEF JobOf
<1>19. CASE cmd.do = "reset"
  BY <1>19, ResetGood DEF Admissible, JobOf
<1>20. CASE cmd.do = "pressure"
  BY <1>20, ResetGood DEF JobOf
<1>21. CASE cmd.do = "modbus"
  BY <1>21, ModbusGood DEF Admissible, JobOf
<1>22. CASE cmd.do = "name"
  BY <1>22, NameGood DEF Admissible, JobOf
<1>23. CASE cmd.do = "text"
  BY <1>23, NameGood DEF Admissible, JobOf
<1>24. CASE cmd.do = "sync_time"
  BY <1>24, ClockGood DEF JobOf
<1>25. CASE cmd.do = "sync_clock"
  BY <1>25, ClockGood DEF JobOf
<1> QED
  BY <1>1, <1>2, <1>3, <1>4, <1>5, <1>6, <1>7, <1>8, <1>9, <1>10, <1>11, <1>12, <1>13, <1>14, <1>15, <1>16,
     <1>17, <1>18, <1>19, <1>20, <1>21, <1>22, <1>23, <1>24, <1>25 DEF Admissible

\* A command that follows another one has none that follows it.
LEMMA LastJob ==
  ASSUME NEW cmd, FanFollows(cmd), NEW d \in Data
  PROVE  GoodJob(JobOf(cmd, d)) /\ Plain(JobOf(cmd, d))
<1>1. PICK p \in Nat : cmd = [do |-> "fan_speed", pct |-> p]
  BY DEF FanFollows
<1>2. JobOf(cmd, d) = FanSpeed(p, d)
  BY <1>1 DEF JobOf
<1> QED
  BY <1>2, FanSpeedGood


-----------------------------------------------------------------------------
(***************************************************************************)
(* The requests of a step: together they hold every word of it.            *)
(***************************************************************************)
LEMMA Divided ==
  ASSUME NEW a \in Nat, NEW b \in Nat \ {0}
  PROVE  a \div b \in Nat /\ b * (a \div b) <= a /\ a < b * (a \div b) + b
OBVIOUS

LEMMA Multiples == ASSUME NEW s \in Nat \ {0}, NEW a \in Nat, NEW b \in Nat, s * a < s * b PROVE a < b
<1>1. CASE b <= a
  <2>1. PICK e \in Nat : a = b + e
    BY <1>1
  <2>2. s * a = s * b + s * e /\ s * e \in Nat /\ s * b \in Nat
    BY <2>1
  <2> QED
    BY <2>2
<1> QED
  BY <1>1

LEMMA ChunkIndex ==
  ASSUME NEW n \in Nat \ {0}, NEW size \in Nat \ {0}, NEW i \in 1 .. n
  PROVE  /\ (i - 1) \div size \in Nat
         /\ (n + size - 1) \div size \in Nat
         /\ (i - 1) \div size < (n + size - 1) \div size
         /\ size = n => (i - 1) \div size = 0 /\ (n + size - 1) \div size = 1
<1> DEFINE p == (i - 1) \div size
           q == (n + size - 1) \div size
<1>1. i - 1 \in Nat /\ n + size - 1 \in Nat
  OBVIOUS
<1>2. p \in Nat /\ size * p <= i - 1 /\ i - 1 < size * p + size
  BY <1>1, Divided
<1>3. q \in Nat /\ size * q <= n + size - 1 /\ n + size - 1 < size * q + size
  BY <1>1, Divided
<1> HIDE DEF p, q
<1>4. p < q
  <2>1. size * (p + 1) = size * p + size /\ size * (q + 1) = size * q + size
        /\ size * p \in Nat /\ size * q \in Nat
    BY <1>2, <1>3
  <2>2. size * (p + 1) < size * (q + 1)
    BY <1>2, <1>3, <2>1
  <2>3. p + 1 < q + 1
    BY <1>2, <1>3, <2>2, Multiples
  <2> QED
    BY <1>2, <1>3, <2>3
<1>5. ASSUME size = n PROVE p = 0 /\ q = 1
  <2>1. n * p < n * 1 /\ n * q < n * 2
    BY <1>2, <1>3, <1>5
  <2>2. p < 1 /\ q < 2
    BY <1>2, <1>3, <2>1, Multiples
  <2> QED
    BY <1>2, <1>3, <1>4, <2>2
<1> QED
  BY <1>2, <1>3, <1>4, <1>5 DEF p, q

LEMMA ChunksCover ==
  ASSUME NEW st, GoodStep(st)
  PROVE  /\ Len(Chunks(st)) \in Nat \ {0}
         /\ \A k \in 1 .. Len(Chunks(st)) : Chunks(st)[k] \subseteq 1 .. Len(st.words)
         /\ \A i \in 1 .. Len(st.words) : \E k \in 1 .. Len(Chunks(st)) : i \in Chunks(st)[k]
         /\ st.single => \A k \in 1 .. Len(Chunks(st)) : Chunks(st)[k] = 1 .. Len(st.words)
<1> DEFINE n == Len(st.words)
           size == ChunkSize(st)
           L == (n + size - 1) \div size
           plan == [k \in 1 .. L |-> {i \in 1 .. n : (i - 1) \div size = k - 1}]
           S == {plan[k] : k \in 1 .. L}
<1>1. n \in Nat \ {0}
  BY SeqLen DEF GoodStep
<1>2. size \in Nat \ {0} /\ (st.single => size = n)
  BY <1>1, BoundsAssumption DEF ChunkSize
<1>3. Chunks(st) = plan
  BY DEF Chunks
<1> HIDE DEF n, size
<1>4. L \in Nat \ {0}
  <2>1. 1 \in 1 .. n
    BY <1>1
  <2> QED
    BY <1>1, <1>2, <2>1, ChunkIndex
<1>5. plan \in [1 .. L -> S]
  OBVIOUS
<1>6. Len(plan) = L
  <2> HIDE DEF plan, S, L
  <2> QED
    BY <1>4, <1>5, Function
<1>7. \A k \in 1 .. L : plan[k] = {i \in 1 .. n : (i - 1) \div size = k - 1}
  OBVIOUS
<1>8. ASSUME NEW i \in 1 .. n PROVE \E k \in 1 .. L : i \in plan[k]
  <2> DEFINE p == (i - 1) \div size
  <2>1. p \in Nat /\ p < L
    BY <1>1, <1>2, ChunkIndex
  <2> HIDE DEF p
  <2>2. p + 1 \in 1 .. L /\ (p + 1) - 1 = p
    BY <1>4, <2>1
  <2>3. i \in plan[p + 1]
    BY <1>7, <2>2 DEF p
  <2> QED
    BY <2>2, <2>3
<1>9. ASSUME st.single, NEW k \in 1 .. L PROVE plan[k] = 1 .. n
  <2>1. \A i \in 1 .. n : (i - 1) \div size = 0 /\ L = 1
    BY <1>1, <1>2, <1>9, ChunkIndex
  <2>2. 1 \in 1 .. n
    BY <1>1
  <2>3. k = 1
    BY <1>9, <2>1, <2>2
  <2> QED
    BY <1>7, <2>1, <2>3
<1> HIDE DEF plan, L
<1>10. /\ Len(plan) \in Nat \ {0}
       /\ \A k \in 1 .. Len(plan) : plan[k] \subseteq 1 .. n
       /\ \A i \in 1 .. n : \E k \in 1 .. Len(plan) : i \in plan[k]
       /\ st.single => \A k \in 1 .. Len(plan) : plan[k] = 1 .. n
  BY <1>4, <1>6, <1>7, <1>8, <1>9
<1> QED
  BY <1>3, <1>10 DEF n


-----------------------------------------------------------------------------
(***************************************************************************)
(* What the state is made of, and the inductive invariant.                 *)
(***************************************************************************)
Pcs == {"idle", "lock", "send", "back", "await", "resume"}
Results == {"none", "ok", "failed", "refused"}
CallsOf(V) ==
  [pc : Pcs, job : V, step : Nat \ {0}, chunk : Nat \ {0}, attempt : 1 .. Retry, result : Results]
IsCall(r) == \E V : r \in CallsOf(V)

\* The unit has acknowledged every word of step k.
Acked(steps, k, seen) == \A i \in 1 .. Len(steps[k].words) : <<k, i>> \in seen
AckedTo(steps, n, seen) == \A k \in 1 .. n : Acked(steps, k, seen)
\* The chunks of a step up to n have been acknowledged.
ChunksAcked(st, k, n, seen) == \A j \in 1 .. n : \A i \in Chunks(st)[j] : <<k, i>> \in seen

Working(r, seen) ==
  /\ GoodJob(r.job) /\ r.step \in 1 .. Len(r.job.steps)
  /\ AckedTo(r.job.steps, r.step - 1, seen)
  /\ r.pc = "lock" => r.chunk = 1
  /\ r.pc = "send" => /\ r.chunk \in 1 .. Len(Chunks(r.job.steps[r.step]))
                      /\ ChunksAcked(r.job.steps[r.step], r.step, r.chunk - 1, seen)
  /\ r.pc \in {"back", "await", "resume"} => AckedTo(r.job.steps, Len(r.job.steps), seen)
  /\ r.pc = "back" => r.job.back \/ r.job.clock
CallOK(r, seen) == IsCall(r) /\ (r.pc # "idle" => Working(r, seen))

Pending(V) == {None} \cup [val : V, old : BOOLEAN]
UisOf(V) == [data : Data, pend : [Displays -> Pending(V)], shown : [Displays -> V]]
IsUi(u) == \E V : u \in UisOf(V)

PollsOf == [pc : {"idle", "wait", "read"}, by : {None, Poll} \cup Callers, read : Data \cup {None}]
PollOK ==
  /\ poll \in PollsOf
  /\ poll.pc = "idle" => poll.by = None
  /\ poll.pc = "read" => poll.read \in Data
  /\ poll.by \in Callers => call[poll.by].pc = "await"
  /\ debounce \in {"idle", "running", "cooling", "again"}
  /\ debounce = "running" <=> poll.by # None
LockOK ==
  /\ lock \in {None, Poll} \cup Callers
  /\ \A c \in Callers : lock = c <=> call[c].pc \in {"send", "back"}
  /\ lock = Poll <=> poll.pc = "read"
CallsOK ==
  /\ call = [c \in Callers |-> call[c]] /\ acked = [c \in Callers |-> acked[c]]
  /\ \A c \in Callers : CallOK(call[c], acked[c])
Inv == unit \in Data /\ IsUi(ui) /\ CallsOK /\ PollOK /\ LockOK /\ BlocksAreWhole

-----------------------------------------------------------------------------
(***************************************************************************)
(* The states that a call goes through.                                    *)
(***************************************************************************)
Begins(job) == [Free("none") EXCEPT !.pc = "lock", !.job = job]
Follow(steps, next) ==
  [Free("none") EXCEPT !.pc = "lock", !.step = Len(steps) + 1, !.job = [next EXCEPT !.steps = steps \o @]]
Goes(r, pc) == [r EXCEPT !.pc = pc]
NextStep(r) == [r EXCEPT !.pc = "lock", !.step = @ + 1, !.chunk = 1, !.attempt = 1]
NextChunk(r) == [r EXCEPT !.chunk = @ + 1]
Again(r) == [r EXCEPT !.chunk = 1, !.attempt = @ + 1]

LEMMA FreeIs ==
  ASSUME NEW result \in Results
  PROVE  IsCall(Free(result)) /\ Free(result).pc = "idle" /\ Free(result).result = result
<1>1. Free(result) \in CallsOf({None})
  BY BoundsAssumption DEF Free, CallsOf, Pcs
<1> QED
  BY <1>1 DEF IsCall, Free

LEMMA BeginsIs ==
  ASSUME NEW job
  PROVE  /\ IsCall(Begins(job)) /\ Begins(job).pc = "lock" /\ Begins(job).job = job
         /\ Begins(job).step = 1 /\ Begins(job).chunk = 1
<1>1. Free("none") \in CallsOf({None, job}) /\ Free("none").step = 1 /\ Free("none").chunk = 1
  BY BoundsAssumption DEF Free, CallsOf, Pcs, Results
<1>2. Begins(job) \in CallsOf({None, job})
  BY <1>1 DEF Begins, CallsOf, Pcs
<1>3. Begins(job).pc = "lock" /\ Begins(job).job = job /\ Begins(job).step = 1 /\ Begins(job).chunk = 1
  BY <1>1 DEF Begins, CallsOf
<1> QED
  BY <1>2, <1>3 DEF IsCall

LEMMA GoesIs ==
  ASSUME NEW r, IsCall(r), NEW pc \in Pcs
  PROVE  /\ IsCall(Goes(r, pc)) /\ Goes(r, pc).pc = pc /\ Goes(r, pc).job = r.job
         /\ Goes(r, pc).step = r.step /\ Goes(r, pc).chunk = r.chunk
<1>1. PICK V : r \in CallsOf(V)
  BY DEF IsCall
<1>2. Goes(r, pc) \in CallsOf(V)
  BY <1>1 DEF Goes, CallsOf
<1>3. /\ Goes(r, pc).pc = pc /\ Goes(r, pc).job = r.job
      /\ Goes(r, pc).step = r.step /\ Goes(r, pc).chunk = r.chunk
  BY <1>1 DEF Goes, CallsOf
<1> QED
  BY <1>2, <1>3 DEF IsCall

LEMMA NextStepIs ==
  ASSUME NEW r, IsCall(r)
  PROVE  /\ IsCall(NextStep(r)) /\ NextStep(r).pc = "lock" /\ NextStep(r).job = r.job
         /\ NextStep(r).step = r.step + 1 /\ NextStep(r).chunk = 1
<1>1. PICK V : r \in CallsOf(V)
  BY DEF IsCall
<1>2. NextStep(r) \in CallsOf(V)
  <2> DEFINE m == r.step + 1
             A == 1 .. Retry
             B == Nat \ {0}
  <2>1. m \in B /\ 1 \in A /\ 1 \in B
    BY <1>1, BoundsAssumption DEF CallsOf
  <2>2. NextStep(r) = [r EXCEPT !.pc = "lock", !.step = m, !.chunk = 1, !.attempt = 1]
    BY DEF NextStep
  <2>3. r \in [pc : Pcs, job : V, step : B, chunk : B, attempt : A, result : Results]
    BY <1>1 DEF CallsOf
  <2> HIDE DEF m, A, B
  <2>4. NextStep(r) \in [pc : Pcs, job : V, step : B, chunk : B, attempt : A, result : Results]
    BY <2>1, <2>2, <2>3 DEF Pcs
  <2> QED
    BY <2>4 DEF CallsOf, A, B
<1>3. /\ NextStep(r).pc = "lock" /\ NextStep(r).job = r.job
      /\ NextStep(r).step = r.step + 1 /\ NextStep(r).chunk = 1
  BY <1>1 DEF NextStep, CallsOf
<1> QED
  BY <1>2, <1>3 DEF IsCall

LEMMA NextChunkIs ==
  ASSUME NEW r, IsCall(r)
  PROVE  /\ IsCall(NextChunk(r)) /\ NextChunk(r).pc = r.pc /\ NextChunk(r).job = r.job
         /\ NextChunk(r).step = r.step /\ NextChunk(r).chunk = r.chunk + 1
<1>1. PICK V : r \in CallsOf(V)
  BY DEF IsCall
<1>2. NextChunk(r) \in CallsOf(V)
  BY <1>1 DEF NextChunk, CallsOf
<1>3. /\ NextChunk(r).pc = r.pc /\ NextChunk(r).job = r.job
      /\ NextChunk(r).step = r.step /\ NextChunk(r).chunk = r.chunk + 1
  BY <1>1 DEF NextChunk, CallsOf
<1> QED
  BY <1>2, <1>3 DEF IsCall

LEMMA AgainIs ==
  ASSUME NEW r, IsCall(r), r.attempt < Retry
  PROVE  /\ IsCall(Again(r)) /\ Again(r).pc = r.pc /\ Again(r).job = r.job
         /\ Again(r).step = r.step /\ Again(r).chunk = 1
<1>1. PICK V : r \in CallsOf(V)
  BY DEF IsCall
<1>2. Again(r) \in CallsOf(V)
  <2> DEFINE m == r.attempt + 1
             A == 1 .. Retry
             B == Nat \ {0}
  <2>1. m \in A /\ 1 \in B
    BY <1>1, BoundsAssumption DEF CallsOf
  <2>2. Again(r) = [r EXCEPT !.chunk = 1, !.attempt = m]
    BY DEF Again
  <2>3. r \in [pc : Pcs, job : V, step : B, chunk : B, attempt : A, result : Results]
    BY <1>1 DEF CallsOf
  <2> HIDE DEF m, A, B
  <2>4. Again(r) \in [pc : Pcs, job : V, step : B, chunk : B, attempt : A, result : Results]
    BY <2>1, <2>2, <2>3
  <2> QED
    BY <2>4 DEF CallsOf, A, B
<1>3. /\ Again(r).pc = r.pc /\ Again(r).job = r.job
      /\ Again(r).step = r.step /\ Again(r).chunk = 1
  BY <1>1 DEF Again, CallsOf
<1> QED
  BY <1>2, <1>3 DEF IsCall

LEMMA FollowIs ==
  ASSUME NEW steps, GoodSteps(steps), NEW next, GoodJob(next), Plain(next), next.steps # <<>>
  PROVE  LET r == Follow(steps, next)
         IN  /\ IsCall(r) /\ r.pc = "lock" /\ r.chunk = 1
             /\ r.step = Len(steps) + 1 /\ Len(steps) + 1 \in 1 .. Len(r.job.steps)
             /\ GoodJob(r.job) /\ Plain(r.job)
             /\ \A k \in 1 .. Len(steps) : r.job.steps[k] = steps[k]
<1> DEFINE all == steps \o next.steps
           job == [next EXCEPT !.steps = all]
           r == Follow(steps, next)
<1>1. PICK V : next \in JobsOf(V)
  BY DEF GoodJob, IsJob
<1>2. next \in JobsOf(V \cup {all})
  BY <1>1 DEF JobsOf
<1>3. job \in JobsOf(V \cup {all}) /\ job.steps = all /\ job.then = next.then
      /\ job.back = next.back /\ job.clock = next.clock
  <2> HIDE DEF all
  <2> QED
    BY <1>2 DEF JobsOf
<1>4. GoodSteps(all)
  BY StepsConcat DEF GoodJob
<1>5. GoodJob(job) /\ Plain(job)
  BY <1>3, <1>4 DEF GoodJob, IsJob, Plain
<1>6. Len(steps) \in Nat /\ Len(next.steps) \in Nat /\ Len(next.steps) > 0
  <2>1. PICK S : next.steps \in Seq(S)
    BY DEF GoodJob, GoodSteps, IsSeq
  <2> QED
    BY <2>1, SeqLen DEF GoodSteps
<1>7. Len(all) = Len(steps) + Len(next.steps) /\ \A k \in 1 .. Len(steps) : all[k] = steps[k]
  BY SeqConcat DEF GoodJob, GoodSteps
<1>8. r = [Free("none") EXCEPT !.pc = "lock", !.step = Len(steps) + 1, !.job = job]
  BY DEF Follow
<1> HIDE DEF all, job, r
<1>9. Free("none") \in CallsOf({None, job}) /\ Free("none").chunk = 1
  BY BoundsAssumption DEF Free, CallsOf, Pcs, Results
<1>10. r \in CallsOf({None, job})
  <2> DEFINE m == Len(steps) + 1
             A == 1 .. Retry
             B == Nat \ {0}
  <2>1. m \in B
    BY <1>6
  <2>2. Free("none") \in [pc : Pcs, job : {None, job}, step : B, chunk : B, attempt : A, result : Results]
    BY <1>9 DEF CallsOf
  <2> HIDE DEF m, A, B
  <2>3. r \in [pc : Pcs, job : {None, job}, step : B, chunk : B, attempt : A, result : Results]
    BY <1>8, <2>1, <2>2 DEF Pcs, m
  <2> QED
    BY <2>3 DEF CallsOf, A, B
<1>11. r.pc = "lock" /\ r.chunk = 1 /\ r.step = Len(steps) + 1 /\ r.job = job
  BY <1>6, <1>8, <1>9 DEF CallsOf
<1>12. /\ IsCall(r) /\ r.pc = "lock" /\ r.chunk = 1
       /\ r.step = Len(steps) + 1 /\ Len(steps) + 1 \in 1 .. Len(r.job.steps)
       /\ GoodJob(r.job) /\ Plain(r.job)
       /\ \A k \in 1 .. Len(steps) : r.job.steps[k] = steps[k]
  BY <1>3, <1>5, <1>6, <1>7, <1>10, <1>11 DEF IsCall
<1> QED
  BY <1>12 DEF r

\* Only the caller that steps changes.
LEMMA BecomeIs ==
  ASSUME call = [x \in Callers |-> call[x]], NEW c \in Callers, NEW next, Become(c, next)
  PROVE  /\ call' = [x \in Callers |-> call'[x]] /\ call'[c] = next
         /\ \A x \in Callers \ {c} : call'[x] = call[x]
BY DEF Become


-----------------------------------------------------------------------------
(***************************************************************************)
(* What becomes of the optimistic values: only one, of the caller's        *)
(* display, can be new.                                                    *)
(***************************************************************************)
Overlays(u, v, key, val) ==
  \A k \in Displays :
    \/ v.pend[k] = u.pend[k] \/ v.pend[k] = None
    \/ k = key /\ v.pend[k] = [val |-> val, old |-> FALSE]

LEMMA UiData == ASSUME NEW u, IsUi(u) PROVE u.data \in Data
BY DEF IsUi, UisOf

LEMMA UiGrows == ASSUME NEW V, NEW W, V \subseteq W, NEW u \in UisOf(V) PROVE u \in UisOf(W)
<1>1. Pending(V) \subseteq Pending(W)
  BY DEF Pending
<1>2. u.pend \in [Displays -> Pending(W)] /\ u.shown \in [Displays -> W] /\ u.data \in Data
  <2>1. u.pend \in [Displays -> Pending(V)] /\ u.shown \in [Displays -> V] /\ u.data \in Data
    BY DEF UisOf
  <2> QED
    BY <1>1, <2>1
<1> QED
  BY <1>2 DEF UisOf

LEMMA ToldIs ==
  ASSUME NEW u, IsUi(u), NEW d \in Data
  PROVE  /\ IsUi(Told(u, d)) /\ \A k \in Displays : Told(u, d).pend[k] \in {None, u.pend[k]}
<1>1. PICK V : u \in UisOf(V)
  BY DEF IsUi
<1> DEFINE p == [k \in Displays |-> IF Drops(k, u.pend[k], Confirms(k, d)) THEN None ELSE u.pend[k]]
           sh == [k \in Displays |-> IF p[k] = None THEN Display(k, d) ELSE Overlay(k, p[k].val, d)]
           W == V \cup {sh[k] : k \in Displays}
<1>2. u \in UisOf(W)
  BY <1>1, UiGrows
<1>3. \A k \in Displays : p[k] \in {None, u.pend[k]}
  OBVIOUS
<1>4. p = [k \in Displays |-> p[k]] /\ sh = [k \in Displays |-> sh[k]] /\ \A k \in Displays : sh[k] \in W
  OBVIOUS
<1>5. Told(u, d) = [data |-> d, pend |-> p, shown |-> sh]
  BY DEF Told
<1> HIDE DEF p, sh, W
<1>6. \A k \in Displays : u.pend[k] \in Pending(W) /\ None \in Pending(W)
  BY <1>2 DEF UisOf, Pending
<1>7. p \in [Displays -> Pending(W)]
  BY <1>3, <1>4, <1>6
<1>8. sh \in [Displays -> W]
  BY <1>4
<1>9. [data |-> d, pend |-> p, shown |-> sh] \in UisOf(W)
  BY <1>7, <1>8 DEF UisOf
<1> QED
  BY <1>3, <1>5, <1>9 DEF IsUi

LEMMA RecordedIs ==
  ASSUME NEW u, IsUi(u), NEW key, NEW val
  PROVE  IsUi(Recorded(u, key, val)) /\ Overlays(u, Recorded(u, key, val), key, val)
<1>1. PICK V : u \in UisOf(V)
  BY DEF IsUi
<1> DEFINE W == V \cup {val, Overlay(key, val, u.data)}
           new == [val |-> val, old |-> FALSE]
           p == [u.pend EXCEPT ![key] = new]
           sh == [u.shown EXCEPT ![key] = Overlay(key, val, u.data)]
           n == [u EXCEPT !.pend = p, !.shown = sh]
<1>2. u \in UisOf(W)
  BY <1>1, UiGrows
<1>3. u.pend \in [Displays -> Pending(W)] /\ u.shown \in [Displays -> W] /\ {val, Overlay(key, val, u.data)} \subseteq W
  BY <1>2 DEF UisOf
<1>4. new \in Pending(W)
  BY <1>3 DEF Pending
<1> HIDE DEF new, W
<1>5. p \in [Displays -> Pending(W)] /\ \A k \in Displays : p[k] = u.pend[k] \/ (k = key /\ p[k] = new)
  BY <1>3, <1>4
<1>6. sh \in [Displays -> W]
  BY <1>3
<1>7. Recorded(u, key, val) = n
  BY DEF Recorded, new
<1> HIDE DEF p, sh
<1>8. n \in UisOf(W) /\ n.pend = p
  BY <1>2, <1>5, <1>6 DEF UisOf
<1> QED
  BY <1>5, <1>7, <1>8 DEF IsUi, Overlays, new

LEMMA ForgottenIs ==
  ASSUME NEW u, IsUi(u), NEW job
  PROVE  IsUi(Forgotten(u, job)) /\ \A k \in Displays : Forgotten(u, job).pend[k] \in {None, u.pend[k]}
<1>1. PICK V : u \in UisOf(V)
  BY DEF IsUi
<1> DEFINE p == [u.pend EXCEPT ![job.forget] = None]
           n == [u EXCEPT !.pend = p]
<1>2. u.pend \in [Displays -> Pending(V)] /\ None \in Pending(V)
  BY <1>1 DEF UisOf, Pending
<1>3. p \in [Displays -> Pending(V)] /\ \A k \in Displays : p[k] \in {None, u.pend[k]}
  BY <1>2
<1> HIDE DEF p
<1>4. n \in UisOf(V) /\ n.pend = p
  BY <1>1, <1>3 DEF UisOf
<1>5. Forgotten(u, job) \in {u, n}
  BY DEF Forgotten, p
<1> HIDE DEF n
<1> QED
  BY <1>1, <1>3, <1>4, <1>5 DEF IsUi

LEMMA ZeroedIs ==
  ASSUME NEW u, IsUi(u), NEW r
  PROVE  IsUi([u EXCEPT !.data[r] = 0]) /\ [u EXCEPT !.data[r] = 0].pend = u.pend
<1>1. PICK V : u \in UisOf(V)
  BY DEF IsUi
<1> DEFINE d == [u.data EXCEPT ![r] = 0]
           n == [u EXCEPT !.data = d]
<1>2. 0 \in 0..WordMax
  BY DEF WordMax
<1>3. u.data \in Data
  BY <1>1 DEF UisOf
<1>4. d \in Data
  BY <1>2, <1>3 DEF Data
<1> HIDE DEF d
<1>5. n \in UisOf(V) /\ n.pend = u.pend
  BY <1>1, <1>4 DEF UisOf
<1> QED
  BY <1>5 DEF IsUi, d

LEMMA AfterIs ==
  ASSUME NEW u, IsUi(u), NEW job
  PROVE  IsUi(After(job, u)) /\ Overlays(u, After(job, u), job.key, job.val)
<1>1. Overlays(u, u, job.key, job.val)
  BY DEF Overlays
<1> DEFINE z == [u EXCEPT !.data[job.zero] = 0]
           r == Recorded(u, job.key, job.val)
<1>2. IsUi(z) /\ z.pend = u.pend
  BY ZeroedIs
<1>3. IsUi(r) /\ Overlays(u, r, job.key, job.val)
  BY RecordedIs
<1>4. After(job, u) \in {u, z, r}
  BY DEF After
<1> HIDE DEF z, r
<1>5. Overlays(u, z, job.key, job.val)
  BY <1>2 DEF Overlays
<1> QED
  BY <1>1, <1>2, <1>3, <1>4, <1>5

LEMMA BeforeIs ==
  ASSUME NEW u, IsUi(u), NEW job
  PROVE  IsUi(Before(job, u)) /\ Overlays(u, Before(job, u), job.key, job.val)
<1>1. Overlays(u, u, job.key, job.val)
  BY DEF Overlays
<1>2. IsUi(Recorded(u, job.key, job.val)) /\ Overlays(u, Recorded(u, job.key, job.val), job.key, job.val)
  BY RecordedIs
<1> QED
  BY <1>1, <1>2 DEF Before

LEMMA OverlaysChain ==
  ASSUME NEW u, NEW v, NEW w, NEW key, NEW val, Overlays(u, v, key, val), Overlays(v, w, key, val)
  PROVE  Overlays(u, w, key, val)
BY DEF Overlays

LEMMA OverlaysTold ==
  ASSUME NEW u, IsUi(u), NEW d \in Data, NEW key, NEW val
  PROVE  Overlays(u, Told(u, d), key, val)
BY ToldIs DEF Overlays


-----------------------------------------------------------------------------
(***************************************************************************)
(* The step of one caller.                                                 *)
(***************************************************************************)
Alone(c) == call' = [x \in Callers |-> call'[x]] /\ \A x \in Callers \ {c} : call'[x] = call[x]
AckedAlone(c) == acked' = [x \in Callers |-> acked'[x]] /\ \A x \in Callers \ {c} : acked'[x] = acked[x]
Done(c) == AckedTo(call[c].job.steps, Len(call[c].job.steps), acked'[c])
NoOverlay == \A k \in Displays : ui'.pend[k] = ui.pend[k] \/ ui'.pend[k] = None
Earned(c) ==
  /\ call[c].pc # "idle" /\ call'[c].pc = "idle" /\ call'[c].result = "ok" => Done(c)
  /\ NoOverlay \/ (call[c].pc # "idle" /\ Done(c) /\ Overlays(ui, ui', call[c].job.key, call[c].job.val))
Needs(r) == r.pc \in {"send", "back"}

LEMMA CallsStep ==
  ASSUME CallsOK, NEW c \in Callers, Alone(c), AckedAlone(c), CallOK(call'[c], acked'[c])
  PROVE  CallsOK'
BY DEF CallsOK, Alone, AckedAlone

LEMMA AckedSame == ASSUME CallsOK, acked' = acked, NEW c PROVE AckedAlone(c)
BY DEF CallsOK, AckedAlone

LEMMA LockStep ==
  ASSUME LockOK, NEW c \in Callers, Alone(c), poll'.pc = "read" <=> poll.pc = "read",
         \/ lock' = lock /\ (Needs(call'[c]) <=> Needs(call[c]))
         \/ lock = None /\ lock' = c /\ Needs(call'[c])
         \/ lock = c /\ lock' = None /\ ~Needs(call'[c])
  PROVE  LockOK'
<1>1. /\ lock \in {None, Poll} \cup Callers
      /\ \A x \in Callers : lock = x <=> Needs(call[x])
      /\ lock = Poll <=> poll.pc = "read"
  BY DEF LockOK, Needs
<1>2. \A x \in Callers \ {c} : Needs(call'[x]) <=> Needs(call[x])
  BY DEF Alone
<1>3. /\ lock' \in {None, Poll} \cup Callers
      /\ \A x \in Callers : lock' = x <=> Needs(call'[x])
      /\ lock' = Poll <=> poll'.pc = "read"
  <2>1. CASE lock' = lock /\ (Needs(call'[c]) <=> Needs(call[c]))
    BY <1>1, <1>2, <2>1
  <2>2. CASE lock = None /\ lock' = c /\ Needs(call'[c])
    BY <1>1, <1>2, <2>2, NamesAssumption
  <2>3. CASE lock = c /\ lock' = None /\ ~Needs(call'[c])
    BY <1>1, <1>2, <2>3, NamesAssumption
  <2> QED
    BY <2>1, <2>2, <2>3
<1> QED
  BY <1>3 DEF LockOK, Needs

LEMMA PollStep ==
  ASSUME PollOK, NEW c \in Callers, Alone(c), call[c].pc # "await", UNCHANGED refresh
  PROVE  PollOK'
<1>1. poll.by \in Callers => poll.by # c
  BY DEF PollOK
<1>2. poll' = poll /\ debounce' = debounce
  BY DEF refresh
<1>3. poll'.by \in Callers => call'[poll'.by].pc = "await"
  BY <1>1, <1>2 DEF PollOK, Alone
<1> QED
  BY <1>2, <1>3 DEF PollOK

LEMMA EndsOK ==
  ASSUME CallsOK, NEW c \in Callers, NEW result \in Results, Ends(c, result), NEW seen
  PROVE  Alone(c) /\ CallOK(call'[c], seen) /\ call'[c].pc = "idle" /\ call'[c].result = result
BY BecomeIs, FreeIs DEF Ends, CallsOK, CallOK, Alone

LEMMA DataOf == ASSUME Inv PROVE IsUi(ui) /\ ui.data \in Data
BY UiData DEF Inv

LEMMA AckedMore ==
  ASSUME NEW steps, NEW n, NEW m, NEW seen, AckedTo(steps, n, seen), n \in Nat, m \in Int, m <= n
  PROVE  AckedTo(steps, m, seen)
BY DEF AckedTo

LEMMA StepsOf ==
  ASSUME CallsOK, NEW c \in Callers, call[c].pc # "idle"
  PROVE  /\ IsCall(call[c]) /\ Working(call[c], acked[c]) /\ GoodJob(call[c].job)
         /\ Len(call[c].job.steps) \in Nat /\ call[c].step \in 1 .. Len(call[c].job.steps)
         /\ GoodStep(Step(c))
<1>1. IsCall(call[c]) /\ Working(call[c], acked[c])
  BY DEF CallsOK, CallOK
<1>2. GoodJob(call[c].job) /\ call[c].step \in 1 .. Len(call[c].job.steps)
  BY <1>1 DEF Working
<1>3. GoodSteps(call[c].job.steps)
  BY <1>2 DEF GoodJob
<1>4. Len(call[c].job.steps) \in Nat
  BY <1>3, SeqLen DEF GoodSteps
<1> QED
  BY <1>1, <1>2, <1>3, <1>4 DEF GoodSteps, Step

\* A refresh is requested: the caller waits for it, or is done.
LEMMA RefreshesOK ==
  ASSUME Inv, NEW c \in Callers, Needs(call[c]), Done(c), Refreshes(c)
  PROVE  /\ Alone(c) /\ CallOK(call'[c], acked'[c]) /\ ~Needs(call'[c])
         /\ IsUi(ui') /\ Earned(c) /\ PollOK' /\ (poll'.pc = "read" <=> poll.pc = "read")
<1> DEFINE job == call[c].job
           u == Before(job, ui)
<1>1. IsUi(ui) /\ ui.data \in Data /\ CallsOK /\ PollOK
  BY DataOf DEF Inv
<1>2. call[c].pc # "idle" /\ call[c].pc # "await"
  BY DEF Needs
<1>3. IsUi(u) /\ Overlays(ui, u, job.key, job.val) /\ u.data \in Data
  BY <1>1, BeforeIs, UiData
<1>4. CASE debounce = "idle" /\ poll.pc = "idle"
  <2>1. /\ poll' = [NoPoll EXCEPT !.pc = "wait", !.by = c] /\ debounce' = "running"
        /\ ui' = u /\ Become(c, Goes(call[c], "await"))
    BY <1>4 DEF Refreshes, Goto, Goes
  <2>2. Alone(c) /\ call'[c] = Goes(call[c], "await")
    BY <1>1, <2>1, BecomeIs DEF CallsOK, Alone
  <2>3. /\ IsCall(call'[c]) /\ call'[c].pc = "await" /\ call'[c].job = job
        /\ call'[c].step = call[c].step
    BY <1>1, <1>2, <2>2, StepsOf, GoesIs DEF Pcs
  <2>4. Working(call'[c], acked'[c])
    <3>1. GoodJob(job) /\ call[c].step \in 1 .. Len(job.steps) /\ Len(job.steps) \in Nat
      BY <1>1, <1>2, StepsOf
    <3>2. AckedTo(job.steps, Len(job.steps), acked'[c])
      BY DEF Done
    <3>3. AckedTo(job.steps, call[c].step - 1, acked'[c])
      BY <3>1, <3>2, AckedMore
    <3> QED
      BY <2>3, <3>1, <3>2, <3>3 DEF Working
  <2>5. PollOK'
    <3>1. poll' = [pc |-> "wait", by |-> c, read |-> None]
      BY <2>1 DEF NoPoll
    <3>2. poll' \in PollsOf
      BY <3>1 DEF PollsOf
    <3> QED
      BY <2>1, <2>3, <3>1, <3>2, NamesAssumption DEF PollOK
  <2>6. poll'.pc = "wait"
    BY <2>1 DEF NoPoll
  <2>7. Earned(c)
    BY <1>2, <1>3, <2>1 DEF Earned
  <2> QED
    BY <1>3, <1>4, <2>1, <2>2, <2>3, <2>4, <2>5, <2>6, <2>7 DEF CallOK, Needs
<1>5. CASE ~(debounce = "idle" /\ poll.pc = "idle")
  <2> DEFINE away == debounce = "idle" /\ poll.pc # "idle"
             v == IF away THEN Told(u, u.data) ELSE u
  <2>1. /\ debounce' = CASE away -> "cooling" [] debounce = "running" -> "running" [] OTHER -> "again"
        /\ ui' = After(job, v) /\ Ends(c, "ok") /\ poll' = poll
    BY <1>5 DEF Refreshes
  <2>2. Alone(c) /\ CallOK(call'[c], acked'[c]) /\ call'[c].pc = "idle"
    BY <1>1, <2>1, EndsOK DEF Results
  <2>3. IsUi(v) /\ Overlays(u, v, job.key, job.val)
    <3>1. IsUi(Told(u, u.data)) /\ Overlays(u, Told(u, u.data), job.key, job.val)
      BY <1>3, ToldIs, OverlaysTold
    <3>2. Overlays(u, u, job.key, job.val)
      BY DEF Overlays
    <3> QED
      BY <1>3, <3>1, <3>2
  <2> HIDE DEF v
  <2>4. IsUi(ui') /\ Overlays(v, ui', job.key, job.val)
    BY <2>1, <2>3, AfterIs
  <2>5. Overlays(ui, ui', job.key, job.val)
    <3>1. Overlays(ui, v, job.key, job.val)
      BY <1>3, <2>3, OverlaysChain
    <3> QED
      BY <2>4, <3>1, OverlaysChain
  <2>6. Earned(c)
    BY <1>2, <2>5 DEF Earned
  <2>7. PollOK'
    <3>1. debounce' \in {"idle", "running", "cooling", "again"} /\ (debounce' = "running" <=> debounce = "running")
      BY <1>1, <2>1 DEF PollOK
    <3>2. poll'.by \in Callers => call'[poll'.by].pc = "await"
      BY <1>1, <1>2, <2>1, <2>2 DEF PollOK, Alone
    <3> QED
      BY <1>1, <2>1, <3>1, <3>2 DEF PollOK
  <2> QED
    BY <2>1, <2>2, <2>4, <2>6, <2>7 DEF Needs
<1> QED
  BY <1>4, <1>5


LEMMA ContinuesOK ==
  ASSUME Inv, NEW c \in Callers, Needs(call[c]), Done(c), call[c].job.then # None, Continues(c)
  PROVE  /\ Alone(c) /\ CallOK(call'[c], acked'[c]) /\ ~Needs(call'[c])
         /\ IsUi(ui') /\ Earned(c)
<1> DEFINE steps == call[c].job.steps
           next == JobOf(call[c].job.then, ui.data)
<1>1. IsUi(ui) /\ ui.data \in Data /\ CallsOK
  BY DataOf DEF Inv
<1>2. call[c].pc # "idle"
  BY DEF Needs
<1>3. GoodSteps(steps) /\ FanFollows(call[c].job.then)
  BY <1>1, <1>2, StepsOf DEF GoodJob
<1>4. GoodJob(next) /\ Plain(next)
  BY <1>1, <1>3, LastJob
<1>5. /\ ui' = Forgotten(ui, next)
      /\ IF next.steps = <<>> THEN Ends(c, "failed") ELSE Become(c, Follow(steps, next))
  BY DEF Continues, Follow
<1> HIDE DEF next
<1>6. IsUi(ui') /\ NoOverlay
  BY <1>1, <1>5, ForgottenIs DEF NoOverlay
<1>7. CASE next.steps = <<>>
  <2>1. Alone(c) /\ CallOK(call'[c], acked'[c]) /\ call'[c].pc = "idle" /\ call'[c].result = "failed"
    BY <1>1, <1>5, <1>7, EndsOK DEF Results
  <2> QED
    BY <1>6, <2>1 DEF Needs, Earned
<1>8. CASE next.steps # <<>>
  <2> DEFINE r == Follow(steps, next)
  <2>1. /\ IsCall(r) /\ r.pc = "lock" /\ r.chunk = 1
        /\ r.step = Len(steps) + 1 /\ Len(steps) + 1 \in 1 .. Len(r.job.steps)
        /\ GoodJob(r.job)
        /\ \A k \in 1 .. Len(steps) : r.job.steps[k] = steps[k]
    BY <1>3, <1>4, <1>8, FollowIs
  <2>2. Alone(c) /\ call'[c] = r
    BY <1>1, <1>5, <1>8, BecomeIs DEF CallsOK, Alone
  <2>3. AckedTo(steps, Len(steps), acked'[c])
    BY DEF Done
  <2> HIDE DEF r
  <2>4. Len(steps) \in Nat
    BY <1>3, SeqLen DEF GoodSteps
  <2>5. r.step - 1 = Len(steps)
    BY <2>1, <2>4
  <2>6. AckedTo(r.job.steps, r.step - 1, acked'[c])
    BY <2>1, <2>3, <2>5 DEF AckedTo, Acked
  <2>7. Working(r, acked'[c])
    BY <2>1, <2>6 DEF Working
  <2> QED
    BY <1>6, <2>1, <2>2, <2>7 DEF CallOK, Needs, Earned
<1> QED
  BY <1>7, <1>8

\* The last word of a step is acknowledged.
LEMMA ConfirmedOK ==
  ASSUME Inv, NEW c \in Callers, call[c].pc = "send", AckedTo(call[c].job.steps, call[c].step, acked'[c]),
         Confirmed(c)
  PROVE  Alone(c) /\ CallOK(call'[c], acked'[c]) /\ IsUi(ui') /\ Earned(c) /\ PollOK' /\ LockOK'
<1> DEFINE job == call[c].job
           steps == call[c].job.steps
           k == call[c].step
<1>1. /\ CallsOK /\ PollOK /\ LockOK /\ IsUi(ui) /\ lock = c
      /\ Needs(call[c]) /\ call[c].pc # "idle" /\ call[c].pc # "await"
  BY DEF Inv, LockOK, Needs
<1>2. IsCall(call[c]) /\ GoodJob(job) /\ Len(steps) \in Nat /\ k \in 1 .. Len(steps)
  BY <1>1, StepsOf
<1>3. CASE job.back \/ job.clock
  <2>1. Become(c, Goes(call[c], "back")) /\ lock' = lock /\ ui' = ui /\ UNCHANGED refresh
    BY <1>3 DEF Confirmed, Goto, Goes
  <2>2. Alone(c) /\ call'[c] = Goes(call[c], "back")
    BY <1>1, <2>1, BecomeIs DEF CallsOK, Alone
  <2>3. IsCall(call'[c]) /\ call'[c].pc = "back" /\ call'[c].job = job /\ call'[c].step = k
    BY <1>2, <2>2, GoesIs DEF Pcs
  <2>4. Len(steps) = 1 /\ k = 1
    <3>1. Len(steps) = 1
      BY <1>2, <1>3, Zenon DEF GoodJob
    <3> QED
      BY <1>2, <3>1
  <2>5. AckedTo(steps, k - 1, acked'[c]) /\ AckedTo(steps, Len(steps), acked'[c])
    BY <2>4 DEF AckedTo
  <2>6. CallOK(call'[c], acked'[c])
    BY <1>2, <1>3, <2>3, <2>5 DEF CallOK, Working
  <2>7. Earned(c)
    BY <2>1, <2>3 DEF Earned, NoOverlay
  <2>8. PollOK'
    BY <1>1, <2>1, <2>2, PollStep
  <2>9. Needs(call'[c]) /\ poll' = poll
    BY <2>1, <2>3 DEF Needs, refresh
  <2>10. LockOK'
    BY <1>1, <2>1, <2>2, <2>9, LockStep
  <2> QED
    BY <1>1, <2>1, <2>2, <2>6, <2>7, <2>8, <2>10
<1>4. CASE ~(job.back \/ job.clock)
  <2>1. lock' = None
    BY <1>4 DEF Confirmed
  <2>2. CASE ~LastStep(c)
    <3>1. Become(c, NextStep(call[c])) /\ ui' = ui /\ UNCHANGED refresh
      BY <1>4, <2>2 DEF Confirmed, NextStep
    <3>2. Alone(c) /\ call'[c] = NextStep(call[c])
      BY <1>1, <3>1, BecomeIs DEF CallsOK, Alone
    <3>3. /\ IsCall(call'[c]) /\ call'[c].pc = "lock" /\ call'[c].job = job /\ call'[c].step = k + 1
          /\ call'[c].chunk = 1
      BY <1>2, <3>2, NextStepIs
    <3>4. k + 1 \in 1 .. Len(steps) /\ (k + 1) - 1 = k
      BY <1>2, <2>2 DEF LastStep
    <3>5. CallOK(call'[c], acked'[c])
      BY <1>2, <3>3, <3>4 DEF CallOK, Working
    <3>6. Earned(c)
      BY <3>1, <3>3 DEF Earned, NoOverlay
    <3>7. PollOK'
      BY <1>1, <3>1, <3>2, PollStep
    <3>8. ~Needs(call'[c]) /\ poll' = poll
      BY <3>1, <3>3 DEF Needs, refresh
    <3>9. LockOK'
      BY <1>1, <2>1, <3>2, <3>8, LockStep
    <3> QED
      BY <1>1, <3>1, <3>2, <3>5, <3>6, <3>7, <3>9
  <2>3. CASE LastStep(c)
    <3>1. Done(c)
      BY <2>3 DEF LastStep, Done
    <3>2. CASE job.then # None
      <4>1. Continues(c) /\ UNCHANGED refresh
        BY <1>4, <2>3, <3>2 DEF Confirmed
      <4>2. Alone(c) /\ CallOK(call'[c], acked'[c]) /\ ~Needs(call'[c]) /\ IsUi(ui') /\ Earned(c)
        BY <1>1, <3>1, <3>2, <4>1, ContinuesOK
      <4>3. PollOK' /\ poll' = poll
        BY <1>1, <4>1, <4>2, PollStep DEF refresh
      <4>4. LockOK'
        BY <1>1, <2>1, <4>2, <4>3, LockStep
      <4> QED
        BY <4>2, <4>3, <4>4
    <3>3. CASE job.then = None /\ job.refresh
      <4>1. Refreshes(c)
        BY <1>4, <2>3, <3>3 DEF Confirmed
      <4>2. /\ Alone(c) /\ CallOK(call'[c], acked'[c]) /\ ~Needs(call'[c])
            /\ IsUi(ui') /\ Earned(c) /\ PollOK' /\ (poll'.pc = "read" <=> poll.pc = "read")
        BY <1>1, <3>1, <4>1, RefreshesOK
      <4>3. LockOK'
        BY <1>1, <2>1, <4>2, LockStep
      <4> QED
        BY <4>2, <4>3
    <3>4. CASE job.then = None /\ ~job.refresh
      <4>1. Ends(c, "ok") /\ ui' = ui /\ UNCHANGED refresh
        BY <1>4, <2>3, <3>4 DEF Confirmed
      <4>2. Alone(c) /\ CallOK(call'[c], acked'[c]) /\ call'[c].pc = "idle"
        BY <1>1, <4>1, EndsOK DEF Results
      <4>3. Earned(c)
        BY <3>1, <4>1 DEF Earned, NoOverlay
      <4>4. PollOK' /\ poll' = poll
        BY <1>1, <4>1, <4>2, PollStep DEF refresh
      <4>5. LockOK'
        <5>1. ~Needs(call'[c])
          BY <4>2 DEF Needs
        <5> QED
          BY <1>1, <2>1, <4>2, <4>4, <5>1, LockStep
      <4> QED
        BY <1>1, <4>1, <4>2, <4>3, <4>4, <4>5
    <3> QED
      BY <3>2, <3>3, <3>4
  <2> QED
    BY <2>2, <2>3
<1> QED
  BY <1>3, <1>4


-----------------------------------------------------------------------------
(***************************************************************************)
(* What a request leaves in the unit.                                      *)
(***************************************************************************)
Request(c) == {Step(c).words[i] : i \in Chunks(Step(c))[call[c].chunk]}

LEMMA WrittenIs ==
  ASSUME Inv, NEW c \in Callers, call[c].pc = "send", Encodable(Request(c)),
         unit' \in {unit, Written(Request(c))}
  PROVE  unit' \in Data /\ BlocksAreWhole'
<1> DEFINE st == Step(c)
           words == Request(c)
           new == Written(words)
<1>1. unit \in Data /\ BlocksAreWhole /\ CallsOK
  BY DEF Inv
<1>2. CASE unit' = unit
  BY <1>1, <1>2 DEF BlocksAreWhole
<1>3. CASE unit' = new
  <2>1. GoodStep(st) /\ call[c].chunk \in 1 .. Len(Chunks(st))
    BY <1>1, StepsOf DEF Working, Step
  <2>2. \A w \in words : w.val \in 0..WordMax
    BY DEF Encodable
  <2>3. \A r \in Regs : \/ new[r] = unit[r] /\ ~\E w \in words : w.reg = r
                        \/ \E w \in words : w.reg = r /\ new[r] = w.val
    BY DEF Written
  <2>4. new = [r \in Regs |-> new[r]]
    BY DEF Written
  <2> HIDE DEF new, words
  <2>5. \A r \in Regs : unit[r] \in 0..WordMax
    BY <1>1 DEF Data
  <2>6. new \in Data
    BY <2>2, <2>3, <2>4, <2>5 DEF Data
  <2>7. ASSUME NEW b \in Blocks, NEW r \in b, NEW s \in b
        PROVE  new[r] = Initial[r] <=> new[s] = Initial[s]
    <3>1. r \in Regs /\ s \in Regs /\ Initial[r] = 0 /\ Initial[s] = 0
      BY BlocksAssumption
    <3>2. CASE Spares(st, b)
      <4>1. \A w \in words : w.reg \notin b
        BY <2>1, <3>2, ChunksCover DEF Spares, words, Request
      <4>2. new[r] = unit[r] /\ new[s] = unit[s]
        BY <2>3, <3>1, <4>1
      <4> QED
        BY <1>1, <4>2 DEF BlocksAreWhole
    <3>3. CASE Fills(st, b)
      <4>1. Chunks(st)[call[c].chunk] = 1 .. Len(st.words)
        BY <2>1, <3>3, ChunksCover DEF Fills
      <4>2. words = {st.words[i] : i \in 1 .. Len(st.words)}
        BY <4>1 DEF words, Request
      <4>3. (\E w \in words : w.reg = r) /\ (\E w \in words : w.reg = s) /\ \A w \in words : w.val # 0
        BY <3>3, <4>2 DEF Fills
      <4>4. new[r] # 0 /\ new[s] # 0
        BY <2>3, <3>1, <4>3
      <4> QED
        BY <3>1, <4>4
    <3> QED
      BY <2>1, <3>2, <3>3 DEF GoodStep
  <2> QED
    BY <1>3, <2>6, <2>7 DEF BlocksAreWhole
<1> QED
  BY <1>2, <1>3

-----------------------------------------------------------------------------
(***************************************************************************)
(* A caller's actions.                                                     *)
(***************************************************************************)
CallerStep(c) ==
  /\ Alone(c) /\ AckedAlone(c) /\ CallOK(call'[c], acked'[c]) /\ IsUi(ui') /\ Earned(c)
  /\ PollOK' /\ LockOK' /\ unit' \in Data /\ BlocksAreWhole'

LEMMA SameUnit == ASSUME Inv, unit' = unit PROVE unit' \in Data /\ BlocksAreWhole'
BY DEF Inv, BlocksAreWhole

\* A call ends without success; its lock is given back if it has it.
LEMMA EndsStep ==
  ASSUME Inv, NEW c \in Callers, call[c].pc # "await", NEW result \in Results \ {"ok"}, Ends(c, result),
         UNCHANGED <<ui, refresh>>, AckedAlone(c),
         \/ lock' = lock /\ ~Needs(call[c])
         \/ lock' = None /\ Needs(call[c])
  PROVE  Alone(c) /\ CallOK(call'[c], acked'[c]) /\ IsUi(ui') /\ Earned(c) /\ PollOK' /\ LockOK'
<1>1. CallsOK /\ PollOK /\ LockOK /\ IsUi(ui) /\ ui' = ui /\ UNCHANGED refresh /\ poll' = poll
  BY DEF Inv, refresh
<1>2. Alone(c) /\ CallOK(call'[c], acked'[c]) /\ call'[c].pc = "idle" /\ call'[c].result # "ok"
  BY <1>1, EndsOK
<1>3. Earned(c)
  BY <1>1, <1>2 DEF Earned, NoOverlay
<1>4. PollOK'
  BY <1>1, <1>2, PollStep
<1>5. ~Needs(call'[c])
  BY <1>2 DEF Needs
<1>6. Needs(call[c]) => lock = c
  BY <1>1 DEF LockOK, Needs
<1>7. LockOK'
  BY <1>1, <1>2, <1>5, <1>6, LockStep
<1> QED
  BY <1>1, <1>2, <1>3, <1>4, <1>7

LEMMA StartStep ==
  ASSUME Inv, NEW c \in Callers, NEW cmd \in CommandsOf[c], Start(c, cmd)
  PROVE  CallerStep(c)
<1> DEFINE job == JobOf(cmd, ui.data)
<1>1. /\ CallsOK /\ PollOK /\ LockOK /\ IsUi(ui) /\ ui.data \in Data
  BY DataOf DEF Inv
<1>2. GoodJob(job)
  BY <1>1, CommandsAssumption, JobsAreGood
<1>3. /\ call[c].pc = "idle" /\ ui' = Forgotten(ui, job)
      /\ IF job.steps = <<>> THEN Ends(c, "refused") ELSE Become(c, Begins(job))
      /\ acked' = [acked EXCEPT ![c] = {}]
      /\ unit' = unit /\ lock' = lock /\ UNCHANGED refresh /\ poll' = poll
  BY DEF Start, At, Begins, refresh
<1> HIDE DEF job
<1>4. IsUi(ui') /\ NoOverlay
  BY <1>1, <1>3, ForgottenIs DEF NoOverlay
<1>5. AckedAlone(c)
  BY <1>1, <1>3 DEF CallsOK, AckedAlone
<1>6. Earned(c)
  BY <1>3, <1>4 DEF Earned
<1>7. Alone(c) /\ CallOK(call'[c], acked'[c]) /\ ~Needs(call'[c])
  <2>1. CASE job.steps = <<>>
    <3>1. Ends(c, "refused")
      BY <1>3, <2>1
    <3> QED
      BY <1>1, <3>1, EndsOK DEF Results, Needs
  <2>2. CASE job.steps # <<>>
    <3>1. Alone(c) /\ call'[c] = Begins(job)
      BY <1>1, <1>3, <2>2, BecomeIs DEF CallsOK, Alone
    <3>2. /\ IsCall(call'[c]) /\ call'[c].pc = "lock" /\ call'[c].job = job
          /\ call'[c].step = 1 /\ call'[c].chunk = 1
      BY <3>1, BeginsIs
    <3>3. Len(job.steps) \in Nat /\ Len(job.steps) > 0
      <4>1. PICK S : job.steps \in Seq(S)
        BY <1>2 DEF GoodJob, GoodSteps, IsSeq
      <4> QED
        BY <2>2, <4>1
    <3>4. AckedTo(job.steps, 1 - 1, acked'[c])
      BY DEF AckedTo
    <3>5. 1 \in 1 .. Len(job.steps)
      BY <3>3
    <3>6. Working(call'[c], acked'[c])
      BY <1>2, <3>2, <3>4, <3>5 DEF Working
    <3> QED
      BY <3>1, <3>2, <3>6 DEF CallOK, Needs
  <2> QED
    BY <2>1, <2>2
<1>8. PollOK'
  BY <1>1, <1>3, <1>7, PollStep
<1>9. LockOK'
  <2>1. ~Needs(call[c])
    BY <1>3 DEF Needs
  <2> QED
    BY <1>1, <1>3, <1>7, <2>1, LockStep
<1> QED
  BY <1>3, <1>4, <1>5, <1>6, <1>7, <1>8, <1>9, SameUnit DEF CallerStep

LEMMA AcquireStep == ASSUME Inv, NEW c \in Callers, Acquire(c) PROVE CallerStep(c)
<1>1. CallsOK /\ PollOK /\ LockOK /\ IsUi(ui)
  BY DEF Inv
<1>2. /\ call[c].pc = "lock" /\ lock = None /\ lock' = c /\ Become(c, Goes(call[c], "send"))
      /\ unit' = unit /\ ui' = ui /\ acked' = acked /\ UNCHANGED refresh /\ poll' = poll
  BY DEF Acquire, At, Goto, Goes, refresh
<1>3. /\ IsCall(call[c]) /\ Working(call[c], acked[c]) /\ GoodJob(call[c].job)
      /\ call[c].step \in 1 .. Len(call[c].job.steps) /\ GoodStep(Step(c))
  BY <1>1, <1>2, StepsOf
<1>4. Alone(c) /\ call'[c] = Goes(call[c], "send")
  BY <1>1, <1>2, BecomeIs DEF CallsOK, Alone
<1>5. /\ IsCall(call'[c]) /\ call'[c].pc = "send" /\ call'[c].job = call[c].job
      /\ call'[c].step = call[c].step /\ call'[c].chunk = call[c].chunk
  BY <1>3, <1>4, GoesIs DEF Pcs
<1>6. call[c].chunk = 1 /\ AckedTo(call[c].job.steps, call[c].step - 1, acked[c])
  BY <1>2, <1>3 DEF Working
<1>7. 1 \in 1 .. Len(Chunks(Step(c))) /\ ChunksAcked(Step(c), call[c].step, 1 - 1, acked[c])
  BY <1>3, ChunksCover DEF ChunksAcked
<1>8. CallOK(call'[c], acked'[c])
  BY <1>2, <1>3, <1>5, <1>6, <1>7 DEF CallOK, Working, Step
<1>9. Earned(c)
  BY <1>2, <1>5 DEF Earned, NoOverlay
<1>10. PollOK'
  BY <1>1, <1>2, <1>4, PollStep
<1>11. Needs(call'[c])
  BY <1>5 DEF Needs
<1>12. LockOK'
  BY <1>1, <1>2, <1>4, <1>11, LockStep
<1> QED
  BY <1>1, <1>2, <1>4, <1>8, <1>9, <1>10, <1>12, AckedSame, SameUnit DEF CallerStep

LEMMA NotWrittenStep == ASSUME Inv, NEW c \in Callers, NotWritten(c) PROVE CallerStep(c)
<1>1. /\ call[c].pc = "lock" /\ Ends(c, "failed") /\ lock' = lock
      /\ unit' = unit /\ ui' = ui /\ acked' = acked /\ UNCHANGED refresh
  BY DEF NotWritten, At
<1>2. AckedAlone(c)
  BY <1>1, AckedSame DEF Inv
<1>3. ~Needs(call[c]) /\ "failed" \in Results \ {"ok"} /\ UNCHANGED <<ui, refresh>>
  BY <1>1 DEF Needs, Results
<1> QED
  BY <1>1, <1>2, <1>3, EndsStep, SameUnit DEF CallerStep

LEMMA EscapesStep == ASSUME Inv, NEW c \in Callers, Escapes(c) PROVE CallerStep(c)
<1>1. /\ call[c].pc = "send" /\ Ends(c, "failed") /\ lock' = None
      /\ unit' = unit /\ ui' = ui /\ acked' = acked /\ UNCHANGED refresh
  BY DEF Escapes, At
<1>2. AckedAlone(c)
  BY <1>1, AckedSame DEF Inv
<1>3. Needs(call[c]) /\ "failed" \in Results \ {"ok"} /\ UNCHANGED <<ui, refresh>>
  BY <1>1 DEF Needs, Results
<1> QED
  BY <1>1, <1>2, <1>3, EndsStep, SameUnit DEF CallerStep


\* A request is acknowledged: the next chunk follows, or the step is complete.
LEMMA AcceptedStep ==
  ASSUME Inv, NEW c \in Callers, call[c].pc = "send", Encodable(Request(c)), unit' = Written(Request(c)),
         acked' = [acked EXCEPT ![c] = @ \cup {<<call[c].step, i>> : i \in Chunks(Step(c))[call[c].chunk]}],
         IF call[c].chunk < Len(Chunks(Step(c)))
         THEN Become(c, NextChunk(call[c])) /\ UNCHANGED <<ui, lock, refresh>>
         ELSE Confirmed(c)
  PROVE  CallerStep(c)
<1> DEFINE st == Step(c)
           k == call[c].step
           n == call[c].chunk
           steps == call[c].job.steps
           new == {<<k, i>> : i \in Chunks(st)[n]}
<1>1. CallsOK /\ PollOK /\ LockOK /\ IsUi(ui) /\ call[c].pc # "idle" /\ call[c].pc # "await"
  BY DEF Inv
<1>2. /\ IsCall(call[c]) /\ Working(call[c], acked[c]) /\ GoodJob(call[c].job) /\ Len(steps) \in Nat
      /\ k \in 1 .. Len(steps) /\ GoodStep(st) /\ st = steps[k]
  BY <1>1, StepsOf DEF Step
<1>3. /\ n \in 1 .. Len(Chunks(st)) /\ ChunksAcked(st, k, n - 1, acked[c]) /\ AckedTo(steps, k - 1, acked[c])
  BY <1>2 DEF Working
<1>4. Len(Chunks(st)) \in Nat
  BY <1>2, ChunksCover
<1>5. AckedAlone(c) /\ acked'[c] = acked[c] \cup new
  BY <1>1 DEF CallsOK, AckedAlone
<1>6. ChunksAcked(st, k, n, acked'[c])
  <2>1. ASSUME NEW j \in 1 .. n, NEW i \in Chunks(st)[j] PROVE <<k, i>> \in acked'[c]
    <3>1. CASE j = n
      BY <1>5, <2>1, <3>1
    <3>2. CASE j # n
      <4>1. j \in 1 .. (n - 1)
        BY <1>3, <3>2
      <4> QED
        BY <1>3, <1>5, <2>1, <4>1 DEF ChunksAcked
    <3> QED
      BY <3>1, <3>2
  <2> QED
    BY <2>1 DEF ChunksAcked
<1>7. AckedTo(steps, k - 1, acked'[c])
  BY <1>3, <1>5 DEF AckedTo, Acked
<1>8. unit' \in Data /\ BlocksAreWhole'
  BY WrittenIs
<1> HIDE DEF new, st
<1>9. CASE n < Len(Chunks(st))
  <2>1. Become(c, NextChunk(call[c])) /\ UNCHANGED <<ui, lock, refresh>>
    BY <1>9 DEF st
  <2>2. Alone(c) /\ call'[c] = NextChunk(call[c])
    BY <1>1, <2>1, BecomeIs DEF CallsOK, Alone
  <2>3. /\ IsCall(call'[c]) /\ call'[c].pc = "send" /\ call'[c].job = call[c].job
        /\ call'[c].step = k /\ call'[c].chunk = n + 1
    BY <1>2, <2>2, NextChunkIs
  <2>4. n + 1 \in 1 .. Len(Chunks(st)) /\ (n + 1) - 1 = n
    BY <1>3, <1>4, <1>9
  <2>5. CallOK(call'[c], acked'[c])
    BY <1>2, <1>6, <1>7, <2>3, <2>4 DEF CallOK, Working
  <2>6. Earned(c)
    BY <2>1, <2>3 DEF Earned, NoOverlay
  <2>7. PollOK' /\ poll' = poll
    BY <1>1, <2>1, <2>2, PollStep DEF refresh
  <2>8. Needs(call'[c]) /\ Needs(call[c])
    BY <2>3 DEF Needs
  <2>9. LockOK'
    BY <1>1, <2>1, <2>2, <2>7, <2>8, LockStep
  <2> QED
    BY <1>1, <1>5, <1>8, <2>1, <2>2, <2>5, <2>6, <2>7, <2>9 DEF CallerStep
<1>10. CASE ~(n < Len(Chunks(st)))
  <2>1. Confirmed(c)
    BY <1>10 DEF st
  <2>2. n = Len(Chunks(st))
    BY <1>3, <1>4, <1>10
  <2>3. Acked(steps, k, acked'[c])
    <3>1. \A i \in 1 .. Len(st.words) : \E j \in 1 .. n : i \in Chunks(st)[j]
      BY <1>2, <2>2, ChunksCover
    <3> QED
      BY <1>2, <1>6, <3>1 DEF ChunksAcked, Acked
  <2>4. AckedTo(steps, k, acked'[c])
    <3>1. \A x \in 1 .. k : x \in 1 .. (k - 1) \/ x = k
      BY <1>2
    <3> QED
      BY <1>7, <2>3, <3>1 DEF AckedTo
  <2>5. Alone(c) /\ CallOK(call'[c], acked'[c]) /\ IsUi(ui') /\ Earned(c) /\ PollOK' /\ LockOK'
    BY <2>1, <2>4, ConfirmedOK
  <2> QED
    BY <1>5, <1>8, <2>5 DEF CallerStep
<1> QED
  BY <1>9, <1>10

LEMMA RetriesStep ==
  ASSUME Inv, NEW c \in Callers, call[c].pc = "send", call[c].attempt < Retry, Retries(c), acked' = acked
  PROVE  Alone(c) /\ CallOK(call'[c], acked'[c]) /\ IsUi(ui') /\ Earned(c) /\ PollOK' /\ LockOK'
<1>1. CallsOK /\ PollOK /\ LockOK /\ IsUi(ui) /\ call[c].pc # "idle" /\ call[c].pc # "await"
  BY DEF Inv
<1>2. /\ Become(c, Again(call[c])) /\ ui' = ui /\ lock' = lock /\ UNCHANGED refresh /\ poll' = poll
  BY DEF Retries, Again, refresh
<1>3. /\ IsCall(call[c]) /\ Working(call[c], acked[c]) /\ GoodStep(Step(c))
      /\ Step(c) = call[c].job.steps[call[c].step]
  BY <1>1, StepsOf DEF Step
<1>4. Alone(c) /\ call'[c] = Again(call[c])
  BY <1>1, <1>2, BecomeIs DEF CallsOK, Alone
<1>5. /\ IsCall(call'[c]) /\ call'[c].pc = "send" /\ call'[c].job = call[c].job
      /\ call'[c].step = call[c].step /\ call'[c].chunk = 1
  BY <1>3, <1>4, AgainIs
<1>6. 1 \in 1 .. Len(Chunks(Step(c))) /\ ChunksAcked(Step(c), call[c].step, 1 - 1, acked[c])
  BY <1>3, ChunksCover DEF ChunksAcked
<1>7. CallOK(call'[c], acked'[c])
  BY <1>3, <1>5, <1>6 DEF CallOK, Working
<1>8. Earned(c)
  BY <1>2, <1>5 DEF Earned, NoOverlay
<1>9. PollOK'
  BY <1>1, <1>2, <1>4, PollStep
<1>10. Needs(call'[c]) /\ Needs(call[c])
  BY <1>5 DEF Needs
<1>11. LockOK'
  BY <1>1, <1>2, <1>4, <1>10, LockStep
<1> QED
  BY <1>1, <1>2, <1>4, <1>7, <1>8, <1>9, <1>11

LEMMA SendStep == ASSUME Inv, NEW c \in Callers, Send(c) PROVE CallerStep(c)
<1>1. call[c].pc = "send" /\ Encodable(Request(c))
  BY DEF Send, At, Request
<1>2. CASE /\ unit' = Written(Request(c))
           /\ acked' = [acked EXCEPT ![c] = @ \cup {<<call[c].step, i>> : i \in Chunks(Step(c))[call[c].chunk]}]
           /\ IF call[c].chunk < Len(Chunks(Step(c)))
              THEN Become(c, NextChunk(call[c])) /\ UNCHANGED <<ui, lock, refresh>>
              ELSE Confirmed(c)
  BY <1>1, <1>2, AcceptedStep
<1>3. CASE /\ unit' \in {unit, Written(Request(c))} /\ acked' = acked
           /\ (call[c].attempt < Retry /\ Retries(c)) \/ GivesUp(c)
  <2>1. unit' \in Data /\ BlocksAreWhole' /\ AckedAlone(c)
    BY <1>1, <1>3, WrittenIs, AckedSame DEF Inv
  <2>2. CASE call[c].attempt < Retry /\ Retries(c)
    BY <1>1, <1>3, <2>1, <2>2, RetriesStep DEF CallerStep
  <2>3. CASE GivesUp(c)
    <3>1. /\ Ends(c, "failed") /\ UNCHANGED <<ui, refresh>> /\ lock' = None
          /\ Needs(call[c]) /\ "failed" \in Results \ {"ok"}
      BY <1>1, <2>3 DEF GivesUp, Needs, Results
    <3> QED
      BY <1>1, <2>1, <3>1, EndsStep DEF CallerStep
  <2> QED
    BY <1>3, <2>2, <2>3
<1> QED
  BY <1>2, <1>3 DEF Send, Request, NextChunk

LEMMA ReadsBackStep == ASSUME Inv, NEW c \in Callers, ReadsBack(c) PROVE CallerStep(c)
<1> DEFINE job == call[c].job
           r == job.steps[1].words[1].reg
           d == [ui.data EXCEPT ![r] = unit[r]]
<1>1. CallsOK /\ PollOK /\ LockOK /\ IsUi(ui) /\ ui.data \in Data /\ unit \in Data
  BY DataOf DEF Inv
<1>2. call[c].pc = "back" /\ lock' = None /\ unit' = unit /\ acked' = acked
  BY DEF ReadsBack, At
<1>3. Needs(call[c]) /\ lock = c /\ call[c].pc # "idle" /\ call[c].pc # "await"
  BY <1>1, <1>2 DEF Needs, LockOK
<1>4. Done(c)
  BY <1>1, <1>2, <1>3, StepsOf DEF Working, Done
<1>5. AckedAlone(c)
  BY <1>1, <1>2, AckedSame
<1>6. CASE /\ ui' = After(job, Told(ui, d)) /\ debounce' = Calm /\ Ends(c, "ok") /\ poll' = poll
  <2>1. d \in Data
    BY <1>1 DEF Data
  <2> HIDE DEF d
  <2>2. IsUi(Told(ui, d)) /\ Overlays(ui, Told(ui, d), job.key, job.val)
    BY <1>1, <2>1, ToldIs, OverlaysTold
  <2>3. IsUi(ui') /\ Overlays(Told(ui, d), ui', job.key, job.val)
    BY <1>6, <2>2, AfterIs
  <2>4. Overlays(ui, ui', job.key, job.val)
    BY <2>2, <2>3, OverlaysChain
  <2>5. Earned(c)
    BY <1>3, <1>4, <2>4 DEF Earned
  <2>6. Alone(c) /\ CallOK(call'[c], acked'[c]) /\ call'[c].pc = "idle"
    BY <1>1, <1>6, EndsOK DEF Results
  <2>7. PollOK'
    <3>1. poll.by \in Callers => call'[poll.by].pc = "await"
      BY <1>1, <1>3, <2>6 DEF PollOK, Alone
    <3>2. debounce' \in {"idle", "running"} /\ (debounce' = "running" <=> debounce = "running")
      BY <1>6 DEF Calm
    <3> QED
      BY <1>1, <1>6, <3>1, <3>2 DEF PollOK
  <2>8. ~Needs(call'[c])
    BY <2>6 DEF Needs
  <2>9. LockOK'
    BY <1>1, <1>2, <1>3, <1>6, <2>6, <2>8, LockStep
  <2> QED
    BY <1>2, <1>5, <2>3, <2>5, <2>6, <2>7, <2>9, SameUnit DEF CallerStep
<1>7. CASE Refreshes(c)
  <2>1. /\ Alone(c) /\ CallOK(call'[c], acked'[c]) /\ ~Needs(call'[c])
        /\ IsUi(ui') /\ Earned(c) /\ PollOK' /\ (poll'.pc = "read" <=> poll.pc = "read")
    BY <1>3, <1>4, <1>7, RefreshesOK
  <2>2. LockOK'
    BY <1>1, <1>2, <1>3, <2>1, LockStep
  <2> QED
    BY <1>2, <1>5, <2>1, <2>2, SameUnit DEF CallerStep
<1> QED
  BY <1>6, <1>7 DEF ReadsBack

LEMMA ReadsClockStep == ASSUME Inv, NEW c \in Callers, ReadsClock(c) PROVE CallerStep(c)
<1>1. CallsOK /\ PollOK /\ LockOK /\ IsUi(ui)
  BY DEF Inv
<1>2. PICK result \in {"ok", "failed"} : Ends(c, result)
  BY DEF ReadsClock
<1>3. /\ call[c].pc = "back" /\ lock' = None /\ unit' = unit /\ acked' = acked /\ ui' = ui
      /\ UNCHANGED refresh /\ poll' = poll
  BY DEF ReadsClock, At, refresh
<1>4. Needs(call[c]) /\ lock = c /\ call[c].pc # "idle" /\ call[c].pc # "await"
  BY <1>1, <1>3 DEF Needs, LockOK
<1>5. Done(c)
  BY <1>1, <1>3, <1>4, StepsOf DEF Working, Done
<1>6. AckedAlone(c)
  BY <1>1, <1>3, AckedSame
<1>7. Alone(c) /\ CallOK(call'[c], acked'[c]) /\ call'[c].pc = "idle"
  BY <1>1, <1>2, EndsOK DEF Results
<1>8. Earned(c)
  BY <1>3, <1>5 DEF Earned, NoOverlay
<1>9. PollOK'
  BY <1>1, <1>3, <1>4, <1>7, PollStep
<1>10. ~Needs(call'[c])
  BY <1>7 DEF Needs
<1>11. LockOK'
  BY <1>1, <1>3, <1>4, <1>7, <1>10, LockStep
<1> QED
  BY <1>1, <1>3, <1>6, <1>7, <1>8, <1>9, <1>11, SameUnit DEF CallerStep

LEMMA ResumeStep == ASSUME Inv, NEW c \in Callers, Resume(c) PROVE CallerStep(c)
<1>1. CallsOK /\ PollOK /\ LockOK /\ IsUi(ui)
  BY DEF Inv
<1>2. /\ call[c].pc = "resume" /\ ui' = After(call[c].job, ui) /\ Ends(c, "ok")
      /\ lock' = lock /\ unit' = unit /\ acked' = acked /\ UNCHANGED refresh /\ poll' = poll
  BY DEF Resume, At, refresh
<1>3. Done(c)
  BY <1>1, <1>2, StepsOf DEF Working, Done
<1>4. AckedAlone(c)
  BY <1>1, <1>2, AckedSame
<1>5. Alone(c) /\ CallOK(call'[c], acked'[c]) /\ call'[c].pc = "idle"
  BY <1>1, <1>2, EndsOK DEF Results
<1>6. IsUi(ui') /\ Overlays(ui, ui', call[c].job.key, call[c].job.val)
  BY <1>1, <1>2, AfterIs
<1>7. Earned(c)
  BY <1>2, <1>3, <1>6 DEF Earned
<1>8. PollOK'
  BY <1>1, <1>2, <1>5, PollStep
<1>9. ~Needs(call'[c]) /\ ~Needs(call[c])
  BY <1>2, <1>5 DEF Needs
<1>10. LockOK'
  BY <1>1, <1>2, <1>5, <1>9, LockStep
<1> QED
  BY <1>2, <1>4, <1>5, <1>6, <1>7, <1>8, <1>10, SameUnit DEF CallerStep


-----------------------------------------------------------------------------
(***************************************************************************)
(* The steps of everything else: the panel, the poll, the timers.          *)
(***************************************************************************)
SuccessStep ==
  \A c \in Callers :
    ~At(c, "idle") /\ call'[c].pc = "idle" /\ call'[c].result = "ok"
    => \A k \in 1..Len(call[c].job.steps) : AllAcked(c, k, acked'[c])
OverlayStep ==
  \A k \in Displays :
    ui'.pend[k] # ui.pend[k] /\ ui'.pend[k] # None /\ ~ui'.pend[k].old
    => \E c \in Callers :
         /\ ~At(c, "idle") /\ call[c].job.key = k /\ call[c].job.val = ui'.pend[k].val
         /\ \A i \in 1..Len(call[c].job.steps) : AllAcked(c, i, acked'[c])
Kept == Inv' /\ SuccessStep /\ OverlayStep

LEMMA CallerKeeps == ASSUME Inv, NEW c \in Callers, CallerStep(c) PROVE Kept
<1>1. Inv'
  BY CallsStep DEF CallerStep, Inv
<1>2. Alone(c) /\ Earned(c)
  BY DEF CallerStep
<1>3. Done(c) => \A k \in 1..Len(call[c].job.steps) : AllAcked(c, k, acked'[c])
  BY DEF Done, AckedTo, Acked, AllAcked
<1>4. SuccessStep
  BY <1>2, <1>3 DEF SuccessStep, Earned, Alone, At
<1>5. OverlayStep
  <2>1. CASE NoOverlay
    BY <2>1 DEF NoOverlay, OverlayStep
  <2>2. CASE call[c].pc # "idle" /\ Done(c) /\ Overlays(ui, ui', call[c].job.key, call[c].job.val)
    <3>1. ASSUME NEW k \in Displays, ui'.pend[k] # ui.pend[k], ui'.pend[k] # None
          PROVE  call[c].job.key = k /\ call[c].job.val = ui'.pend[k].val
      <4>1. k = call[c].job.key /\ ui'.pend[k] = [val |-> call[c].job.val, old |-> FALSE]
        BY <2>2, <3>1 DEF Overlays
      <4> QED
        BY <4>1
    <3> QED
      BY <1>3, <2>2, <3>1 DEF OverlayStep, At
  <2> QED
    BY <1>2, <2>1, <2>2 DEF Earned
<1> QED
  BY <1>1, <1>4, <1>5 DEF Kept

\* When no call changes and no optimistic value is new, nothing is to be earned.
LEMMA QuietKeeps ==
  ASSUME Inv', NoOverlay, call' = call
  PROVE  Kept
BY DEF Kept, SuccessStep, OverlayStep, NoOverlay, At

LEMMA TickKeeps == ASSUME Inv, Tick PROVE Kept
<1>1. /\ poll.pc = "idle" /\ poll' = [pc |-> "wait", by |-> None, read |-> None] /\ debounce' = Calm
      /\ unit' = unit /\ ui' = ui /\ call' = call /\ acked' = acked /\ lock' = lock
  BY DEF Tick, NoPoll
<1>2. CallsOK' /\ BlocksAreWhole' /\ unit' \in Data /\ IsUi(ui')
  BY <1>1 DEF Inv, CallsOK, BlocksAreWhole
<1>3. PollOK'
  <2>1. poll' \in PollsOf
    BY <1>1 DEF PollsOf
  <2>2. debounce' = "idle"
    BY <1>1 DEF Inv, PollOK, Calm
  <2> QED
    BY <1>1, <2>1, <2>2, NamesAssumption DEF PollOK
<1>4. LockOK'
  BY <1>1 DEF Inv, LockOK
<1> QED
  BY <1>1, <1>2, <1>3, <1>4, QuietKeeps DEF Inv, NoOverlay

LEMMA CoolDownKeeps == ASSUME Inv, CoolDownEnds PROVE Kept
<1>1. /\ unit' = unit /\ call' = call /\ acked' = acked /\ lock' = lock
      /\ IsUi(ui) /\ ui.data \in Data
  BY DataOf DEF CoolDownEnds
<1>2. CallsOK' /\ BlocksAreWhole' /\ unit' \in Data
  BY <1>1 DEF Inv, CallsOK, BlocksAreWhole
<1>3. CASE debounce = "cooling" /\ debounce' = "idle" /\ UNCHANGED <<poll, ui>>
  <2>1. PollOK' /\ LockOK'
    BY <1>1, <1>3 DEF Inv, PollOK, LockOK
  <2> QED
    BY <1>1, <1>2, <1>3, <2>1, QuietKeeps DEF Inv, NoOverlay
<1>4. CASE /\ debounce = "again" /\ poll.pc = "idle"
           /\ debounce' = "running" /\ poll' = [NoPoll EXCEPT !.pc = "wait", !.by = Poll]
           /\ UNCHANGED ui
  <2>1. poll' = [pc |-> "wait", by |-> Poll, read |-> None]
    BY <1>4 DEF NoPoll
  <2>2. poll' \in PollsOf
    BY <2>1 DEF PollsOf
  <2>3. PollOK'
    BY <1>1, <1>4, <2>1, <2>2, NamesAssumption DEF PollOK
  <2>4. LockOK'
    BY <1>1, <1>4, <2>1 DEF Inv, LockOK
  <2> QED
    BY <1>1, <1>2, <1>4, <2>3, <2>4, QuietKeeps DEF Inv, NoOverlay
<1>5. CASE /\ debounce = "again" /\ poll.pc # "idle"
           /\ debounce' = "cooling" /\ ui' = Told(ui, ui.data) /\ UNCHANGED poll
  <2>1. PollOK' /\ LockOK'
    BY <1>1, <1>5 DEF Inv, PollOK, LockOK
  <2>2. IsUi(ui') /\ NoOverlay
    BY <1>1, <1>5, ToldIs DEF NoOverlay
  <2> QED
    BY <1>1, <1>2, <2>1, <2>2, QuietKeeps DEF Inv
<1> QED
  BY <1>3, <1>4, <1>5 DEF CoolDownEnds

LEMMA PollReadsKeeps == ASSUME Inv, PollReads PROVE Kept
<1>1. /\ poll.pc = "wait" /\ lock = None /\ lock' = Poll /\ poll' = [poll EXCEPT !.pc = "read", !.read = unit]
      /\ unit' = unit /\ ui' = ui /\ call' = call /\ acked' = acked /\ debounce' = debounce
  BY DEF PollReads
<1>2. CallsOK' /\ BlocksAreWhole' /\ unit' \in Data /\ IsUi(ui')
  BY <1>1 DEF Inv, CallsOK, BlocksAreWhole
<1>3. poll \in PollsOf /\ unit \in Data
  BY DEF Inv, PollOK
<1>4. poll' \in PollsOf /\ poll'.pc = "read" /\ poll'.read = unit /\ poll'.by = poll.by
  BY <1>1, <1>3 DEF PollsOf
<1>5. PollOK'
  BY <1>1, <1>3, <1>4 DEF Inv, PollOK
<1>6. LockOK'
  BY <1>1, <1>4, NamesAssumption DEF Inv, LockOK
<1> QED
  BY <1>1, <1>2, <1>5, <1>6, QuietKeeps DEF Inv, NoOverlay

\* The caller that waits goes on, with what it has.
LEMMA ResumedOK ==
  ASSUME Inv, call' = Resumed, acked' = acked
  PROVE  /\ CallsOK'
         /\ \A c \in Callers :
              (call'[c].pc = "idle" => call[c].pc = "idle") /\ (Needs(call'[c]) => Needs(call[c]))
<1>1. CallsOK /\ PollOK
  BY DEF Inv
<1>2. CASE poll.by \in Callers
  <2> DEFINE c == poll.by
             r == Goes(call[c], "resume")
  <2>1. call' = [call EXCEPT ![c] = r]
    BY <1>2 DEF Resumed, Goes
  <2>2. call[c].pc = "await" /\ IsCall(call[c]) /\ Working(call[c], acked[c]) /\ c \in Callers
    BY <1>1, <1>2, StepsOf DEF PollOK
  <2>3. /\ IsCall(r) /\ r.pc = "resume" /\ r.job = call[c].job
        /\ r.step = call[c].step /\ r.chunk = call[c].chunk
    BY <2>2, GoesIs DEF Pcs
  <2>4. CallOK(r, acked[c])
    BY <2>2, <2>3 DEF CallOK, Working
  <2> HIDE DEF r, c
  <2>5. /\ call' = [x \in Callers |-> call'[x]] /\ call'[c] = r
        /\ \A x \in Callers \ {c} : call'[x] = call[x]
    BY <1>1, <2>1, <2>2 DEF CallsOK
  <2>6. CallsOK'
    BY <1>1, <2>4, <2>5 DEF CallsOK
  <2>7. /\ call'[c].pc # "idle" /\ call[c].pc # "idle" /\ ~Needs(call'[c]) /\ ~Needs(call[c])
    BY <2>2, <2>3, <2>5 DEF Needs
  <2>8. ASSUME NEW x \in Callers
        PROVE  (call'[x].pc = "idle" => call[x].pc = "idle") /\ (Needs(call'[x]) => Needs(call[x]))
    <3>1. CASE x = c
      BY <2>7, <3>1
    <3>2. CASE x # c
      <4>1. call'[x] = call[x]
        BY <2>5, <3>2
      <4> QED
        BY <4>1
    <3> QED
      BY <3>1, <3>2
  <2> QED
    BY <2>6, <2>8
<1>3. CASE poll.by \notin Callers
  <2>1. call' = call /\ acked' = acked
    BY <1>3 DEF Resumed
  <2>2. CallsOK'
    BY <1>1, <2>1 DEF CallsOK
  <2> QED
    BY <2>1, <2>2
<1> QED
  BY <1>2, <1>3

LEMMA PollEndsKeeps == ASSUME Inv, PollEnds PROVE Kept
<1>1. /\ poll.pc = "read" /\ ui' \in {ui, Told(ui, poll.read)} /\ lock' = None
      /\ poll' = [pc |-> "idle", by |-> None, read |-> None]
      /\ debounce' = (IF poll.by = None THEN debounce ELSE "cooling")
      /\ call' = Resumed /\ unit' = unit /\ acked' = acked
  BY DEF PollEnds, NoPoll
<1>2. CallsOK /\ PollOK /\ LockOK /\ IsUi(ui) /\ poll.read \in Data /\ lock = Poll
  BY <1>1 DEF Inv, PollOK, LockOK
<1>3. /\ CallsOK'
      /\ \A c \in Callers :
           (call'[c].pc = "idle" => call[c].pc = "idle") /\ (Needs(call'[c]) => Needs(call[c]))
  BY <1>1, ResumedOK
<1>4. IsUi(ui') /\ NoOverlay
  BY <1>1, <1>2, ToldIs DEF NoOverlay
<1>5. PollOK'
  <2>1. poll' \in PollsOf
    BY <1>1 DEF PollsOf
  <2>2. debounce' \in {"idle", "running", "cooling", "again"} /\ debounce' # "running"
    BY <1>1, <1>2 DEF PollOK
  <2> QED
    BY <1>1, <2>1, <2>2, NamesAssumption DEF PollOK
<1>6. LockOK'
  <2>1. \A c \in Callers : ~Needs(call[c])
    BY <1>2, NamesAssumption DEF LockOK, Needs
  <2>2. \A c \in Callers : call'[c].pc \notin {"send", "back"}
    BY <1>3, <2>1 DEF Needs
  <2>3. \A c \in Callers : None # c
    BY NamesAssumption
  <2> QED
    BY <1>1, <2>2, <2>3, NamesAssumption DEF LockOK
<1>7. Inv'
  BY <1>1, <1>3, <1>4, <1>5, <1>6, SameUnit DEF Inv
<1>8. SuccessStep
  <2>1. \A c \in Callers : call'[c].pc = "idle" => call[c].pc = "idle"
    BY <1>3
  <2> QED
    BY <2>1 DEF SuccessStep, At
<1>9. OverlayStep
  BY <1>4 DEF OverlayStep, NoOverlay
<1> QED
  BY <1>7, <1>8, <1>9 DEF Kept

\* Time passes for an optimistic value: it grows old.
LEMMA ExpireKeeps == ASSUME Inv, NEW k \in Displays, Expire(k) PROVE Kept
<1>1. /\ ui.pend[k] # None /\ ui' = [ui EXCEPT !.pend[k].old = TRUE]
      /\ unit' = unit /\ call' = call /\ acked' = acked /\ lock' = lock /\ poll' = poll /\ debounce' = debounce
  BY DEF Expire, refresh
<1>2. PICK V : ui \in UisOf(V)
  BY DEF Inv, IsUi
<1> DEFINE o == [ui.pend[k] EXCEPT !.old = TRUE]
           p == [ui.pend EXCEPT ![k] = o]
<1>3. ui.pend \in [Displays -> Pending(V)]
  BY <1>2 DEF UisOf
<1>4. ui.pend[k] \in [val : V, old : BOOLEAN]
  BY <1>1, <1>3 DEF Pending
<1>5. o \in Pending(V) /\ o.old = TRUE
  BY <1>4 DEF Pending
<1>6. ui' = [ui EXCEPT !.pend = p]
  BY <1>1
<1> HIDE DEF o
<1>7. p \in [Displays -> Pending(V)] /\ p[k] = o /\ \A x \in Displays \ {k} : p[x] = ui.pend[x]
  BY <1>3, <1>5
<1> HIDE DEF p
<1>8. ui' \in UisOf(V) /\ ui'.pend = p
  BY <1>2, <1>6, <1>7 DEF UisOf
<1>9. CallsOK' /\ PollOK' /\ LockOK' /\ BlocksAreWhole' /\ unit' \in Data /\ IsUi(ui')
  BY <1>1, <1>8 DEF Inv, CallsOK, PollOK, LockOK, BlocksAreWhole, IsUi
<1>10. OverlayStep
  BY <1>5, <1>7, <1>8 DEF OverlayStep
<1>11. SuccessStep
  BY <1>1 DEF SuccessStep, At
<1> QED
  BY <1>9, <1>10, <1>11 DEF Kept, Inv

\* Neither the panel nor a status register belongs to a block.
LEMMA OneRegister ==
  ASSUME Inv, NEW r \in DOMAIN Panel \cup DOMAIN Follows, NEW v \in 0..WordMax,
         unit' = [unit EXCEPT ![r] = v], UNCHANGED <<ui, call, acked, lock, refresh>>
  PROVE  Kept
<1>1. ui' = ui /\ call' = call /\ acked' = acked /\ lock' = lock /\ poll' = poll /\ debounce' = debounce
  BY DEF refresh
<1>2. unit' \in Data /\ \A s \in Regs \ {r} : unit'[s] = unit[s]
  BY DEF Inv, Data
<1>3. BlocksAreWhole'
  <2>1. \A b \in Blocks : \A s \in b : s \in Regs /\ s # r
    BY BlocksAssumption
  <2>2. \A b \in Blocks : \A s \in b : unit'[s] = unit[s]
    BY <1>2, <2>1
  <2>3. BlocksAreWhole
    BY DEF Inv
  <2> QED
    BY <2>2, <2>3 DEF BlocksAreWhole
<1>4. Inv'
  BY <1>1, <1>2, <1>3 DEF Inv, CallsOK, PollOK, LockOK
<1> QED
  BY <1>1, <1>4, QuietKeeps DEF NoOverlay

LEMMA TouchKeeps == ASSUME Inv, NEW r \in DOMAIN Panel, Touch(r) PROVE Kept
<1>1. PICK v \in Panel[r] : unit' = [unit EXCEPT ![r] = v]
  BY DEF Touch
<1>2. v \in 0..WordMax
  BY RegistersAssumption
<1> QED
  BY <1>1, <1>2, OneRegister DEF Touch

LEMMA CatchUpKeeps == ASSUME Inv, NEW r \in DOMAIN Follows, CatchUp(r) PROVE Kept
<1> DEFINE v == unit[Follows[r]]
<1>1. unit' = [unit EXCEPT ![r] = v] /\ UNCHANGED <<ui, call, acked, lock, refresh>>
  BY DEF CatchUp
<1>2. v \in 0..WordMax
  BY RegistersAssumption DEF Inv, Data
<1> HIDE DEF v
<1> QED
  BY <1>1, <1>2, OneRegister

-----------------------------------------------------------------------------
(***************************************************************************)
(* The theorems.                                                           *)
(***************************************************************************)
LEMMA InitInv == Init => Inv
<1> SUFFICES ASSUME Init PROVE Inv
  OBVIOUS
<1>1. /\ unit = Initial /\ call = [c \in Callers |-> Free("none")] /\ acked = [c \in Callers |-> {}]
      /\ lock = None /\ poll = [pc |-> "idle", by |-> None, read |-> None] /\ debounce = "idle"
  BY DEF Init, NoPoll
<1>2. unit \in Data
  BY <1>1, RegistersAssumption DEF Data
<1>3. IsUi(ui)
  <2> DEFINE V == {Display(k, Initial) : k \in Displays}
  <2>1. ui \in UisOf(V)
    BY <1>1, <1>2 DEF Init, UisOf, Pending
  <2> QED
    BY <2>1 DEF IsUi
<1>4. \A c \in Callers : call[c].pc = "idle" /\ CallOK(call[c], acked[c])
  BY <1>1, FreeIs DEF Results, CallOK
<1>5. CallsOK
  BY <1>1, <1>4 DEF CallsOK
<1>6. PollOK
  <2>1. poll \in PollsOf
    BY <1>1 DEF PollsOf
  <2> QED
    BY <1>1, <2>1, NamesAssumption DEF PollOK
<1>7. LockOK
  BY <1>1, <1>4, NamesAssumption DEF LockOK
<1>8. BlocksAreWhole
  BY <1>1 DEF BlocksAreWhole
<1> QED
  BY <1>2, <1>3, <1>5, <1>6, <1>7, <1>8 DEF Inv

LEMMA NextKeeps == Inv /\ [Next]_vars => Inv' /\ (UNCHANGED vars \/ Kept)
<1> SUFFICES ASSUME Inv, [Next]_vars PROVE Inv' /\ (UNCHANGED vars \/ Kept)
  OBVIOUS
<1>1. ASSUME NEW c \in Callers, CallNext(c) PROVE Kept
  <2>1. CallerStep(c)
    BY <1>1, AcquireStep, NotWrittenStep, EscapesStep, SendStep, ReadsBackStep, ReadsClockStep, ResumeStep
       DEF CallNext
  <2> QED
    BY <2>1, CallerKeeps
<1>2. ASSUME NEW c \in Callers, NEW cmd \in CommandsOf[c], Start(c, cmd) PROVE Kept
  BY <1>2, StartStep, CallerKeeps
<1>3. ASSUME PollNext PROVE Kept
  BY <1>3, TickKeeps, PollReadsKeeps, PollEndsKeeps DEF PollNext
<1>4. ASSUME CoolDownEnds PROVE Kept
  BY <1>4, CoolDownKeeps
<1>5. ASSUME NEW k \in Displays, Expire(k) PROVE Kept
  BY <1>5, ExpireKeeps
<1>6. ASSUME NEW r \in DOMAIN Panel, Touch(r) PROVE Kept
  BY <1>6, TouchKeeps
<1>7. ASSUME NEW r \in DOMAIN Follows, CatchUp(r) PROVE Kept
  BY <1>7, CatchUpKeeps
<1>8. CASE UNCHANGED vars
  <2>1. /\ unit' = unit /\ ui' = ui /\ call' = call /\ acked' = acked /\ lock' = lock
        /\ poll' = poll /\ debounce' = debounce
    BY <1>8 DEF vars, refresh
  <2>2. Inv'
    BY <2>1 DEF Inv, CallsOK, PollOK, LockOK, BlocksAreWhole
  <2> QED
    BY <1>8, <2>2
<1>9. Kept => Inv'
  BY DEF Kept
<1> QED
  BY <1>1, <1>2, <1>3, <1>4, <1>5, <1>6, <1>7, <1>8, <1>9 DEF Next

LEMMA InvImplies == Inv => TypeOK /\ StepsInOrder
<1> SUFFICES ASSUME Inv PROVE TypeOK /\ StepsInOrder
  OBVIOUS
<1>1. CallsOK /\ PollOK /\ LockOK /\ unit \in Data /\ ui.data \in Data
  BY DataOf DEF Inv
<1>2. DOMAIN ui.shown = Displays /\ DOMAIN ui.pend = Displays
  BY DEF Inv, IsUi, UisOf
<1>3. \A c \in Callers : call[c].attempt \in 1..Retry
  BY <1>1 DEF CallsOK, CallOK, IsCall, CallsOf
<1>4. TypeOK
  BY <1>1, <1>2, <1>3 DEF TypeOK, Data, PollOK, LockOK
<1>5. StepsInOrder
  BY <1>1 DEF StepsInOrder, At, AllAcked, CallsOK, CallOK, Working, AckedTo, Acked
<1> QED
  BY <1>4, <1>5

LEMMA Invariance == Spec => []Inv
BY InitInv, NextKeeps, PTL DEF Spec

\* Every variable keeps its type, and whoever holds the write lock is in a step
\* that needs it (coordinator/write_mixin.py: async with self._write_lock).
THEOREM ControlTypes == Spec => []TypeOK
BY Invariance, InvImplies, PTL

\* Registers that belong together are never half written, whatever request is
\* lost or repeated (require_single_request of the temporary modes).
THEOREM BlocksStayWhole == Spec => []BlocksAreWhole
<1>1. Inv => BlocksAreWhole
  BY DEF Inv
<1> QED
  BY <1>1, Invariance, PTL

\* No step of a job is written before the unit has acknowledged every word of
\* the earlier ones (the early returns after a failed write).
THEOREM StepsComeInOrder == Spec => []StepsInOrder
BY Invariance, InvImplies, PTL

\* A call that reports success has had every word of every step acknowledged,
\* over all chunks, attempts and commands that follow one another.
THEOREM SuccessMeansWritten == Spec => SuccessIsEarned
<1>1. Inv /\ [Next]_vars => [SuccessStep]_vars
  BY NextKeeps DEF Kept
<1>2. SuccessIsEarned <=> [][SuccessStep]_vars
  BY DEF SuccessIsEarned, SuccessStep
<1> QED
  BY <1>1, <1>2, Invariance, PTL DEF Spec

\* An optimistic value that is shown is one that the unit has acknowledged in
\* full; a failed write never populates it (entities' set_pending).
THEOREM OverlayMeansWritten == Spec => OverlayIsEarned
<1>1. Inv /\ [Next]_vars => [OverlayStep]_vars
  BY NextKeeps DEF Kept
<1>2. OverlayIsEarned <=> [][OverlayStep]_vars
  BY DEF OverlayIsEarned, OverlayStep
<1> QED
  BY <1>1, <1>2, Invariance, PTL DEF Spec

=============================================================================
