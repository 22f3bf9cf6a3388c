---------------------------- MODULE Links_retries ----------------------------
(***************************************************************************)
(* Why the retries of a read mask faults: what a poll has paid, in faults,  *)
(* for the attempt it is at.                                                *)
(***************************************************************************)
EXTENDS Links_proofs, SequenceTheorems

\* Nothing but requests and dials that failed has stood against the poll.
Mine == Sound /\ transport # None /\ ~cut

\* The stored transport is open, but the client of its link is not the alias.
Unaliased == transport # None /\ ~Unlinked(transport) /\ client # transport.sock

\* The transport is of the kind the unit speaks.
ModeInv == Sound =>
  /\ transport # None => transport.mode = site.speaks
  /\ At("dial") => trial.mode = site.speaks

\* Where the poll is, in which phase and at which attempt.
PlaceInv ==
  /\ At("phase") => task.attempt = 1
  /\ task.pc \in Reading => task.phase # "end"
  /\ At("ensure") \/ At("dial") =>
       /\ task.after = "read" => transport # None /\ task.attempt >= 2 /\ task.phase # "end"
       /\ task.after = "phase" => task.phase = "words" /\ task.attempt = 1
       /\ task.after = "final" => transport # None /\ task.phase = "end"
  /\ At("ensure") /\ task.after = "read" => Unlinked(transport)
  /\ task.via = "trial" \/ task.pc \in {"redial", "direct", "trial"} =>
       task.after = "phase" /\ task.phase = "words" /\ task.attempt = 1
  /\ task.phase = "bits" => site.bits
  /\ transport = None /\ (client # None \/ task.pc \notin {"idle", "ensure", "dial"}) => site.mode = "auto"

\* An alias is missing only after two faults, and until the bits are due.
AliasInv == Sound /\ site.bits /\ Unaliased =>
  /\ \/ task.pc \in {"read", "wait"} /\ task.phase = "words"
     \/ At("phase") /\ task.phase = "bits"
  /\ cut \/ spent >= 2

\* Faults of n attempts beyond those behind the poll.  The first attempt may
\* fail without one over RTU frames, on a stream that ended before this cycle;
\* and two pay for all attempts at bits.
Owe == IF Raw(site.speaks) THEN 2 ELSE 1
Count(n) == spent + Owe >= task.attempt + n \/ (task.phase = "bits" /\ spent >= 2)
Paid == spent >= Retry \/ (site.bits /\ spent >= 2)

\* The answer that is read is whole: the pieces still due are on their way.
Header == [of |-> task.ask, part |-> "header"]
Rest == [of |-> task.ask, part |-> "rest"]
Sane(s) ==
  \/ At("header") /\ \/ s.heard = <<>> /\ s.owed = <<Header, Rest>>
                     \/ s.heard = <<Header>> /\ s.owed = <<Rest>>
                     \/ s.heard = <<Header, Rest>> /\ s.owed = <<>>
  \/ At("rest") /\ task.got = Header /\ \/ s.heard = <<>> /\ s.owed = <<Rest>>
                                        \/ s.heard = <<Rest>> /\ s.owed = <<>>
Up == transport.sock \in Socks /\ socks[transport.sock].up = "up"
Aliased == task.phase = "bits" => client = transport.sock

CountInv == Mine /\ task.via = "transport" =>
  /\ (At("ensure") \/ At("dial")) /\ task.after = "read" => Count(0)
  /\ At("phase") => /\ task.phase = "words" => Connected(transport)
                    /\ task.phase = "bits" => Live(client) \/ Paid
  /\ task.pc \in Reading => Count(0)
  /\ At("read") => /\ Connected(transport) /\ task.attempt >= 2 => Up
                   /\ (Connected(transport) /\ Aliased) \/ (task.attempt >= 2 /\ Count(1))
  /\ At("wait") \/ At("rest") => Up
  /\ At("wait") => ~Raw(site.speaks)
  /\ At("header") => Connected(transport) /\ (Up \/ socks[transport.sock].heard = <<>>)
  /\ RawTask => Count(1) \/ (Up /\ Sane(socks[transport.sock]))

RetryInv == ModeInv /\ PlaceInv /\ AliasInv /\ CountInv /\ RetriesMaskFaults

-----------------------------------------------------------------------------
(* How the invariant carries over                                           *)

LEMMA Owing == /\ Owe \in {1, 2} /\ (~Raw(site.speaks) => Owe = 1)
               /\ Sound /\ site.bits => Owe = 1
  BY DEF Owe, Sound

\* A poll that has given up keeps no link.
LEMMA GivingUp ==
  ASSUME Inv, RetryInv, NEW r \in Results, CycleFails(r), UNCHANGED <<site, cut>>,
         r = "failed" /\ Mine => Paid'
  PROVE  RetryInv'
<1>1. /\ Unlinked(transport') /\ trial' = None /\ client' = None
      /\ transport' = None <=> transport = None
      /\ transport # None => transport'.mode = transport.mode
  BY Disconnecting DEF CycleFails, Inv, AllClosed
<1>2. /\ task'.pc = "idle" /\ task'.after = "phase" /\ task'.phase = "words"
      /\ task'.attempt = 1 /\ task'.via = "transport" /\ task'.result = r
  BY DEF CycleFails, Idle
<1>3. Sound' => Sound
  BY DEF Sound
<1>4. ModeInv'
  BY <1>1, <1>2, <1>3 DEF RetryInv, ModeInv, At
<1>5. PlaceInv' /\ AliasInv'
  BY <1>1, <1>2 DEF PlaceInv, AliasInv, Unaliased, At, Reading
<1>6. CountInv'
  BY <1>2 DEF CountInv, At, RawTask, Reading
<1>7. RetriesMaskFaults'
  BY <1>1, <1>2, <1>3 DEF RetriesMaskFaults, Mine, Paid
<1>8. QED
  BY <1>4, <1>5, <1>6, <1>7 DEF RetryInv

\* A request over the trial broke.
LEMMA ProbeFails ==
  ASSUME Inv, RetryInv, task.via = "trial", ProbeBroken, UNCHANGED <<site, cut>>
  PROVE  RetryInv'
<1>1. /\ transport = None /\ transport' = None /\ task \in TaskType /\ site.mode = "auto"
      /\ task.after = "phase" /\ task.phase = "words" /\ task.attempt = 1
  BY DEF Inv, TypeOK, TaskInv, RetryInv, PlaceInv, ProbeBroken, Reading
<1>2. /\ task'.pc \in {"trial", "idle"} /\ task'.after = "phase" /\ task'.phase = "words"
      /\ task'.attempt = 1 /\ task'.via = "transport"
  <2>1. CASE Len(task.order) > 1
    <3>1. task' = [task EXCEPT !.pc = "trial", !.via = "transport", !.order = Tail(task.order)]
      BY <2>1 DEF ProbeBroken
    <3>2. QED
      BY <1>1, <3>1 DEF TaskType
  <2>2. CASE ~(Len(task.order) > 1)
    BY <2>2 DEF ProbeBroken, Idle
  <2>3. QED
    BY <2>1, <2>2
<1>3. ModeInv' /\ PlaceInv' /\ AliasInv'
  BY <1>1, <1>2 DEF ModeInv, PlaceInv, AliasInv, Unaliased, At, Reading
<1>4. CountInv' /\ RetriesMaskFaults'
  BY <1>1 DEF CountInv, Mine, RetriesMaskFaults
<1>5. QED
  BY <1>3, <1>4 DEF RetryInv

\* A request that breaks costs one more attempt.
Costs(paid) == paid + Owe >= task.attempt + 1 \/ (task.phase = "bits" /\ paid >= 2)

LEMMA NextIs ==
  ASSUME task \in TaskType, NextPhase(TRUE) \/ NextPhase(FALSE)
  PROVE  /\ task'.pc = "phase" /\ task'.attempt = 1 /\ task'.via = task.via
         /\ task.phase = "words" /\ site.bits => task'.phase = "bits"
         /\ ~(task.phase = "words" /\ site.bits) => task'.phase = "end"
<1>1. \A ph, pt : LET t == [task EXCEPT !.pc = "phase", !.attempt = 1, !.partial = pt, !.phase = ph]
                  IN  t.pc = "phase" /\ t.attempt = 1 /\ t.via = task.via /\ t.phase = ph
  BY DEF TaskType
<1>2. ASSUME NEW b, task' = [task EXCEPT !.pc = "phase", !.attempt = 1, !.partial = task.partial \/ b,
                                         !.phase = IF task.phase = "words" /\ site.bits THEN "bits" ELSE "end"]
      PROVE  /\ task'.pc = "phase" /\ task'.attempt = 1 /\ task'.via = task.via
             /\ task'.phase = IF task.phase = "words" /\ site.bits THEN "bits" ELSE "end"
  BY <1>1, <1>2
<1>3. QED
  BY <1>2 DEF NextPhase

\* A request over the stored link broke.
LEMMA ReadFails ==
  ASSUME Inv, RetryInv, task.via = "transport", task.pc \in Reading, NEW r \in Transient, ReadBroken(r),
         UNCHANGED <<site, cut>>, spent' \in Nat, Mine => Costs(spent'),
         Mine /\ Raw(site.speaks) /\ r = "connection" => spent' >= Retry \/ task.attempt < Retry
  PROVE  RetryInv'
<1>1. /\ task \in TaskType /\ trial = None /\ task.phase \in {"words", "bits"}
      /\ task.attempt \in Nat \ {0} /\ task.attempt <= Retry /\ Retry \in Nat \ {0} /\ task.attempt + 1 >= 2
  <2>1. task \in TaskType /\ trial = None /\ task.phase \in {"words", "bits"}
    BY DEF Inv, TypeOK, TaskInv, RetryInv, PlaceInv, TaskType, At, Reading
  <2>2. task.attempt \in 1 .. Retry /\ Retry \in Nat \ {0}
    BY <2>1, TaskEdits, RetryAssumption
  <2>3. QED
    BY <2>1, <2>2
<1>2. CASE task.attempt < Retry /\ transport # None
  <2>1. Disconnect /\ Retried("ensure")
    BY <1>1, <1>2 DEF ReadBroken, ReconnectForRetry
  <2>2. /\ Unlinked(transport') /\ client' = None /\ transport' # None /\ transport'.mode = transport.mode
    BY <1>2, <2>1, Disconnecting DEF Inv, AllClosed
  <2>3. /\ task'.pc = "ensure" /\ task'.after = "read" /\ task'.phase = task.phase
        /\ task'.attempt = task.attempt + 1 /\ task'.via = "transport"
    BY <1>1, <2>1 DEF Retried, TaskType
  <2>4. ModeInv'
    BY <1>1, <1>2, <2>2, <2>3 DEF RetryInv, ModeInv, At, Sound
  <2>5. PlaceInv' /\ AliasInv'
    BY <1>1, <2>2, <2>3 DEF RetryInv, PlaceInv, AliasInv, Unaliased, At, Reading
  <2>6. CountInv'
    <3>1. Mine' => Mine
      BY <1>1, <1>2 DEF Mine, Sound
    <3>2. Owe' = Owe
      BY DEF Owe, Raw
    <3>3. Mine' => Count(0)'
      BY <1>1, <2>3, <3>1, <3>2, Owing DEF Costs, Count
    <3>4. QED
      BY <2>3, <3>3 DEF CountInv, At, RawTask, Reading
  <2>7. RetriesMaskFaults'
    BY <2>3 DEF RetriesMaskFaults, At
  <2>8. QED
    BY <2>4, <2>5, <2>6, <2>7 DEF RetryInv
<1>3. CASE task.attempt < Retry /\ transport = None
  <2>1. transport' = None /\ Retried("read")
    BY <1>1, <1>3 DEF ReadBroken, ReconnectForRetry
  <2>2. /\ task'.pc = "read" /\ task'.phase = task.phase /\ task'.via = "transport"
    BY <1>1, <2>1 DEF Retried, TaskType
  <2>3. site.mode = "auto"
    BY <1>3 DEF RetryInv, PlaceInv, Reading
  <2>4. ModeInv' /\ PlaceInv' /\ AliasInv' /\ CountInv' /\ RetriesMaskFaults'
    BY <1>1, <2>1, <2>2, <2>3
       DEF RetryInv, ModeInv, PlaceInv, AliasInv, Unaliased, CountInv, Mine, RetriesMaskFaults, At, Reading
  <2>5. QED
    BY <2>4 DEF RetryInv
<1>4. CASE ~(task.attempt < Retry) /\ (r = "connection" \/ task.phase = "bits")
  <2>1. CycleFails("failed") /\ "failed" \in Results
    BY <1>1, <1>4 DEF ReadBroken, Results
  <2>2. Mine => spent' >= Retry \/ (task.phase = "bits" /\ spent' >= 2)
    <3>1. CASE ~Raw(site.speaks)
      BY <1>1, <1>4, <3>1, Owing DEF Costs
    <3>2. CASE Raw(site.speaks) /\ r = "connection"
      BY <1>4, <3>2
    <3>3. CASE Raw(site.speaks) /\ task.phase = "bits"
      BY <3>3 DEF RetryInv, PlaceInv, Mine, Sound
    <3>4. QED
      BY <1>4, <3>1, <3>2, <3>3
  <2>3. Mine => Paid'
    BY <2>2 DEF Paid, RetryInv, PlaceInv
  <2>4. QED
    BY <2>1, <2>3, GivingUp
<1>5. CASE ~(task.attempt < Retry) /\ ~(r = "connection" \/ task.phase = "bits")
  <2>1. NextPhase(TRUE) /\ AfterRequest(r)
    BY <1>1, <1>5 DEF ReadBroken
  <2>2. /\ task'.pc = "phase" /\ task'.attempt = 1 /\ task'.via = "transport"
        /\ site.bits => task'.phase = "bits"
        /\ ~site.bits => task'.phase = "end"
    <3>1. NextPhase(TRUE) \/ NextPhase(FALSE)
      BY <2>1
    <3>2. task.phase = "words" /\ task \in TaskType
      BY <1>1, <1>5
    <3>3. QED
      BY <3>1, <3>2, NextIs
  <2>3. /\ Unlinked(transport') /\ (transport' = None <=> transport = None)
        /\ transport # None => transport'.mode = transport.mode
    BY <2>1, Unsetting DEF AfterRequest, Resets, Unlinked, Inv, TypeOK, link
  <2>4. ModeInv' /\ PlaceInv' /\ AliasInv' /\ RetriesMaskFaults'
    BY <1>1, <2>2, <2>3 DEF RetryInv, ModeInv, PlaceInv, AliasInv, Unaliased, RetriesMaskFaults, Sound, At, Reading
  <2>5. CountInv'
    <3>1. Mine' => Mine
      BY <1>1, <2>3 DEF Mine, Sound
    <3>2. Mine' /\ site.bits => Paid'
      BY <1>1, <1>5, <3>1, Owing DEF Costs, Paid, Mine
    <3>3. QED
      BY <2>2, <3>2 DEF CountInv, At, RawTask, Reading
  <2>6. QED
    BY <2>4, <2>5 DEF RetryInv
<1>6. QED
  BY <1>2, <1>3, <1>4, <1>5

\* A request broke.
LEMMA RequestFails ==
  ASSUME Inv, RetryInv, task.pc \in Reading, NEW r \in Transient, Broken(r), UNCHANGED <<site, cut>>,
         spent' \in Nat, Mine /\ task.via = "transport" => Costs(spent'),
         Mine /\ Raw(site.speaks) /\ r = "connection" => spent' >= Retry \/ task.attempt < Retry
  PROVE  RetryInv'
<1>1. task.via \in {"transport", "trial"}
  BY TaskEdits DEF Inv, TypeOK
<1>2. CASE task.via = "trial"
  BY <1>2, ProbeFails DEF Broken
<1>3. CASE task.via = "transport"
  BY <1>3, ReadFails DEF Broken
<1>4. QED
  BY <1>1, <1>2, <1>3

-----------------------------------------------------------------------------
(* A request that is answered                                               *)

\* A probe was answered, and the poll begins to read.
LEMMA ProbeSucceeds ==
  ASSUME Inv, RetryInv, task.via = "trial", ProbeAnswered, trial.mode = site.speaks, UNCHANGED <<site, cut>>,
         NEW s, s = trial.sock, ~Raw(trial.mode) => Live(s)'
  PROVE  RetryInv'
<1>1. /\ task \in TaskType /\ site.mode = "auto" /\ trial # None /\ site.speaks \in Modes
      /\ task.after = "phase" /\ task.phase = "words" /\ task.attempt = 1
  BY SitesAssumption DEF Inv, TypeOK, TaskInv, RetryInv, PlaceInv, Reading, SiteType
<1>2. /\ transport' = trial /\ trial' = None /\ client' = IF Raw(trial.mode) THEN None ELSE trial.sock
      /\ task' = [task EXCEPT !.pc = task.after, !.via = "transport", !.order = <<>>]
  BY DEF ProbeAnswered
<1>3. /\ task'.pc = "phase" /\ task'.after = "phase" /\ task'.phase = "words"
      /\ task'.attempt = 1 /\ task'.via = "transport"
  BY <1>1, <1>2 DEF TaskType
<1>4. Sound' => Sound
  BY DEF Sound
<1>5. Sound => ~Raw(trial.mode)
  BY <1>1 DEF Sound, Raw, Modes
<1>6. ModeInv' /\ PlaceInv'
  BY <1>1, <1>2, <1>3 DEF ModeInv, PlaceInv, At, Reading
<1>7. AliasInv'
  BY <1>2, <1>4, <1>5 DEF AliasInv, Unaliased
<1>8. CountInv'
  <2>1. Mine' => Connected(transport)'
    BY <1>1, <1>2, <1>4, <1>5 DEF Mine, Connected
  <2>2. QED
    BY <1>3, <2>1 DEF CountInv, At, RawTask, Reading
<1>9. RetriesMaskFaults'
  BY <1>3 DEF RetriesMaskFaults, At
<1>10. QED
  BY <1>6, <1>7, <1>8, <1>9 DEF RetryInv

\* A request over the stored link was answered.
LEMMA ReadSucceeds ==
  ASSUME Inv, RetryInv, task.via = "transport", task.pc \in Reading, NEW r \in {"ok", "illegal", "exception"},
         ReadAnswered(r), UNCHANGED <<site, cut, transport, trial, client>>, spent' \in Nat, spent' >= spent,
         Mine => Connected(transport)',
         Sound /\ transport # None /\ r = "exception" => Raw(site.speaks),
         Mine /\ r = "exception" => Up' /\ Costs(spent')
  PROVE  RetryInv'
<1>1. /\ task \in TaskType /\ trial = None /\ task.phase \in {"words", "bits"}
      /\ task.attempt \in Nat \ {0} /\ spent \in Nat
  <2>1. task \in TaskType /\ trial = None /\ task.phase \in {"words", "bits"} /\ spent \in Nat
    BY DEF Inv, TypeOK, TaskInv, RetryInv, PlaceInv, TaskType, At, Reading
  <2>2. task.attempt \in 1 .. Retry /\ Retry \in Nat \ {0}
    BY <2>1, TaskEdits, RetryAssumption
  <2>3. QED
    BY <2>1, <2>2
<1>2. /\ Mine' => Mine
      /\ Unaliased' => Unaliased
  BY DEF Mine, Sound, Unaliased, Unlinked
<1>3. CASE Retried("read") /\ r = "exception"
  <2>1. /\ task'.pc = "read" /\ task'.after = "read" /\ task'.phase = task.phase
        /\ task'.attempt = task.attempt + 1 /\ task'.via = "transport"
    BY <1>1, <1>3 DEF Retried, TaskType
  <2>2. Sound /\ transport # None => ~site.bits
    BY <1>3 DEF Sound
  <2>3. ModeInv' /\ PlaceInv' /\ AliasInv' /\ RetriesMaskFaults'
    BY <1>1, <1>3, <2>1, <2>2
       DEF RetryInv, ModeInv, PlaceInv, AliasInv, Unaliased, RetriesMaskFaults, Sound, At, Reading
  <2>4. CountInv'
    <3>1. Mine' => task.phase = "words" /\ Up' /\ Costs(spent') /\ Connected(transport)'
      BY <1>1, <1>2, <1>3, <2>2 DEF Mine, RetryInv, PlaceInv
    <3>2. Owe' = Owe
      BY DEF Owe, Raw
    <3>3. Mine' => Count(0)'
      BY <1>1, <2>1, <3>1, <3>2, Owing DEF Costs, Count
    <3>4. QED
      BY <2>1, <3>1, <3>3 DEF CountInv, Aliased, At, RawTask, Reading
  <2>5. QED
    BY <2>3, <2>4 DEF RetryInv
<1>4. CASE NextPhase(TRUE) \/ NextPhase(FALSE)
  <2>1. /\ task'.pc = "phase" /\ task'.attempt = 1 /\ task'.via = "transport"
        /\ task.phase = "words" /\ site.bits => task'.phase = "bits"
        /\ ~(task.phase = "words" /\ site.bits) => task'.phase = "end"
    BY <1>1, <1>4, NextIs
  <2>2. ModeInv' /\ PlaceInv' /\ RetriesMaskFaults'
    BY <1>1, <2>1 DEF RetryInv, ModeInv, PlaceInv, RetriesMaskFaults, Sound, At, Reading
  <2>3. Sound /\ site.bits /\ Unaliased => task.phase = "words" /\ (cut \/ spent' >= 2)
    <3>1. spent >= 2 => spent' >= 2
      BY <1>1
    <3>2. QED
      BY <1>1, <3>1 DEF RetryInv, AliasInv, At, Reading
  <2>4. AliasInv'
    BY <1>2, <2>1, <2>3 DEF AliasInv, Sound, At
  <2>5. CountInv'
    <3>1. Mine' /\ site.bits => Live(client)' \/ Paid'
      <4>1. CASE Unaliased
        BY <1>2, <2>3, <4>1 DEF Mine, Paid
      <4>2. CASE ~Unaliased
        <5>1. Mine => transport.sock \in Socks /\ Live(transport.sock)'
          BY DEF Connected, Live
        <5>2. QED
          BY <1>2, <4>2, <5>1, NoneAssumption DEF Mine, Unaliased, Unlinked
      <4>3. QED
        BY <4>1, <4>2
    <3>2. QED
      BY <2>1, <3>1 DEF CountInv, At, RawTask, Reading
  <2>6. QED
    BY <2>2, <2>4, <2>5 DEF RetryInv
<1>5. QED
  BY <1>3, <1>4 DEF ReadAnswered

-----------------------------------------------------------------------------
(* The links a poll opens                                                   *)

LEMMA GoingOn ==
  ASSUME task \in TaskType, NEW pc, Goto(pc)
  PROVE  /\ task'.pc = pc /\ task'.after = task.after /\ task'.phase = task.phase /\ task'.via = task.via
         /\ task'.attempt = task.attempt /\ task'.ask = task.ask /\ task'.got = task.got
  BY DEF Goto, TaskType

LEMMA EnsureRetries == ASSUME Inv, RetryInv, Ensure PROVE RetryInv'
<1>1. /\ At("ensure") /\ task \in TaskType /\ task.via = "transport" /\ trial = None /\ task.after \in Afters
      /\ UNCHANGED <<site, resolved, cut, spent>>
  BY DEF Ensure, NoFault, Inv, TypeOK, TaskInv, TaskType, Afters, At, Reading
<1>2. ~(Sound /\ site.bits /\ Unaliased)
  BY <1>1 DEF RetryInv, AliasInv, At
<1>3. CASE /\ Connected(transport) \/ (transport = None /\ Live(client))
           /\ Ensured /\ UNCHANGED link
  <2>1. UNCHANGED <<socks, transport, trial, client>> /\ (transport = None => client # None)
    BY <1>3, NoneAssumption DEF link, Live, Connected
  <2>2. task.after # "read"
    BY <1>1, <1>3, NoneAssumption DEF RetryInv, PlaceInv, Connected, Live, Unlinked, At
  <2>3. task'.pc = task.after /\ task'.after = task.after /\ task'.phase = task.phase /\ task'.via = "transport"
        /\ task'.attempt = task.attempt
    BY <1>1, <1>3, GoingOn DEF Ensured
  <2>4. task.after \in {"phase", "final"} /\ (task.after = "phase" => task.phase = "words" /\ task.attempt = 1)
    BY <1>1, <2>2 DEF RetryInv, PlaceInv, Afters
  <2>5. ModeInv' /\ PlaceInv' /\ RetriesMaskFaults'
    BY <1>1, <2>1, <2>3, <2>4 DEF RetryInv, ModeInv, PlaceInv, RetriesMaskFaults, Sound, At, Reading
  <2>6. AliasInv'
    BY <1>1, <1>2, <2>1 DEF AliasInv, Unaliased, Unlinked, Sound
  <2>7. CountInv'
    <3>1. Mine' => Connected(transport)'
      BY <1>3, <2>1 DEF Mine, Connected, Live
    <3>2. QED
      BY <2>3, <2>4, <3>1 DEF CountInv, At, RawTask, Reading
  <2>8. QED
    BY <2>5, <2>6, <2>7 DEF RetryInv
<1>4. ASSUME NEW pc \in {"redial", "direct"}, Goto(pc), UNCHANGED link, transport = None,
             client # None \/ site.mode = "auto"
      PROVE  RetryInv'
  <2>1. UNCHANGED <<socks, transport, trial, client>>
    BY <1>4 DEF link
  <2>2. /\ task'.pc = pc /\ task'.after = "phase" /\ task'.phase = "words"
        /\ task'.via = "transport" /\ task'.attempt = 1
    BY <1>1, <1>4, GoingOn DEF RetryInv, PlaceInv, Afters
  <2>3. site.mode = "auto"
    BY <1>4 DEF RetryInv, PlaceInv
  <2>4. ModeInv' /\ PlaceInv' /\ RetriesMaskFaults'
    BY <1>1, <1>4, <2>1, <2>2, <2>3 DEF ModeInv, PlaceInv, RetriesMaskFaults, At, Reading
  <2>5. AliasInv' /\ CountInv'
    BY <1>4, <2>1 DEF AliasInv, Unaliased, CountInv, Mine
  <2>6. QED
    BY <2>4, <2>5 DEF RetryInv
<1>5. ASSUME NEW mode, ~(transport = None /\ site.mode = "auto" /\ resolved = None),
             mode = IF transport # None THEN transport.mode
                    ELSE IF site.mode = "auto" THEN resolved ELSE site.mode,
             Goto("dial"), transport' = Unset(transport), trial' = [mode |-> mode, sock |-> None], client' = None
      PROVE  RetryInv'
  <2>1. /\ Unlinked(transport') /\ (transport' = None <=> transport = None)
        /\ transport # None => transport'.mode = transport.mode
    BY <1>5, Unsetting DEF Inv, TypeOK
  <2>2. /\ task'.pc = "dial" /\ task'.after = task.after /\ task'.phase = task.phase
        /\ task'.via = "transport" /\ task'.attempt = task.attempt
    BY <1>1, <1>5, GoingOn
  <2>3. Sound => mode = site.speaks
    <3>1. CASE transport # None
      BY <1>5, <3>1 DEF RetryInv, ModeInv
    <3>2. CASE transport = None /\ site.mode = "auto"
      BY <1>5, <3>2 DEF Inv, ResolvedIsSpoken
    <3>3. CASE transport = None /\ site.mode # "auto"
      BY <1>5, <3>3 DEF Sound
    <3>4. QED
      BY <3>1, <3>2, <3>3
  <2>4. ModeInv'
    BY <1>1, <1>5, <2>1, <2>3 DEF RetryInv, ModeInv, Sound
  <2>5. PlaceInv' /\ AliasInv' /\ RetriesMaskFaults'
    BY <1>1, <1>5, <2>1, <2>2 DEF RetryInv, PlaceInv, AliasInv, Unaliased, RetriesMaskFaults, At, Reading
  <2>6. CountInv'
    <3>1. Mine' => Mine
      BY <1>1, <2>1 DEF Mine, Sound
    <3>2. Mine /\ task.after = "read" => Count(0)
      BY <1>1, <3>1 DEF RetryInv, CountInv
    <3>3. Count(0) => Count(0)'
      BY <1>1, <2>2 DEF Count, Owe, Raw
    <3>4. QED
      BY <2>2, <3>1, <3>2, <3>3 DEF CountInv, At, RawTask, Reading
  <2>7. QED
    BY <2>4, <2>5, <2>6 DEF RetryInv
<1>6. QED
  BY <1>3, <1>4, <1>5 DEF Ensure

\* A dial that failed: between two attempts it counts as one of them.
LEMMA EnsureFailed ==
  ASSUME Inv, RetryInv, EnsureFails, At("dial") \/ (task.after = "phase" /\ task.via = "transport"),
         UNCHANGED <<site, cut>>, spent' = spent + 1
  PROVE  RetryInv'
<1>1. CASE task.after = "read"
  <2>1. /\ At("dial") /\ task \in TaskType /\ task.via = "transport" /\ trial # None /\ spent \in Nat
        /\ Unlinked(transport) /\ transport # None /\ task.attempt >= 2 /\ task.phase # "end"
    BY <1>1 DEF Inv, TypeOK, TaskInv, LinkInv, RetryInv, PlaceInv, TaskType, At, Reading
  <2>2. Goto("read") /\ trial' = None /\ UNCHANGED <<socks, transport, client>>
    BY <1>1 DEF EnsureFails
  <2>3. /\ task'.pc = "read" /\ task'.phase = task.phase /\ task'.via = "transport"
        /\ task'.attempt = task.attempt
    BY <2>1, <2>2, GoingOn
  <2>4. ModeInv' /\ PlaceInv' /\ AliasInv' /\ RetriesMaskFaults'
    BY <2>1, <2>2, <2>3
       DEF RetryInv, ModeInv, PlaceInv, AliasInv, Unaliased, Unlinked, RetriesMaskFaults, Sound, At, Reading
  <2>5. CountInv'
    <3>1. Mine' => Count(0)
      BY <1>1, <2>1, <2>2 DEF RetryInv, CountInv, Mine, Sound
    <3>2. Owe' = Owe /\ task.attempt \in Nat
      <4>1. task.attempt \in 1 .. Retry
        BY <2>1, TaskEdits
      <4>2. QED
        BY <4>1, RetryAssumption DEF Owe, Raw
    <3>3. Count(0) => Count(1)' /\ Count(0)'
      BY <2>1, <2>3, <3>2, Owing DEF Count
    <3>4. ~Connected(transport)'
      BY <2>1, <2>2, NoneAssumption DEF Connected, Live, Unlinked
    <3>5. QED
      BY <2>1, <2>3, <3>1, <3>3, <3>4 DEF CountInv, At, RawTask, Reading
  <2>6. QED
    BY <2>4, <2>5 DEF RetryInv
<1>2. CASE task.after # "read"
  <2>1. CycleFails("unreachable") /\ "unreachable" \in Results
    BY <1>2 DEF EnsureFails, Results
  <2>2. QED
    BY <2>1, GivingUp
<1>3. QED
  BY <1>1, <1>2

LEMMA DialRetries == ASSUME Inv, RetryInv, Dial PROVE RetryInv'
<1>1. /\ At("dial") /\ task \in TaskType /\ task.via = "transport" /\ trial # None /\ trial \in TransportType
      /\ trial.sock = None /\ trial.mode \in Modes /\ client = None /\ Unlinked(transport)
      /\ task.after \in Afters /\ spent \in Nat /\ UNCHANGED <<site, cut>>
  BY DEF Dial, Inv, TypeOK, TaskInv, LinkInv, TaskType, TransportType, Afters, At, Reading
<1>2. CASE Fault /\ EnsureFails
  BY <1>1, <1>2, EnsureFailed DEF Fault
<1>3. CASE /\ socks' = [socks EXCEPT ![Free] = Socket(trial.mode)] /\ transport' = [trial EXCEPT !.sock = Free]
           /\ client' = IF Raw(trial.mode) THEN None ELSE Free
           /\ trial' = None /\ Ensured /\ NoFault
  <2>1. PICK s \in Socks : s = Free /\ socks = [x \in Socks |-> None]
    BY <1>1, FreeSocket, NoneAssumption
  <2>2. /\ transport' # None /\ transport'.sock = s /\ transport'.mode = trial.mode
    BY <1>1, <1>3, <2>1, NoneAssumption DEF TransportType
  <2>3. client' = IF Raw(trial.mode) THEN None ELSE s
    BY <1>3, <2>1
  <2>4. socks'[s] = Socket(trial.mode) /\ socks'[s].up = "up"
    BY <1>3, <2>1 DEF Socket
  <2>5. task'.pc = task.after /\ task'.after = task.after /\ task'.phase = task.phase
        /\ task'.via = "transport" /\ task'.attempt = task.attempt
    BY <1>1, <1>3, GoingOn DEF Ensured
  <2>6. /\ task.after = "read" => transport # None /\ task.attempt >= 2 /\ task.phase # "end"
        /\ task.after = "phase" => task.phase = "words" /\ task.attempt = 1
        /\ task.phase = "bits" => site.bits
    BY <1>1 DEF RetryInv, PlaceInv
  <2>7. Sound => trial.mode = site.speaks
    BY <1>1 DEF RetryInv, ModeInv
  <2>8. ModeInv'
    BY <1>1, <1>3, <2>2, <2>5, <2>7 DEF ModeInv, Sound, At, Afters
  <2>9. PlaceInv' /\ RetriesMaskFaults'
    BY <1>1, <2>2, <2>5, <2>6 DEF PlaceInv, RetriesMaskFaults, At, Afters, Reading
  <2>10. Sound /\ site.bits => client' = s
    BY <2>3, <2>7 DEF Sound
  <2>11. AliasInv'
    BY <1>1, <2>2, <2>10 DEF AliasInv, Unaliased, Sound
  <2>12. CountInv'
    <3>1. Connected(transport)' /\ Up'
      BY <2>2, <2>4 DEF Connected, Up, Live
    <3>2. Mine' /\ task.after = "read" => Count(0) /\ Sound
      BY <1>1, <2>6 DEF RetryInv, CountInv, Mine, Sound
    <3>3. Count(0) => Count(0)'
      BY <1>1, <1>3, <2>5 DEF Count, Owe, Raw, NoFault
    <3>4. Sound => Aliased'
      BY <2>2, <2>5, <2>6, <2>10 DEF Aliased
    <3>5. QED
      BY <1>1, <2>5, <2>6, <3>1, <3>2, <3>3, <3>4 DEF CountInv, At, RawTask, Reading, Afters
  <2>13. QED
    BY <2>8, <2>9, <2>11, <2>12 DEF RetryInv
<1>4. QED
  BY <1>2, <1>3 DEF Dial

\* Without a transport nothing is owed, and the automatic mode is at work.
LEMMA NoTransport ==
  ASSUME transport' = None, site.mode = "auto", UNCHANGED site,
         task'.pc \in {"idle", "ensure", "dial", "redial", "direct", "trial", "phase", "read"},
         task'.after = "phase", task'.phase = "words", task'.attempt = 1, task'.pc # "dial"
  PROVE  RetryInv'
<1>1. ModeInv' /\ PlaceInv' /\ AliasInv'
  BY DEF ModeInv, PlaceInv, AliasInv, Unaliased, At, Reading
<1>2. CountInv' /\ RetriesMaskFaults'
  BY DEF CountInv, Mine, RetriesMaskFaults
<1>3. QED
  BY <1>1, <1>2 DEF RetryInv

LEMMA ChooseRetries == ASSUME Inv, RetryInv, Choose PROVE RetryInv'
<1>0. task \in TaskType /\ UNCHANGED <<site, cut>> /\ spent \in Nat
  BY DEF Choose, Ensure, Dial, Redial, Direct, TrialDial, Inv, TypeOK
<1>1. ASSUME Redial \/ Direct \/ TrialDial
      PROVE  /\ transport = None /\ task.via = "transport" /\ site.mode = "auto"
             /\ task.after = "phase" /\ task.phase = "words" /\ task.attempt = 1
  BY <1>0, <1>1 DEF Redial, Direct, TrialDial, Inv, TaskInv, TaskType, RetryInv, PlaceInv, At, Reading
<1>2. ASSUME NEW order, NextTrial(order), Fault, Direct \/ TrialDial PROVE RetryInv'
  <2>1. CASE order = <<>>
    BY <1>0, <1>1, <1>2, <2>1, EnsureFailed DEF NextTrial, Fault
  <2>2. CASE order # <<>>
    <3>1. task' = [task EXCEPT !.pc = "trial", !.order = order] /\ transport' = None
      BY <1>1, <1>2, <2>2 DEF NextTrial
    <3>2. /\ task'.pc = "trial" /\ task'.after = "phase" /\ task'.phase = "words" /\ task'.attempt = 1
      BY <1>0, <1>1, <1>2, <3>1 DEF TaskType
    <3>3. QED
      BY <1>0, <1>1, <1>2, <3>1, <3>2, NoTransport
  <2>3. QED
    BY <2>1, <2>2
<1>3. ASSUME Redial \/ Direct, Ensured, UNCHANGED transport PROVE RetryInv'
  BY <1>0, <1>1, <1>3, GoingOn, NoTransport DEF Ensured
<1>4. CASE Redial
  <2>1. ASSUME Disconnect, Goto("direct") PROVE RetryInv'
    <3>1. transport' = None
      BY <1>1, <1>4, <2>1, Disconnecting DEF Inv
    <3>2. QED
      BY <1>0, <1>1, <1>4, <2>1, <3>1, GoingOn, NoTransport
  <2>2. QED
    BY <1>3, <1>4, <2>1 DEF Redial
<1>5. CASE Direct
  BY <1>2, <1>3, <1>5 DEF Direct
<1>6. CASE TrialDial
  <2>1. ASSUME task' = [task EXCEPT !.pc = "read", !.via = "trial"], UNCHANGED transport PROVE RetryInv'
    <3>1. /\ task'.pc = "read" /\ task'.after = "phase" /\ task'.phase = "words" /\ task'.attempt = 1
      BY <1>0, <1>1, <1>6, <2>1 DEF TaskType
    <3>2. QED
      BY <1>0, <1>1, <1>6, <2>1, <3>1, NoTransport
  <2>2. QED
    BY <1>2, <1>6, <2>1 DEF TrialDial
<1>7. QED
  BY <1>4, <1>5, <1>6, EnsureRetries, DialRetries DEF Choose

-----------------------------------------------------------------------------
(* Phases and requests                                                      *)

LEMMA PhaseRetries == ASSUME Inv, RetryInv, StartPhase PROVE RetryInv'
<1>1. /\ At("phase") /\ task \in TaskType /\ task.via = "transport" /\ trial = None /\ task.attempt = 1
      /\ UNCHANGED <<site, cut, spent>> /\ spent \in Nat
      /\ transport = None => site.mode = "auto"
      /\ task.phase = "bits" => site.bits
  BY DEF StartPhase, NoFault, Inv, TypeOK, TaskInv, TaskType, RetryInv, PlaceInv, At, Reading
<1>2. ASSUME UNCHANGED link, task.phase = "end", task'.pc = "final" \/ (task'.pc = "ensure" /\ transport # None),
             task'.after = "final" \/ task'.pc = "final", task'.phase = "end", task'.via = "transport"
      PROVE  RetryInv'
  <2>1. UNCHANGED <<socks, transport, trial, client>>
    BY <1>2 DEF link
  <2>2. ModeInv' /\ PlaceInv' /\ RetriesMaskFaults'
    BY <1>1, <1>2, <2>1 DEF RetryInv, ModeInv, PlaceInv, RetriesMaskFaults, Sound, At, Reading
  <2>3. AliasInv'
    BY <1>1, <1>2, <2>1 DEF RetryInv, AliasInv, Unaliased, Unlinked, Sound, At
  <2>4. CountInv'
    BY <1>2 DEF CountInv, At, RawTask, Reading
  <2>5. QED
    BY <2>2, <2>3, <2>4 DEF RetryInv
<1>3. CASE task.phase = "end" /\ UNCHANGED link /\ Goto("final")
  BY <1>1, <1>2, <1>3, GoingOn
<1>4. CASE /\ task.phase = "end" /\ UNCHANGED link /\ transport # None
           /\ task' = [task EXCEPT !.pc = "ensure", !.after = "final"]
  <2>1. task'.pc = "ensure" /\ task'.after = "final" /\ task'.phase = "end" /\ task'.via = "transport"
    BY <1>1, <1>4 DEF TaskType
  <2>2. QED
    BY <1>2, <1>4, <2>1
<1>5. CASE /\ task.phase # "end" /\ ((task.phase = "words" /\ Connected(transport)) \/ Live(client))
           /\ UNCHANGED link /\ Goto("read")
  <2>1. UNCHANGED <<socks, transport, trial, client>> /\ task.phase \in {"words", "bits"}
    <3>1. task.phase \in {"words", "bits"}
      BY <1>1, <1>5 DEF TaskType
    <3>2. QED
      BY <1>5, <3>1 DEF link
  <2>2. /\ task'.pc = "read" /\ task'.phase = task.phase /\ task'.via = "transport" /\ task'.attempt = 1
    BY <1>1, <1>5, GoingOn
  <2>3. ModeInv' /\ PlaceInv' /\ RetriesMaskFaults'
    BY <1>1, <2>1, <2>2 DEF RetryInv, ModeInv, PlaceInv, RetriesMaskFaults, Sound, At, Reading
  <2>4. task.phase = "bits" /\ transport # None => client = transport.sock /\ Connected(transport)
    BY <1>5 DEF Live, Connected, Inv, LinkInv
  <2>5. AliasInv'
    BY <1>1, <2>1, <2>2, <2>4 DEF RetryInv, AliasInv, Unaliased, Unlinked, Sound, At
  <2>6. CountInv'
    <3>1. Count(0)'
      BY <1>1, <2>2 DEF Count, Owe, Raw
    <3>2. Mine => Connected(transport)
      BY <1>1, <2>1, <2>4 DEF RetryInv, CountInv, Mine
    <3>3. Mine' => Connected(transport)' /\ Aliased'
      BY <1>1, <2>1, <2>2, <2>4, <3>2 DEF Mine, Sound, Connected, Live, Aliased
    <3>4. QED
      BY <2>2, <3>1, <3>3 DEF CountInv, At, RawTask, Reading
  <2>7. QED
    BY <2>3, <2>5, <2>6 DEF RetryInv
<1>6. CASE /\ task.phase # "end" /\ ~((task.phase = "words" /\ Connected(transport)) \/ Live(client))
           /\ CycleFails("failed")
  <2>1. task.phase \in {"words", "bits"} /\ "failed" \in Results
    BY <1>1, <1>6 DEF TaskType, Results
  <2>2. Mine => Paid
    BY <1>1, <1>6, <2>1 DEF RetryInv, CountInv
  <2>3. Paid => Paid'
    BY <1>1 DEF Paid
  <2>4. QED
    BY <1>1, <1>6, <2>1, <2>2, <2>3, GivingUp
<1>7. QED
  BY <1>3, <1>4, <1>5, <1>6 DEF StartPhase

LEMMA EndRetries == ASSUME Inv, RetryInv, EndCycle PROVE RetryInv'
<1>1. /\ At("final") /\ task.via = "transport" /\ UNCHANGED <<site, cut, spent, transport, trial, client>>
      /\ transport = None => site.mode = "auto"
  BY DEF EndCycle, NoFault, link, Inv, TaskInv, TypeOK, TaskType, RetryInv, PlaceInv, At, Reading
<1>2. PICK r \in {"ok", "partial"} : task' = Idle(r)
  BY DEF EndCycle
<1>3. /\ task'.pc = "idle" /\ task'.after = "phase" /\ task'.phase = "words" /\ task'.attempt = 1
      /\ task'.via = "transport" /\ task'.result = r
  BY <1>2 DEF Idle
<1>4. ModeInv' /\ PlaceInv' /\ RetriesMaskFaults'
  BY <1>1, <1>2, <1>3 DEF RetryInv, ModeInv, PlaceInv, RetriesMaskFaults, Sound, At, Reading
<1>5. AliasInv'
  BY <1>1 DEF RetryInv, AliasInv, Unaliased, Unlinked, Sound, At
<1>6. CountInv'
  BY <1>3 DEF CountInv, At, RawTask, Reading
<1>7. QED
  BY <1>4, <1>5, <1>6 DEF RetryInv

\* A request is on its way, over a link that is kept.
LEMMA Requesting ==
  ASSUME Inv, RetryInv, task.pc \in Reading, UNCHANGED <<site, cut, transport, trial, client>>,
         task'.pc \in Reading, task'.pc # "read", task'.after = task.after, task'.phase = task.phase,
         task'.via = task.via, task'.attempt = task.attempt,
         Sound /\ site.bits /\ Unaliased => task'.pc = "wait" /\ (cut \/ spent' >= 2),
         Mine /\ task.via = "transport" => CountInv'
  PROVE  RetryInv'
<1>1. ModeInv'
  BY DEF RetryInv, ModeInv, Sound, At, Reading
<1>2. PlaceInv' /\ RetriesMaskFaults'
  BY DEF RetryInv, PlaceInv, RetriesMaskFaults, At, Reading
<1>3. AliasInv'
  BY DEF RetryInv, AliasInv, Unaliased, Unlinked, Sound, At, Reading
<1>4. CountInv'
  BY DEF CountInv, Mine, Sound
<1>5. QED
  BY <1>1, <1>2, <1>3, <1>4 DEF RetryInv

LEMMA PymodbusRetries == ASSUME Inv, RetryInv, SendPymodbus PROVE RetryInv'
<1>1. /\ At("read") /\ task.pc \in Reading /\ task \in TaskType /\ spent \in Nat
      /\ UNCHANGED <<site, cut, spent, socks, transport, trial, client>>
  BY DEF SendPymodbus, NoFault, link, Inv, TypeOK, At, Reading
<1>2. /\ task'.pc = "wait" /\ task'.after = task.after /\ task'.phase = task.phase
      /\ task'.via = task.via /\ task'.attempt = task.attempt
  BY <1>1, GoingOn DEF SendPymodbus
<1>3. ASSUME Mine, task.via = "transport" PROVE CountInv'
  <2>1. Connected(transport) /\ ~Raw(transport.mode)
    BY <1>3 DEF SendPymodbus, IsDirect, Via, Mine
  <2>2. Up
    BY <2>1, <1>3 DEF Connected, Live, Up, Inv, LinkInv, Framed, Holds, Mine
  <2>3. Count(0)
    BY <1>1, <1>3 DEF RetryInv, CountInv
  <2>4. Count(0)' /\ Up'
    BY <1>1, <1>2, <2>2, <2>3 DEF Count, Owe, Raw, Up
  <2>5. ~Raw(site.speaks)
    BY <1>3, <2>1 DEF RetryInv, ModeInv, Mine
  <2>6. QED
    BY <1>1, <1>2, <2>4, <2>5 DEF CountInv, At, RawTask
<1>4. Sound /\ site.bits /\ Unaliased => cut \/ spent' >= 2
  BY <1>1 DEF RetryInv, AliasInv
<1>5. QED
  BY <1>1, <1>2, <1>3, <1>4, Requesting DEF Reading

LEMMA EndsRetry == ASSUME Inv, RetryInv, PymodbusEnds PROVE RetryInv'
<1>1. /\ At("wait") /\ task.pc \in Reading /\ task \in TaskType /\ spent \in Nat /\ UNCHANGED <<site, cut>>
      /\ task.via \in {"transport", "trial"}
      /\ task.via = "trial" => trial # None
      /\ task.attempt \in Nat
  <2>1. task \in TaskType /\ task.attempt \in 1 .. Retry /\ task.via \in {"transport", "trial"} /\ Retry \in Nat
    BY TaskEdits, RetryAssumption DEF Inv, TypeOK
  <2>2. QED
    BY <2>1 DEF PymodbusEnds, Inv, TypeOK, TaskInv, At, Reading
<1>2. PICK s : s = IF IsDirect THEN client ELSE Via.sock
  OBVIOUS
<1>3. Mine /\ task.via = "transport" =>
        /\ s = transport.sock /\ s \in Socks /\ socks[s].up = "up" /\ Up
        /\ socks[s].framing = site.speaks /\ ~Raw(site.speaks) /\ Count(0)
  BY <1>1, <1>2 DEF Mine, IsDirect, Via, RetryInv, CountInv, ModeInv, Up, Inv, LinkInv, Framed, Holds
<1>4. ASSUME NEW r \in Transient, Broken(r), Fault PROVE RetryInv'
  <2>1. spent' = spent + 1
    BY <1>4 DEF Fault
  <2>2. Mine /\ task.via = "transport" => Costs(spent')
    BY <1>1, <1>3, <2>1, Owing DEF Costs, Count
  <2>3. Mine /\ Raw(site.speaks) => task.via = "trial"
    BY <1>1, <1>3
  <2>4. Mine => task.via = "transport"
    BY <1>1 DEF Mine, Inv, TaskInv
  <2>5. QED
    BY <1>1, <1>4, <2>1, <2>2, <2>3, <2>4, RequestFails
<1>5. ASSUME NEW r \in Transient, Broken(r), NoFault,
             ~(s \in Socks /\ socks[s].up = "up") \/ site.speaks # socks[s].framing
      PROVE  RetryInv'
  <2>1. spent' \in Nat
    BY <1>1, <1>5 DEF NoFault
  <2>2. ~Mine \/ task.via = "trial"
    BY <1>1, <1>3, <1>5
  <2>3. ~Mine
    BY <2>2 DEF Mine, Inv, TaskInv
  <2>4. QED
    BY <1>1, <1>5, <2>1, <2>3, RequestFails
<1>6. ASSUME NEW r \in {"ok", "illegal"}, Answered(r, socks), Fault \/ NoFault,
             s \in Socks, socks[s].up = "up", site.speaks = socks[s].framing
      PROVE  RetryInv'
  <2>1. socks' = socks /\ spent' \in Nat /\ spent' >= spent
    BY <1>1, <1>6 DEF Answered, Fault, NoFault
  <2>2. Live(s)'
    BY <1>6, <2>1 DEF Live
  <2>3. CASE task.via = "trial"
    <3>1. s = trial.sock /\ trial.mode = site.speaks /\ ProbeAnswered
      BY <1>1, <1>2, <1>6, <2>3 DEF Answered, IsDirect, Via, Inv, LinkInv, Framed, Holds
    <3>2. QED
      BY <1>1, <2>2, <2>3, <3>1, ProbeSucceeds
  <2>4. CASE task.via = "transport"
    <3>1. ReadAnswered(r) /\ UNCHANGED <<transport, trial, client>>
      BY <1>6, <2>4 DEF Answered
    <3>2. Mine => Connected(transport)'
      BY <1>3, <2>1, <2>4, <3>1 DEF Mine, Connected, Live
    <3>3. QED
      BY <1>1, <1>6, <2>1, <2>4, <3>1, <3>2, ReadSucceeds
  <2>5. QED
    BY <1>1, <2>3, <2>4
<1>7. \/ \E r \in Transient : Broken(r) /\ Fault
      \/ \E r \in Transient : /\ Broken(r) /\ NoFault
                              /\ ~(s \in Socks /\ socks[s].up = "up") \/ site.speaks # socks[s].framing
      \/ /\ s \in Socks /\ socks[s].up = "up" /\ site.speaks = socks[s].framing
         /\ \E r \in {"ok", "illegal"} : Answered(r, socks) /\ (Fault \/ NoFault)
  BY <1>2 DEF PymodbusEnds, Transient
<1>8. QED
  BY <1>4, <1>5, <1>6, <1>7

\* A request without a link.
LEMMA UnconnectedRetries == ASSUME Inv, RetryInv, SendUnconnected PROVE RetryInv'
<1>1. /\ At("read") /\ task.pc \in Reading /\ task \in TaskType /\ spent \in Nat /\ UNCHANGED <<site, cut>>
      /\ task.via \in {"transport", "trial"} /\ task.attempt \in Nat /\ task.attempt <= Retry /\ Retry \in Nat
      /\ "connection" \in Transient
  <2>1. task \in TaskType /\ task.attempt \in 1 .. Retry /\ task.via \in {"transport", "trial"} /\ Retry \in Nat
    BY TaskEdits, RetryAssumption DEF Inv, TypeOK
  <2>2. QED
    BY <2>1 DEF SendUnconnected, Inv, TypeOK, At, Reading, Transient
<1>2. Mine => task.via = "transport" /\ ~IsDirect /\ Via = transport
  BY <1>1 DEF Mine, Inv, TaskInv, IsDirect, Via
<1>3. Mine => (Connected(transport) /\ Aliased) \/ (task.attempt >= 2 /\ Count(1))
  BY <1>1, <1>2 DEF RetryInv, CountInv
<1>4. CASE IsDirect /\ Broken("connection") /\ NoFault
  <2>1. ~Mine /\ spent' \in Nat
    BY <1>1, <1>2, <1>4 DEF NoFault
  <2>2. QED
    BY <1>1, <1>4, <2>1, RequestFails
<1>5. CASE /\ ~IsDirect /\ task.phase = "bits" /\ (client = None \/ client # Via.sock \/ ~Connected(Via))
           /\ Broken("connection") /\ NoFault
  <2>1. spent' = spent
    BY <1>5 DEF NoFault
  <2>2. Mine => ~(Connected(transport) /\ Aliased)
    BY <1>2, <1>5, NoneAssumption DEF Aliased, Connected, Live
  <2>3. Mine => Costs(spent')
    BY <1>3, <2>1, <2>2 DEF Count, Costs
  <2>4. Mine => ~Raw(site.speaks)
    BY <1>5 DEF Mine, Sound, RetryInv, PlaceInv
  <2>5. QED
    BY <1>1, <1>5, <2>1, <2>3, <2>4, RequestFails
<1>6. CASE /\ ~IsDirect /\ task.phase # "bits" /\ ~Connected(Via) /\ Broken("connection") /\ Fault
  <2>1. spent' = spent + 1
    BY <1>6 DEF Fault
  <2>2. Mine => spent + Owe >= task.attempt + 1
    BY <1>2, <1>3, <1>6 DEF Count
  <2>3. Mine => Costs(spent')
    BY <1>1, <2>1, <2>2, Owing DEF Costs
  <2>4. Mine => spent' >= Retry \/ task.attempt < Retry
    BY <1>1, <2>1, <2>2, Owing
  <2>5. QED
    BY <1>1, <1>6, <2>1, <2>3, <2>4, RequestFails
<1>7. CASE /\ ~IsDirect /\ task.phase # "bits" /\ ~Connected(Via) /\ SelfDial /\ NoFault
           /\ UNCHANGED <<task, resolved>>
  <2>0. UNCHANGED <<site, cut, spent, task>>
    BY <1>1, <1>7 DEF NoFault
  <2>1. CASE task.via = "trial"
    <3>1. transport = None /\ transport' = None /\ site.mode = "auto"
      BY <1>1, <1>7, <2>1 DEF SelfDial, Inv, TaskInv, RetryInv, PlaceInv, At
    <3>2. ModeInv' /\ PlaceInv'
      BY <1>1, <2>0, <3>1 DEF RetryInv, ModeInv, PlaceInv, At, Reading
    <3>3. AliasInv' /\ CountInv' /\ RetriesMaskFaults'
      BY <3>1 DEF AliasInv, Unaliased, CountInv, Mine, RetriesMaskFaults
    <3>4. QED
      BY <3>2, <3>3 DEF RetryInv
  <2>2. CASE task.via = "transport"
    <3>1. /\ transport # None /\ Via = transport /\ transport \in TransportType /\ transport.mode \in Modes
          /\ trial = None
      BY <1>1, <1>7, <2>2 DEF IsDirect, Via, Inv, TypeOK, TransportType, TaskInv, At
    <3>2. Closed(SockOf(Via)) = [x \in Socks |-> None]
      BY <3>1, NoneAssumption DEF Inv, LinkInv, Closed, SockOf, Open, Holds
    <3>3. PICK s \in Socks :
            /\ s = CHOOSE x \in Socks : Closed(SockOf(Via))[x] = None
            /\ Closed(SockOf(Via))[s] = None
      BY <3>2, SocksAssumption
    <3>4. /\ socks' = [Closed(SockOf(Via)) EXCEPT ![s] = Socket(transport.mode)]
          /\ transport' = [mode |-> transport.mode, sock |-> s] /\ client' = AliasWithout(SockOf(Via))
      BY <1>7, <2>2, <3>1, <3>3 DEF SelfDial
    <3>5. socks'[s].up = "up"
      BY <3>2, <3>4 DEF Socket
    <3>6. /\ transport' # None /\ transport'.sock = s /\ transport'.mode = transport.mode
      BY <3>1, <3>4, NewTransport
    <3>7. Connected(transport)' /\ Up'
      BY <3>5, <3>6 DEF Connected, Live, Up
    <3>8. Mine => task.attempt >= 2 /\ Count(1)
      BY <1>2, <1>3, <1>7
    <3>9. ModeInv' /\ PlaceInv' /\ RetriesMaskFaults'
      BY <1>1, <2>0, <3>1, <3>6 DEF RetryInv, ModeInv, PlaceInv, RetriesMaskFaults, Sound, At, Reading
    <3>10. AliasInv'
      <4>1. task.phase = "words"
        BY <1>1, <1>7 DEF RetryInv, PlaceInv, TaskType
      <4>2. Sound /\ site.bits /\ ~cut => spent >= 2
        BY <1>1, <1>7, <3>1, <3>8, Owing DEF Mine, Count
      <4>3. QED
        BY <1>1, <2>0, <4>1, <4>2 DEF AliasInv, Sound, At
    <3>11. CountInv'
      <4>1. Mine' => Mine /\ Count(0)'
        BY <1>1, <1>2, <2>0, <2>2, <3>1 DEF Mine, Sound, RetryInv, CountInv, Count, Owe, Raw
      <4>2. QED
        BY <1>1, <1>7, <2>0, <3>7, <4>1 DEF CountInv, Aliased, At, RawTask, Reading
    <3>12. QED
      BY <3>9, <3>10, <3>11 DEF RetryInv
  <2>3. QED
    BY <1>1, <2>1, <2>2
<1>8. CASE /\ ~IsDirect /\ task.phase # "bits" /\ ~Connected(Via) /\ Stale(Via)
           /\ Broken("connection") /\ NoFault
  <2>1. spent' = spent
    BY <1>8 DEF NoFault
  <2>2. Mine => Costs(spent')
    BY <1>2, <1>3, <1>8, <2>1 DEF Count, Costs
  <2>3. Mine => ~Raw(site.speaks)
    BY <1>1, <1>2, <1>8 DEF Mine, Sound, RetryInv, ModeInv, Stale
  <2>4. QED
    BY <1>1, <1>8, <2>1, <2>2, <2>3, RequestFails
<1>9. QED
  BY <1>4, <1>5, <1>6, <1>7, <1>8 DEF SendUnconnected

-----------------------------------------------------------------------------
(* RTU frames over TCP                                                      *)

\* The stored transport and its stream, while a frame is sent or read.
LEMMA OwnStream ==
  ASSUME Inv, RetryInv, Mine, task.via = "transport", At("read") \/ RawTask, Connected(transport)
  PROVE  /\ Via = transport /\ transport.mode = site.speaks /\ transport.sock \in Socks
         /\ socks[transport.sock] \in SocketType /\ socks[transport.sock].framing = site.speaks
         /\ SockOf(Via) = {transport.sock} /\ Buffer = socks[transport.sock].heard
         /\ At("read") => socks[transport.sock].heard = <<>> /\ socks[transport.sock].owed = <<>>
<1>1. /\ Via = transport /\ transport.mode = site.speaks /\ transport.sock \in Socks
      /\ Open(transport.sock) /\ socks[transport.sock].framing = site.speaks
  BY DEF Mine, Via, Connected, Live, RetryInv, ModeInv, Inv, LinkInv, Framed, Holds
<1>2. socks[transport.sock] \in SocketType
  BY <1>1 DEF Inv, TypeOK, Open
<1>3. SockOf(Via) = {transport.sock} /\ Buffer = socks[transport.sock].heard
  BY <1>1 DEF SockOf, Buffer, Mine
<1>4. ASSUME At("read")
      PROVE  socks[transport.sock].heard = <<>> /\ socks[transport.sock].owed = <<>>
  <2>1. ~RawTask
    BY <1>4 DEF RawTask, At
  <2>2. QED
    BY <1>1, <2>1, Silence
<1>5. QED
  BY <1>1, <1>2, <1>3, <1>4

LEMMA FrameBegins == ASSUME Inv, RetryInv, SendFrame PROVE RetryInv'
<1>1. /\ At("read") /\ task.pc \in Reading /\ task \in TaskType /\ spent \in Nat /\ task.phase # "bits"
      /\ Connected(Via) /\ Raw(Via.mode) /\ task.attempt \in Nat /\ task.ask \in {1, 2}
      /\ UNCHANGED <<site, cut, transport, trial, client>>
  <2>1. task \in TaskType /\ task.attempt \in 1 .. Retry /\ task.ask \in {1, 2} /\ Retry \in Nat
    BY TaskEdits, RetryAssumption DEF Inv, TypeOK
  <2>2. QED
    BY <2>1 DEF SendFrame, Inv, TypeOK, At, Reading
<1>2. /\ task'.pc = "header" /\ task'.after = task.after /\ task'.phase = task.phase
      /\ task'.via = task.via /\ task'.attempt = task.attempt /\ task'.ask = 3 - task.ask
  <2>1. \A n : LET t == [[task EXCEPT !.ask = n, !.got = None] EXCEPT !.pc = "header"]
               IN  /\ t.pc = "header" /\ t.after = task.after /\ t.phase = task.phase
                   /\ t.via = task.via /\ t.attempt = task.attempt /\ t.ask = n
    BY <1>1 DEF TaskType
  <2>2. task' = [[task EXCEPT !.ask = 3 - task.ask, !.got = None] EXCEPT !.pc = "header"]
    BY DEF SendFrame, Asked
  <2>3. QED
    BY <2>1, <2>2
<1>3. Sound /\ site.bits => ~Unaliased
  <2>1. Unaliased => task.via = "transport" /\ Via = transport
    BY <1>1, TaskEdits DEF Unaliased, Via, Inv, TypeOK, TaskInv
  <2>2. QED
    BY <1>1, <2>1 DEF Unaliased, RetryInv, ModeInv, Sound
<1>4. ASSUME Mine, task.via = "transport" PROVE CountInv'
  <2>1. Via = transport
    BY <1>4 DEF Via
  <2>2. /\ transport.sock \in Socks /\ Raw(site.speaks) /\ Owe = 2 /\ socks[transport.sock] \in SocketType
        /\ socks[transport.sock].heard = <<>> /\ socks[transport.sock].owed = <<>>
    <3>1. /\ transport.sock \in Socks /\ transport.mode = site.speaks /\ socks[transport.sock] \in SocketType
          /\ socks[transport.sock].heard = <<>> /\ socks[transport.sock].owed = <<>>
      BY <1>1, <1>4, <2>1, OwnStream
    <3>2. QED
      BY <1>1, <2>1, <3>1 DEF Owe
  <2>3. PICK s \in Socks : s = transport.sock /\ socks[s] \in SocketType
          /\ socks[s].heard = <<>> /\ socks[s].owed = <<>>
    BY <2>2
  <2>4. PICK q : /\ socks' = [socks EXCEPT ![s].owed = q]
                 /\ \/ NoFault /\ (socks[s].up = "up" => q = <<>> \o Answer(3 - task.ask, FALSE))
                    \/ Fault
    BY <2>1, <2>2, <2>3 DEF SendFrame
  <2>5. socks'[s].heard = <<>> /\ socks'[s].owed = q /\ socks'[s].up = socks[s].up
        /\ socks'[s].framing = socks[s].framing
    BY <2>3, <2>4 DEF Inv, TypeOK, SocketType
  <2>6. Connected(transport) /\ Connected(transport)'
    BY <1>1, <2>1, <2>3, <2>5 DEF Connected, Live
  <2>7. /\ Count(0)
        /\ task.attempt >= 2 => Up
    BY <1>1, <1>4, <2>6 DEF RetryInv, CountInv
  <2>8. Owe' = 2
    BY <1>1, <2>2 DEF Owe, Raw
  <2>9. spent + 2 >= task.attempt
    BY <1>1, <2>2, <2>7 DEF Count
  <2>10. spent' \in Nat /\ spent' >= spent
    <3>1. Fault \/ NoFault
      BY DEF SendFrame
    <3>2. QED
      BY <1>1, <3>1 DEF Fault, NoFault
  <2>11. Count(0)'
    BY <1>1, <1>2, <2>8, <2>9, <2>10 DEF Count
  <2>12. Count(1)' \/ (Up /\ Sane(socks[transport.sock]))'
    <3>1. CASE Fault
      <4>1. spent' = spent + 1
        BY <3>1 DEF Fault
      <4>2. Count(1)'
        BY <1>1, <1>2, <2>8, <2>9, <4>1 DEF Count
      <4>3. QED
        BY <4>2
    <3>2. CASE task.attempt < 2
      <4>1. Count(1)'
        BY <1>1, <1>2, <2>8, <2>10, <3>2 DEF Count
      <4>2. QED
        BY <4>1
    <3>3. CASE ~Fault /\ task.attempt >= 2
      <4>1. socks[s].up = "up"
        BY <2>3, <2>7, <3>3 DEF Up
      <4>2. q = <<[of |-> 3 - task.ask, part |-> "header"], [of |-> 3 - task.ask, part |-> "rest"]>>
        <5>1. q = <<>> \o Answer(3 - task.ask, FALSE)
          BY <2>4, <3>3, <4>1
        <5>2. \A h, t : <<>> \o <<h, t>> = <<h, t>>
          OBVIOUS
        <5>3. QED
          BY <5>1, <5>2 DEF Answer
      <4>3. q = <<Header, Rest>>'
        BY <1>2, <4>2 DEF Header, Rest
      <4>4. Up'
        BY <1>1, <2>3, <2>5, <4>1 DEF Up
      <4>5. Sane(socks[transport.sock])'
        BY <1>1, <1>2, <2>3, <2>5, <4>3 DEF Sane, At
      <4>6. QED
        BY <4>4, <4>5
    <3>4. QED
      BY <1>1, <3>1, <3>2, <3>3
  <2>13. socks'[transport'.sock].heard = <<>>
    BY <1>1, <2>3, <2>5
  <2>14. QED
    BY <1>2, <2>6, <2>11, <2>12, <2>13 DEF CountInv, At, RawTask
<1>5. QED
  BY <1>1, <1>2, <1>3, <1>4, Requesting DEF Reading

\* What is known of the stream while an answer is read from it.
LEMMA Midway ==
  ASSUME Inv, RetryInv, Mine, task.via = "transport", RawTask
  PROVE  /\ Via = transport /\ transport.sock \in Socks /\ socks[transport.sock] \in SocketType
         /\ SockOf(Via) = {transport.sock} /\ Buffer = socks[transport.sock].heard
         /\ Raw(site.speaks) /\ Owe = 2 /\ Connected(transport) /\ Count(0)
         /\ Count(1) \/ (Up /\ Sane(socks[transport.sock]))
         /\ Buffer # <<>> \/ At("rest") => Up
<1>1. /\ task.pc \in Reading /\ Count(0)
      /\ Count(1) \/ (Up /\ Sane(socks[transport.sock]))
      /\ At("rest") => Up
      /\ At("header") => Connected(transport) /\ (Up \/ socks[transport.sock].heard = <<>>)
  BY DEF RetryInv, CountInv, RawTask, At, Reading
<1>2. Connected(transport)
  BY <1>1 DEF RawTask, Up, Connected, Live, Mine
<1>3. /\ Via = transport /\ transport.mode = site.speaks /\ transport.sock \in Socks
      /\ socks[transport.sock] \in SocketType
      /\ SockOf(Via) = {transport.sock} /\ Buffer = socks[transport.sock].heard
  BY <1>2, OwnStream
<1>4. Raw(site.speaks)
  BY <1>3 DEF Inv, TaskInv
<1>5. QED
  BY <1>1, <1>2, <1>3, <1>4 DEF Owe, RawTask

LEMMA HeaderRetries == ASSUME Inv, RetryInv, ReadHeader PROVE RetryInv'
<1>1. /\ At("header") /\ RawTask /\ task.pc \in Reading /\ task \in TaskType /\ Buffer # <<>> /\ socks' = Taken
      /\ UNCHANGED <<site, cut, spent, transport, trial, client>>
      /\ task' = [task EXCEPT !.pc = "rest", !.got = Head(Buffer)]
  BY DEF ReadHeader, NoFault, Inv, TypeOK, At, Reading, RawTask
<1>2. /\ task'.pc = "rest" /\ task'.after = task.after /\ task'.phase = task.phase /\ task'.ask = task.ask
      /\ task'.via = task.via /\ task'.attempt = task.attempt /\ task'.got = Head(Buffer)
  BY <1>1 DEF TaskType
<1>3. ~(Sound /\ site.bits /\ Unaliased)
  BY <1>1 DEF RetryInv, AliasInv, At
<1>4. ASSUME Mine, task.via = "transport" PROVE CountInv'
  <2>1. PICK s \in Socks :
          /\ s = transport.sock /\ Via = transport /\ socks[s] \in SocketType /\ Buffer = socks[s].heard
          /\ Count(0) /\ Up /\ (Count(1) \/ Sane(socks[s]))
    BY <1>1, <1>4, Midway
  <2>2. /\ socks'[s].heard = Tail(socks[s].heard) /\ socks'[s].owed = socks[s].owed /\ socks'[s].up = "up"
    BY <1>1, <2>1 DEF Taken, Inv, TypeOK, SocketType, Up
  <2>3. Up' /\ transport'.sock = s
    BY <1>1, <2>1, <2>2 DEF Up
  <2>4. Count(0)' /\ (Count(1) => Count(1)')
    BY <1>1, <1>2, <2>1 DEF Count, Owe, Raw
  <2>5. Sane(socks[s]) => Sane(socks[transport.sock])'
    <3>1. ASSUME Sane(socks[s])
          PROVE  /\ Head(Buffer) = Header
                 /\ \/ Tail(socks[s].heard) = <<>> /\ socks[s].owed = <<Rest>>
                    \/ Tail(socks[s].heard) = <<Rest>> /\ socks[s].owed = <<>>
      <4>1. \/ socks[s].heard = <<Header>> /\ socks[s].owed = <<Rest>>
            \/ socks[s].heard = <<Header, Rest>> /\ socks[s].owed = <<>>
        BY <1>1, <2>1, <3>1 DEF Sane, At
      <4>2. \A h, t : /\ Head(<<h>>) = h /\ Tail(<<h>>) = <<>>
                      /\ Head(<<h, t>>) = h /\ Tail(<<h, t>>) = <<t>>
        OBVIOUS
      <4>3. QED
        BY <2>1, <4>1, <4>2
    <3>2. Header' = Header /\ Rest' = Rest
      BY <1>2 DEF Header, Rest
    <3>3. QED
      BY <1>2, <2>2, <2>3, <3>1, <3>2 DEF Sane, At
  <2>6. QED
    BY <1>2, <2>1, <2>3, <2>4, <2>5 DEF CountInv, At, RawTask
<1>5. QED
  BY <1>1, <1>2, <1>3, <1>4, Requesting DEF Reading

LEMMA RestRetries == ASSUME Inv, RetryInv, ReadRest PROVE RetryInv'
<1>1. /\ At("rest") /\ RawTask /\ task.pc \in Reading /\ task \in TaskType /\ Buffer # <<>> /\ socks' = Taken
      /\ task.via \in {"transport", "trial"} /\ spent \in Nat /\ UNCHANGED <<site, cut, spent>>
  <2>1. task \in TaskType /\ task.via \in {"transport", "trial"} /\ spent \in Nat
    BY TaskEdits DEF Inv, TypeOK
  <2>2. QED
    BY <2>1 DEF ReadRest, Answered, NoFault, At, Reading, RawTask
<1>2. PICK r \in {"ok", "exception"} : Answered(r, Taken) /\ (r = "exception" => task.got.part # "header")
  BY DEF ReadRest
<1>3. Raw(site.speaks) /\ Raw(Via.mode)
  BY <1>1, Reads DEF Inv, TaskInv
<1>4. CASE task.via = "trial"
  <2>1. ProbeAnswered /\ trial.mode = site.speaks /\ Raw(trial.mode)
    BY <1>2, <1>3, <1>4 DEF Answered, Raw, Via
  <2>2. PICK s : s = trial.sock
    OBVIOUS
  <2>3. QED
    BY <1>1, <1>4, <2>1, <2>2, ProbeSucceeds
<1>5. CASE task.via = "transport"
  <2>1. ReadAnswered(r) /\ UNCHANGED <<transport, trial, client>>
    BY <1>2, <1>5 DEF Answered
  <2>2. ASSUME Mine PROVE Up' /\ Connected(transport)'
    <3>1. PICK s \in Socks : s = transport.sock /\ Via = transport /\ socks[s] \in SocketType /\ Up
      BY <1>1, <1>5, <2>2, Midway
    <3>2. socks'[s].up = "up"
      BY <1>1, <3>1 DEF Taken, Inv, TypeOK, SocketType, Up
    <3>3. QED
      BY <2>1, <2>2, <3>1, <3>2 DEF Up, Connected, Live, Mine
  <2>3. ASSUME Mine, r = "exception" PROVE Costs(spent')
    <3>1. ~Sane(socks[transport.sock])
      BY <1>1, <1>2, <2>3 DEF Sane, Header, At
    <3>2. Count(1)
      BY <1>1, <1>5, <2>3, <3>1, Midway
    <3>3. QED
      BY <1>1, <3>2 DEF Count, Costs
  <2>4. spent' \in Nat /\ spent' >= spent
    BY <1>1
  <2>5. QED
    BY <1>1, <1>3, <1>5, <2>1, <2>2, <2>3, <2>4, ReadSucceeds
<1>6. QED
  BY <1>1, <1>4, <1>5

LEMMA BadRetries == ASSUME Inv, RetryInv, BadFrame PROVE RetryInv'
<1>1. /\ RawTask /\ task.pc \in Reading /\ "io" \in Transient /\ spent' \in Nat /\ Broken("io")
      /\ UNCHANGED <<site, cut, spent>>
  BY DEF BadFrame, NoFault, RawTask, At, Reading, Transient, Inv, TypeOK
<1>2. ASSUME Mine, task.via = "transport" PROVE Costs(spent')
  <2>1. PICK s \in Socks :
          /\ s = transport.sock /\ Via = transport /\ Buffer = socks[s].heard /\ SockOf(Via) = {s}
          /\ Count(1) \/ (Up /\ Sane(socks[s]))
    BY <1>1, <1>2, Midway
  <2>2. ASSUME Up, Sane(socks[s]) PROVE FALSE
    <3>1. Buffer # <<>>
      BY <2>1, <2>2 DEF BadFrame, Silent, Up
    <3>2. \A h, t : Head(<<h>>) = h /\ Head(<<h, t>>) = h
      OBVIOUS
    <3>3. CASE At("header")
      <4>1. Head(Buffer) = Header
        BY <2>1, <2>2, <3>1, <3>2, <3>3 DEF Sane, At
      <4>2. Head(Buffer).part \notin {"header", "exception"}
        BY <3>1, <3>3 DEF BadFrame
      <4>3. QED
        BY <4>1, <4>2 DEF Header
    <3>4. CASE ~At("header")
      <4>1. Head(Buffer) = Rest /\ task.got = Header
        BY <2>1, <2>2, <3>1, <3>2, <3>4 DEF Sane
      <4>2. Head(Buffer) # [of |-> task.got.of, part |-> "rest"]
        BY <3>1, <3>4 DEF BadFrame
      <4>3. QED
        BY <4>1, <4>2 DEF Header, Rest
    <3>5. QED
      BY <3>3, <3>4
  <2>3. QED
    BY <1>1, <2>1, <2>2 DEF Count, Costs
<1>3. QED
  BY <1>1, <1>2, RequestFails

LEMMA LateRetries == ASSUME Inv, RetryInv, FrameTimesOut PROVE RetryInv'
<1>1. /\ RawTask /\ task.pc \in Reading /\ "timeout" \in Transient /\ Broken("timeout") /\ spent \in Nat
      /\ UNCHANGED <<site, cut>>
  BY DEF FrameTimesOut, RawTask, At, Reading, Transient, Inv, TypeOK
<1>2. spent' \in Nat
  <2>1. Fault \/ NoFault
    BY DEF FrameTimesOut
  <2>2. QED
    BY <1>1, <2>1 DEF Fault, NoFault
<1>3. ASSUME Mine, task.via = "transport" PROVE Costs(spent')
  <2>1. PICK s \in Socks :
          /\ s = transport.sock /\ Via = transport /\ Buffer = socks[s].heard
          /\ Count(0) /\ (Count(1) \/ Sane(socks[s]))
    BY <1>1, <1>3, Midway
  <2>2. CASE socks[s].owed = <<>>
    <3>1. spent' = spent /\ socks[s].heard = <<>>
      BY <2>1, <2>2 DEF FrameTimesOut, NoFault, Silent
    <3>2. \A h, t : <<h>> # <<>> /\ <<h, t>> # <<>>
      OBVIOUS
    <3>3. ~Sane(socks[s])
      BY <2>2, <3>1, <3>2 DEF Sane
    <3>4. QED
      BY <2>1, <3>1, <3>3 DEF Count, Costs
  <2>3. CASE socks[s].owed # <<>>
    <3>1. spent' = spent + 1
      BY <2>1, <2>3 DEF FrameTimesOut, Fault
    <3>2. task.attempt \in Nat
      <4>1. task.attempt \in 1 .. Retry
        BY TaskEdits DEF Inv, TypeOK
      <4>2. QED
        BY <4>1, RetryAssumption
    <3>3. QED
      BY <1>1, <2>1, <3>1, <3>2, Owing DEF Count, Costs
  <2>4. QED
    BY <2>2, <2>3
<1>4. QED
  BY <1>1, <1>2, <1>3, RequestFails

-----------------------------------------------------------------------------
(* The network and the others                                               *)

\* A socket changes: it is cut, or it stays up or comes up again, and an answer
\* that is whole stays whole or a fault is counted.
LEMMA SocketMoves ==
  ASSUME Inv, RetryInv, NEW s \in Socks, Open(s), NEW new \in SocketType,
         socks' = [socks EXCEPT ![s] = new], UNCHANGED <<site, transport, trial, client, task>>,
         spent' \in Nat, spent' >= spent, cut => cut',
         ~cut' => /\ new.up = "up"
                  /\ socks[s].up # "up" => ~Raw(socks[s].framing)
                  /\ new.framing = socks[s].framing
                  /\ Sane(socks[s]) => Sane(new) \/ spent' >= spent + 1
  PROVE  RetryInv'
<1>1. /\ \A x \in Socks : x # s => socks'[x] = socks[x]
      /\ socks'[s] = new /\ socks[s] \in SocketType
      /\ spent \in Nat /\ task \in TaskType
  BY DEF Inv, TypeOK, Open
<1>2. task.attempt \in Nat
  <2>1. task.attempt \in 1 .. Retry
    BY <1>1, TaskEdits
  <2>2. QED
    BY <2>1, RetryAssumption
<1>3. ModeInv' /\ PlaceInv'
  BY DEF RetryInv, ModeInv, PlaceInv, Sound, At, Reading, Unlinked
<1>4. \A n \in Nat : spent >= n => spent' >= n
  BY <1>1
<1>5. spent >= 2 => spent' >= 2
  BY <1>4
<1>6. Paid => Paid'
  <2>1. spent >= Retry => spent' >= Retry
    BY <1>4, RetryAssumption
  <2>2. QED
    BY <1>5, <2>1 DEF Paid
<1>7. AliasInv'
  BY <1>5 DEF RetryInv, AliasInv, Unaliased, Unlinked, Sound, At
<1>8. RetriesMaskFaults'
  <2>1. RetriesMaskFaults' <=> (At("idle") /\ task.result = "failed" /\ Sound /\ transport # None /\ ~cut' => Paid')
    BY DEF RetriesMaskFaults, Paid, Sound, At
  <2>2. At("idle") /\ task.result = "failed" /\ Sound /\ transport # None /\ ~cut => Paid
    BY DEF RetryInv, RetriesMaskFaults, Paid
  <2>3. QED
    BY <1>6, <2>1, <2>2
<1>9. ASSUME Mine', task.via = "transport" PROVE CountInv'
  <2>1. Mine /\ ~cut'
    BY <1>9 DEF Mine, Sound
  <2>2. \A x \in Socks : Live(x) => Live(x)'
    BY <1>1, <2>1 DEF Live
  <2>3. Connected(transport) => Connected(transport)'
    BY <2>2, NoneAssumption DEF Connected, Live
  <2>4. Live(client) => Live(client)'
    BY <2>2 DEF Live
  <2>5. Up => Up'
    BY <1>1, <2>1 DEF Up
  <2>6. Connected(transport)' /\ ~Up' => Connected(transport) /\ ~Up
    BY <1>1, <2>1 DEF Connected, Up, Live, Mine
  <2>7. Count(0) => Count(0)'
    BY <1>1, <1>2, Owing DEF Count, Owe, Raw
  <2>8. Count(1) => Count(1)'
    BY <1>1, <1>2, Owing DEF Count, Owe, Raw
  <2>9. ASSUME RawTask
        PROVE  /\ Count(1)' \/ (Up' /\ Sane(socks[transport.sock])')
               /\ Up' \/ socks'[transport.sock].heard = socks[transport.sock].heard
    <3>1. /\ transport.sock \in Socks /\ socks[transport.sock] \in SocketType /\ Raw(socks[transport.sock].framing)
          /\ Count(0) /\ (Count(1) \/ (Up /\ Sane(socks[transport.sock]))) /\ Raw(site.speaks)
      <4>1. /\ transport.sock \in Socks /\ socks[transport.sock] \in SocketType /\ Raw(site.speaks)
            /\ Count(0) /\ (Count(1) \/ (Up /\ Sane(socks[transport.sock]))) /\ Connected(transport)
        BY <1>9, <2>1, <2>9, Midway
      <4>2. socks[transport.sock].framing = site.speaks
        BY <1>9, <2>1, <2>9, <4>1, OwnStream
      <4>3. QED
        BY <4>1, <4>2
    <3>2. CASE transport.sock # s
      <4>1. socks'[transport.sock] = socks[transport.sock]
        BY <1>1, <3>1, <3>2
      <4>2. Sane(socks[transport.sock]) => Sane(socks[transport.sock])'
        BY <4>1 DEF Sane, Header, Rest, At
      <4>3. QED
        BY <2>5, <2>8, <3>1, <4>1, <4>2
    <3>3. CASE transport.sock = s
      <4>1. Up'
        BY <1>1, <2>1, <3>3 DEF Up
      <4>2. Sane(new) => Sane(socks[transport.sock])'
        BY <1>1, <3>3 DEF Sane, Header, Rest, At
      <4>3. ASSUME spent' >= spent + 1 PROVE Count(1)'
        BY <1>1, <1>2, <3>1, <4>3, Owing DEF Count, Owe, Raw
      <4>4. Sane(socks[s]) => Sane(new) \/ Count(1)'
        BY <2>1, <4>3
      <4>5. QED
        BY <2>8, <3>1, <3>3, <4>1, <4>2, <4>4
    <3>4. QED
      BY <3>2, <3>3
  <2>10. CountInv => CountInv'
    <3>1. ASSUME CountInv
          PROVE  /\ (At("ensure") \/ At("dial")) /\ task.after = "read" => Count(0)'
                 /\ At("phase") => /\ task.phase = "words" => Connected(transport)'
                                   /\ task.phase = "bits" => Live(client)' \/ Paid'
                 /\ task.pc \in Reading => Count(0)'
      BY <1>6, <1>9, <2>1, <2>3, <2>4, <2>7, <3>1 DEF CountInv
    <3>2. ASSUME CountInv
          PROVE  /\ At("read") => /\ Connected(transport)' /\ task.attempt >= 2 => Up'
                                  /\ (Connected(transport)' /\ Aliased) \/ (task.attempt >= 2 /\ Count(1)')
                 /\ At("wait") \/ At("rest") => Up'
                 /\ At("wait") => ~Raw(site.speaks)
      BY <1>9, <2>1, <2>3, <2>5, <2>6, <2>8, <3>2 DEF CountInv
    <3>3. ASSUME CountInv
          PROVE  /\ At("header") => Connected(transport)' /\ (Up' \/ socks'[transport.sock].heard = <<>>)
                 /\ RawTask => Count(1)' \/ (Up' /\ Sane(socks[transport.sock])')
      BY <1>9, <2>1, <2>3, <2>5, <2>9, <3>3 DEF CountInv, RawTask
    <3>4. QED
      BY <3>1, <3>2, <3>3 DEF CountInv, At, RawTask, Aliased
  <2>11. QED
    BY <2>10 DEF RetryInv
<1>10. CountInv'
  BY <1>9 DEF CountInv
<1>11. QED
  BY <1>3, <1>7, <1>8, <1>10 DEF RetryInv

LEMMA Appending == ASSUME NEW h \in Pieces, NEW t \in Pieces PROVE Append(<<h>>, t) = <<h, t>>
<1>1. <<h>> \in Seq(Pieces) /\ <<h, t>> \in Seq(Pieces) /\ Len(<<h>>) = 1 /\ Len(<<h, t>>) = 2
  OBVIOUS
<1>2. Append(<<h>>, t) \in Seq(Pieces) /\ Len(Append(<<h>>, t)) = 2
  BY <1>1
<1>3. \A i \in 1 .. 2 : Append(<<h>>, t)[i] = <<h, t>>[i]
  BY <1>1
<1>4. QED
  BY <1>1, <1>2, <1>3, SeqEqual

LEMMA NetworkRetries == ASSUME Inv, RetryInv, NEW s \in Socks, Arrive(s) \/ Drop(s) \/ AutoRedial(s) PROVE RetryInv'
<1>1. /\ Open(s) /\ socks[s] \in SocketType /\ UNCHANGED <<site, transport, trial, client, task>> /\ spent \in Nat
      /\ socks \in [Socks -> SocketType \cup {None}]
  BY DEF Inv, TypeOK, Arrive, Drop, AutoRedial, Open
<1>2. /\ spent' \in Nat /\ spent' >= spent
      /\ Fault => spent' >= spent + 1
  <2>1. Fault \/ NoFault
    BY DEF Arrive, Drop, AutoRedial
  <2>2. QED
    BY <1>1, <2>1 DEF Fault, NoFault
<1>3. CASE Arrive(s)
  <2>1. /\ socks[s].up = "up" /\ cut' = cut
        /\ socks[s].heard \in Seq(Pieces) /\ socks[s].owed \in Seq(Pieces) /\ socks[s].owed # <<>>
    BY <1>1, <1>3 DEF Arrive, SocketType
  <2>2. PICK x \in Pieces :
          /\ x = Head(socks[s].owed) \/ Fault
          /\ socks' = [socks EXCEPT ![s].heard = Append(socks[s].heard, x), ![s].owed = Tail(socks[s].owed)]
    <3>1. Head(socks[s].owed) \in Pieces
      BY <2>1
    <3>2. [of |-> None, part |-> "noise"] \in Pieces
      BY DEF Pieces
    <3>3. QED
      BY <1>3, <3>1, <3>2 DEF Arrive
  <2>3. PICK new \in SocketType :
          /\ socks' = [socks EXCEPT ![s] = new] /\ new.framing = socks[s].framing /\ new.up = "up"
          /\ new.heard = Append(socks[s].heard, x) /\ new.owed = Tail(socks[s].owed)
    <3>1. Append(socks[s].heard, x) \in Seq(Pieces) /\ Tail(socks[s].owed) \in Seq(Pieces)
      BY <2>1, <2>2
    <3>2. \A h, o \in Seq(Pieces) :
            LET t == [socks[s] EXCEPT !.heard = h, !.owed = o]
            IN  t \in SocketType /\ t.framing = socks[s].framing /\ t.up = socks[s].up /\ t.heard = h /\ t.owed = o
      BY <1>1 DEF SocketType
    <3>3. PICK h \in Seq(Pieces), o \in Seq(Pieces) : h = Append(socks[s].heard, x) /\ o = Tail(socks[s].owed)
      BY <3>1
    <3>4. PICK new : new = [socks[s] EXCEPT !.heard = h, !.owed = o]
      OBVIOUS
    <3>5. /\ new \in SocketType /\ new.framing = socks[s].framing /\ new.up = socks[s].up
          /\ new.heard = h /\ new.owed = o
      BY <3>2, <3>4, ZenonT(40)
    <3>6. socks' = [socks EXCEPT ![s] = new]
      BY <1>1, <2>2, <3>3, <3>4
    <3>7. QED
      BY <2>1, <3>3, <3>5, <3>6
  <2>4. ASSUME Sane(socks[s]), ~Fault PROVE Sane(new)
    <3>1. x = Head(socks[s].owed) /\ Header \in Pieces /\ Rest \in Pieces
      <4>1. task.ask \in {1, 2}
        BY TaskEdits DEF Inv, TypeOK
      <4>2. QED
        BY <2>2, <2>4, <4>1 DEF Header, Rest, Pieces
    <3>2. /\ \A h \in Pieces : Append(<<>>, h) = <<h>> /\ Head(<<h>>) = h /\ Tail(<<h>>) = <<>>
          /\ \A h, t \in Pieces : Append(<<h>>, t) = <<h, t>> /\ Head(<<h, t>>) = h /\ Tail(<<h, t>>) = <<t>>
      BY Appending
    <3>3. CASE socks[s].heard = <<>> /\ socks[s].owed = <<Header, Rest>> /\ At("header")
      BY <2>3, <3>1, <3>2, <3>3 DEF Sane
    <3>4. CASE socks[s].heard = <<Header>> /\ socks[s].owed = <<Rest>> /\ At("header")
      BY <2>3, <3>1, <3>2, <3>4 DEF Sane
    <3>5. CASE socks[s].heard = <<>> /\ socks[s].owed = <<Rest>> /\ At("rest") /\ task.got = Header
      BY <2>3, <3>1, <3>2, <3>5 DEF Sane
    <3>6. QED
      BY <2>1, <2>4, <3>3, <3>4, <3>5 DEF Sane
  <2>5. Sane(socks[s]) => Sane(new) \/ spent' >= spent + 1
    BY <1>2, <2>4
  <2>6. QED
    BY <1>1, <1>2, <2>1, <2>3, <2>5, SocketMoves
<1>4. CASE Drop(s)
  <2>1. PICK up \in {"down", "ended"} : socks' = [socks EXCEPT ![s] = [socks[s] EXCEPT !.up = up, !.owed = <<>>]]
    BY <1>1, <1>4 DEF Drop
  <2>2. <<>> \in Seq(Pieces)
    OBVIOUS
  <2>3. PICK new \in SocketType : socks' = [socks EXCEPT ![s] = new]
    BY <1>1, <2>1, <2>2 DEF SocketType
  <2>4. cut' /\ (cut => cut')
    BY <1>4 DEF Drop
  <2>5. QED
    BY <1>1, <1>2, <2>3, <2>4, SocketMoves
<1>5. CASE AutoRedial(s)
  <2>1. PICK new \in SocketType : /\ socks' = [socks EXCEPT ![s] = new]
                                  /\ new.framing = socks[s].framing /\ new.up = "up"
    <3>1. socks[s].framing \in Modes /\ socks' = [socks EXCEPT ![s] = Socket(socks[s].framing)]
      BY <1>1, <1>5 DEF AutoRedial, SocketType
    <3>2. QED
      BY <3>1, NewSocket DEF Socket
  <2>2. /\ cut' = cut /\ ~Raw(socks[s].framing)
    BY <1>5 DEF AutoRedial
  <2>3. Sane(socks[s]) => FALSE
    <3>1. CASE RawTask
      <4>1. Via # None /\ Raw(Via.mode) /\ s = Via.sock
        BY <1>1, <3>1, RawVia
      <4>2. socks[s].framing = Via.mode
        BY <1>1, <4>1 DEF Via, Inv, LinkInv, Framed, Holds
      <4>3. QED
        BY <2>2, <4>1, <4>2
    <3>2. CASE ~RawTask
      BY <3>2 DEF Sane, RawTask
    <3>3. QED
      BY <3>1, <3>2
  <2>4. QED
    BY <1>1, <1>2, <2>1, <2>2, <2>3, SocketMoves
<1>6. QED
  BY <1>3, <1>4, <1>5

LEMMA StopRetries == ASSUME Inv, RetryInv, Stop PROVE RetryInv'
<1>1. /\ UNCHANGED <<site, task>> /\ cut' = TRUE /\ ~At("dial") /\ Disconnect
  BY DEF Stop
<1>2. /\ Unlinked(transport') /\ trial' = None /\ client' = None
      /\ transport' = None <=> transport = None
      /\ transport # None => transport'.mode = transport.mode
  BY <1>1, Disconnecting DEF Inv, AllClosed
<1>3. ModeInv' /\ PlaceInv' /\ AliasInv'
  BY <1>1, <1>2 DEF RetryInv, ModeInv, PlaceInv, AliasInv, Unaliased, Sound, At, Reading
<1>4. CountInv' /\ RetriesMaskFaults'
  BY <1>1 DEF CountInv, Mine, RetriesMaskFaults
<1>5. QED
  BY <1>3, <1>4 DEF RetryInv

LEMMA StartRetries == ASSUME Inv, RetryInv, StartCycle PROVE RetryInv'
<1>1. /\ At("idle") /\ UNCHANGED <<site, transport, trial, client>>
      /\ task' = [Idle(task.result) EXCEPT !.pc = "ensure"]
  BY DEF StartCycle, link
<1>2. /\ task'.pc = "ensure" /\ task'.after = "phase" /\ task'.phase = "words" /\ task'.attempt = 1
      /\ task'.via = "transport"
  BY <1>1 DEF Idle
<1>3. ModeInv' /\ PlaceInv' /\ RetriesMaskFaults'
  BY <1>1, <1>2 DEF RetryInv, ModeInv, PlaceInv, RetriesMaskFaults, Sound, At, Reading
<1>4. AliasInv'
  BY <1>1 DEF RetryInv, AliasInv, Unaliased, Unlinked, Sound, At
<1>5. CountInv'
  BY <1>2 DEF CountInv, At, RawTask, Reading
<1>6. QED
  BY <1>3, <1>4, <1>5 DEF RetryInv

LEMMA NextRetries == ASSUME Inv, RetryInv, [Next]_vars PROVE RetryInv'
<1>1. CASE UNCHANGED vars
  <2>1. UNCHANGED <<site, socks, transport, trial, client, task, spent, cut>>
    BY <1>1 DEF vars, link
  <2>2. ModeInv' /\ PlaceInv' /\ AliasInv' /\ RetriesMaskFaults'
    BY <2>1 DEF RetryInv, ModeInv, PlaceInv, AliasInv, Unaliased, Unlinked, RetriesMaskFaults, Sound, At, Reading
  <2>3. CountInv'
    BY <2>1 DEF RetryInv, CountInv, Mine, Sound, At, RawTask, Reading, Count, Owe, Paid, Up, Sane, Header, Rest,
                Aliased, Connected, Live, Raw
  <2>4. QED
    BY <2>2, <2>3 DEF RetryInv
<1>2. CASE Cancel
  BY <1>2, GivingUp DEF Cancel, Results
<1>3. CASE Read
  BY <1>3, PhaseRetries, FrameBegins, PymodbusRetries, UnconnectedRetries, EndsRetry, EndRetries DEF Read
<1>4. CASE Frame
  BY <1>4, HeaderRetries, RestRetries, BadRetries, LateRetries DEF Frame
<1>5. QED
  BY <1>1, <1>2, <1>3, <1>4, StartRetries, ChooseRetries, NetworkRetries, StopRetries DEF Next, Network

LEMMA InitRetries == ASSUME Init PROVE RetryInv
<1>1. /\ transport = None /\ client = None /\ task.pc = "idle" /\ task.after = "phase"
      /\ task.phase = "words" /\ task.via = "transport"
  BY DEF Init, Idle
<1>2. QED
  BY <1>1 DEF RetryInv, ModeInv, PlaceInv, AliasInv, Unaliased, CountInv, Mine, RetriesMaskFaults, At, Reading

-----------------------------------------------------------------------------
(* Theorem                                                                  *)

\* Over a transport that is configured right and was not cut, a cycle fails
\* only when every attempt of a read met a fault; where the unit has bits, two
\* faults are enough, since bits are not read without the alias that a dial
\* that fails takes away.  For any number of attempts and faults, whatever the
\* cycles before have left behind.
THEOREM FaultsAreMasked == Spec => []RetriesMaskFaults
<1>1. Init => Inv /\ RetryInv
  BY InitInv, InitRetries
<1>2. Inv /\ RetryInv /\ [Next]_vars => Inv' /\ RetryInv'
  BY NextStep, NextRetries
<1>3. RetryInv => RetriesMaskFaults
  BY DEF RetryInv
<1>4. QED
  BY <1>1, <1>2, <1>3, PTL DEF Spec
=============================================================================
