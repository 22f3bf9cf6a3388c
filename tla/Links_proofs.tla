---------------------------- MODULE Links_proofs ----------------------------
(***************************************************************************)
(* The safety invariants of Links, for any installations, sockets, attempts *)
(* and faults: one open connection, answers that belong to their requests,  *)
(* and an automatic choice that is right.                                  *)
(***************************************************************************)
EXTENDS Links, FiniteSetTheorems, TLAPS

Reading == {"read", "wait", "header", "rest"}
Open(s) == socks[s] # None
Holds(tr, s) == tr # None /\ tr.sock = s
Unlinked(tr) == tr # None => tr.sock = None

\* Where an open socket is held: by the transport or its trial, never by both,
\* or by a direct client; and in which framing.
Framed(tr) == \A s \in Socks : Holds(tr, s) => Open(s) /\ socks[s].framing = tr.mode
LinkInv ==
  /\ \A s \in Socks : Open(s) => Holds(transport, s) \/ Holds(trial, s) \/ client = s
  /\ transport # None /\ client \in Socks => transport.sock = client
  /\ trial # None => client = None /\ Unlinked(transport)
  /\ Framed(transport) /\ Framed(trial)

\* What the poll knows of the link where it is.
TaskInv ==
  /\ At("dial") => trial # None /\ trial.sock = None
  /\ At("trial") => trial # None /\ trial.sock = None /\ transport = None /\ task.order # <<>>
  /\ At("direct") => transport = None /\ client = None
  /\ At("redial") => transport = None
  /\ task.via = "trial" => trial # None /\ transport = None /\ task.order # <<>> /\ task.pc \in Reading
  /\ trial # None => At("dial") \/ At("trial") \/ task.via = "trial"
  /\ RawTask => Via # None /\ Raw(Via.mode)

\* What is left of the answer to the last request: at most its two pieces while
\* it is read, and nothing otherwise.
Due == IF At("header") THEN 2 ELSE IF At("rest") THEN 1 ELSE 0
Belong(pieces) == \A i \in 1 .. Len(pieces) : pieces[i].part # "noise" => pieces[i].of = task.ask
StreamInv ==
  /\ \A s \in Socks : Open(s) =>
       /\ Len(socks[s].heard) + Len(socks[s].owed) <= Due
       /\ Belong(socks[s].heard) /\ Belong(socks[s].owed)
       /\ ~Raw(site.speaks) => socks[s].heard = <<>> /\ socks[s].owed = <<>>
  /\ AnswersMatch

Inv == TypeOK /\ LinkInv /\ TaskInv /\ StreamInv /\ ResolvedIsSpoken

-----------------------------------------------------------------------------
(* Records and counters                                                    *)

Afters == {"phase", "read", "final"}
LEMMA TaskEdits ==
  ASSUME NEW x \in TaskType
  PROVE  /\ x.pc \in Pcs /\ x.after \in Afters /\ x.via \in {"transport", "trial"} /\ x.ask \in {1, 2}
         /\ x.attempt \in 1 .. Retry /\ x.order \in Seq(Modes) /\ x.got \in Pieces \cup {None}
         /\ \A c \in Pcs : [x EXCEPT !.pc = c] \in TaskType
         /\ \A c \in Pcs, a \in Afters : [x EXCEPT !.pc = c, !.after = a] \in TaskType
         /\ \A c \in Pcs, o \in Seq(Modes) : [x EXCEPT !.pc = c, !.order = o] \in TaskType
         /\ \A c \in Pcs, v \in {"transport", "trial"} : [x EXCEPT !.pc = c, !.via = v] \in TaskType
         /\ \A c \in Pcs, v \in {"transport", "trial"}, o \in Seq(Modes) :
              [x EXCEPT !.pc = c, !.via = v, !.order = o] \in TaskType
         /\ \A c \in Pcs, g \in Pieces \cup {None} : [x EXCEPT !.pc = c, !.got = g] \in TaskType
  BY DEF TaskType, Afters
LEMMA PhaseEnds ==
  ASSUME task \in TaskType, NEW b \in BOOLEAN, NextPhase(b)
  PROVE  task' \in TaskType /\ task'.pc = "phase" /\ task'.via = task.via /\ task'.ask = task.ask
<1>1. 1 \in 1 .. Retry /\ (task.partial \/ b) \in BOOLEAN /\ "phase" \in Pcs
  BY RetryAssumption DEF TaskType, Pcs
<1>2. PICK ph \in {"bits", "end"}, pt \in BOOLEAN :
        task' = [task EXCEPT !.pc = "phase", !.attempt = 1, !.partial = pt, !.phase = ph]
  <2>1. task' = [task EXCEPT !.pc = "phase", !.attempt = 1, !.partial = task.partial \/ b,
                             !.phase = IF task.phase = "words" /\ site.bits THEN "bits" ELSE "end"]
    BY DEF NextPhase
  <2>2. QED
    BY <1>1, <2>1
<1>3. QED
  BY <1>1, <1>2 DEF TaskType
LEMMA IdleType == ASSUME NEW r \in Results PROVE Idle(r) \in TaskType
<1>1. <<>> \in Seq(Modes) /\ 1 \in 1 .. Retry
  BY RetryAssumption
<1>2. QED
  BY <1>1 DEF Idle, TaskType, Pcs
LEMMA NewSocket ==
  ASSUME NEW f \in Modes
  PROVE  /\ Socket(f) \in SocketType /\ Socket(f) # None /\ Socket(f).framing = f
         /\ Socket(f).heard = <<>> /\ Socket(f).owed = <<>>
<1>1. <<>> \in Seq(Pieces)
  OBVIOUS
<1>2. Socket(f) \in SocketType
  BY <1>1 DEF Socket, SocketType
<1>3. QED
  BY <1>2, NoneAssumption DEF Socket
LEMMA NewTransport ==
  ASSUME NEW m \in Modes, NEW s \in Socks \cup {None}
  PROVE  [mode |-> m, sock |-> s] \in TransportType /\ [mode |-> m, sock |-> s] # None
  BY NoneAssumption DEF TransportType
LEMMA Unsetting ==
  ASSUME NEW tr \in TransportType \cup {None}
  PROVE  /\ Unset(tr) \in TransportType \cup {None} /\ Unlinked(Unset(tr))
         /\ Unset(tr) = None <=> tr = None
         /\ tr # None => Unset(tr).mode = tr.mode
  BY NoneAssumption DEF TransportType, Unset, Unlinked

Counted == {stopped, cut} \subseteq BOOLEAN /\ {faults, spent} \subseteq Nat
LEMMA Counting ==
  ASSUME TypeOK, Fault \/ NoFault, {stopped', cut'} \subseteq BOOLEAN
  PROVE  Counted'
  BY DEF TypeOK, Counted, Fault, NoFault

\* Without any open socket the links are in order, whatever the objects are.
AllClosed ==
  /\ socks = [s \in Socks |-> None]
  /\ transport \in TransportType \cup {None} /\ Unlinked(transport)
LEMMA ClosedLinks ==
  ASSUME AllClosed', trial' = None, client' \in {None, Gone},
         site' \in Sites, resolved' \in Modes \cup {None}, task' \in TaskType, Counted'
  PROVE  TypeOK' /\ LinkInv' /\ (AnswersMatch' => StreamInv')
  BY NoneAssumption DEF AllClosed, TypeOK, Counted, LinkInv, Unlinked, Framed, Holds, Open, StreamInv

LEMMA Disconnecting ==
  ASSUME TypeOK, LinkInv, Disconnect
  PROVE  AllClosed' /\ trial' = None /\ client' = None /\ (transport' = None <=> transport = None)
         /\ (transport # None => transport'.mode = transport.mode)
<1>1. transport \in TransportType \cup {None} /\ trial \in TransportType \cup {None}
  BY DEF TypeOK
<1>2. socks' = [s \in Socks |-> None]
  BY <1>1 DEF Disconnect, Closed, SockOf, LinkInv, Open, Holds
<1>3. QED
  BY <1>1, <1>2, Unsetting DEF Disconnect, AllClosed

LEMMA Failing ==
  ASSUME Inv, NEW r \in Results, CycleFails(r), UNCHANGED <<site, resolved>>, Counted'
  PROVE  Inv'
<1>1. task' = Idle(r) /\ task' \in TaskType
  BY IdleType DEF CycleFails
<1>2. AllClosed' /\ trial' = None /\ client' = None
  BY Disconnecting DEF CycleFails, Inv
<1>3. AnswersMatch'
  BY <1>1 DEF AnswersMatch, At, Idle
<1>4. TaskInv'
  BY <1>1, <1>2 DEF TaskInv, At, Idle, RawTask
<1>5. QED
  BY <1>1, <1>2, <1>3, <1>4, ClosedLinks DEF Inv, TypeOK, ResolvedIsSpoken

\* A request over the trial broke: nothing stays open.
LEMMA ProbeBreaks ==
  ASSUME Inv, task.via = "trial", ProbeBroken, UNCHANGED site, Counted'
  PROVE  Inv'
<1>1. trial # None /\ transport = None /\ client = None /\ task.order # <<>> /\ task.order \in Seq(Modes)
  BY TaskEdits DEF Inv, TypeOK, TaskInv, LinkInv
<1>2. AllClosed'
  <2>1. socks' = Closed(SockOf(trial)) /\ transport' = None
    BY <1>1 DEF ProbeBroken
  <2>2. socks' = [s \in Socks |-> None]
    BY <1>1, <2>1, NoneAssumption DEF Inv, LinkInv, Closed, SockOf, Open, Holds
  <2>3. QED
    BY <2>1, <2>2 DEF AllClosed, Unlinked
<1>3. CASE Len(task.order) > 1
  <2>1. task.order[2] \in Modes /\ Tail(task.order) \in Seq(Modes) /\ Tail(task.order) # <<>>
    BY <1>1, <1>3
  <2>2. task' \in TaskType /\ task'.pc = "trial" /\ task'.via = "transport" /\ task'.order = Tail(task.order)
    <3>1. task' = [task EXCEPT !.pc = "trial", !.via = "transport", !.order = Tail(task.order)]
      BY <1>3 DEF ProbeBroken
    <3>2. task \in TaskType /\ "trial" \in Pcs
      BY DEF Inv, TypeOK, Pcs
    <3>3. task' \in TaskType
      BY <2>1, <3>1, <3>2, TaskEdits
    <3>4. QED
      BY <3>1, <3>2, <3>3 DEF TaskType
  <2>3. trial' = [mode |-> task.order[2], sock |-> None] /\ trial' \in TransportType /\ trial' # None
    BY <1>3, <2>1, NewTransport DEF ProbeBroken
  <2>4. QED
    BY <1>1, <1>2, <2>1, <2>2, <2>3, NoneAssumption
       DEF Inv, TypeOK, Counted, ProbeBroken, LinkInv, TaskInv, StreamInv, AnswersMatch, ResolvedIsSpoken,
           AllClosed, Framed, Holds, Open, Unlinked, At, RawTask
<1>4. CASE ~(Len(task.order) > 1)
  <2>1. task' = Idle("unreachable") /\ task' \in TaskType /\ trial' = None /\ client' = None
    BY <1>1, <1>4, IdleType DEF ProbeBroken, Results
  <2>2. AnswersMatch' /\ TaskInv'
    BY <1>1, <2>1 DEF AnswersMatch, TaskInv, At, Idle, RawTask, ProbeBroken
  <2>3. QED
    BY <1>2, <2>1, <2>2, ClosedLinks DEF Inv, TypeOK, ResolvedIsSpoken, ProbeBroken
<1>5. QED
  BY <1>3, <1>4

LEMMA ReadBreaks ==
  ASSUME Inv, task.via = "transport", task.pc \in Reading, NEW r \in Transient, ReadBroken(r),
         UNCHANGED <<site, resolved>>, Counted'
  PROVE  Inv'
<1> USE DEF Inv
<1>0. task \in TaskType /\ trial = None /\ {"read", "ensure", "phase"} \subseteq Pcs
  BY DEF TypeOK, TaskInv, Pcs, At, Reading
<1>5. task.attempt \in Nat \ {0} /\ Retry \in Nat \ {0}
  <2>1. task.attempt \in 1 .. Retry
    BY <1>0, TaskEdits
  <2>2. QED
    BY <2>1, RetryAssumption
<1>1. CASE task.attempt < Retry
  <2>1. \A pc \in {"read", "ensure"} : Retried(pc) =>
          task' \in TaskType /\ task'.pc = pc /\ task'.via = "transport"
    <3>1. task.attempt + 1 \in 1 .. Retry
      BY <1>1, <1>5
    <3>2. ASSUME NEW pc \in {"read", "ensure"}, Retried(pc)
          PROVE  task' = [task EXCEPT !.pc = pc, !.after = "read", !.attempt = task.attempt + 1]
      BY <3>2 DEF Retried
    <3>3. \A pc \in {"read", "ensure"}, n \in 1 .. Retry :
            [task EXCEPT !.pc = pc, !.after = "read", !.attempt = n] \in TaskType
      BY <1>0 DEF TaskType
    <3>4. ASSUME NEW pc \in {"read", "ensure"}, Retried(pc)
          PROVE  task' \in TaskType /\ task'.pc = pc /\ task'.via = "transport"
      <4>1. task' = [task EXCEPT !.pc = pc, !.after = "read", !.attempt = task.attempt + 1]
        BY <3>2, <3>4
      <4>2. task' \in TaskType
        BY <3>1, <3>3, <4>1
      <4>3. QED
        BY <1>0, <4>1, <4>2 DEF TaskType
    <3>5. QED
      BY <3>4
  <2>2. CASE transport = None
    <3>1. socks' = [s \in Socks |-> None] /\ client' = Gone /\ transport' = None /\ trial' = None /\ Retried("read")
      BY <1>0, <1>1, <2>2 DEF ReadBroken, ReconnectForRetry, Closed, LinkInv, Open, Holds
    <3>2. AllClosed' /\ task' \in TaskType /\ task'.pc = "read" /\ task'.via = "transport"
      BY <2>1, <3>1 DEF AllClosed, Unlinked
    <3>3. AnswersMatch' /\ TaskInv'
      BY <3>1, <3>2 DEF AnswersMatch, TaskInv, At, RawTask
    <3>4. QED
      BY <3>1, <3>2, <3>3, ClosedLinks DEF TypeOK, ResolvedIsSpoken
  <2>3. CASE transport # None
    <3>1. Disconnect /\ Retried("ensure")
      BY <1>1, <2>3 DEF ReadBroken, ReconnectForRetry
    <3>2. task' \in TaskType /\ task'.pc = "ensure" /\ task'.via = "transport"
      BY <2>1, <3>1
    <3>3. AllClosed' /\ trial' = None /\ client' = None
      BY <3>1, Disconnecting
    <3>4. AnswersMatch' /\ TaskInv'
      BY <3>2, <3>3 DEF AnswersMatch, TaskInv, At, RawTask
    <3>5. QED
      BY <3>2, <3>3, <3>4, ClosedLinks DEF TypeOK, ResolvedIsSpoken
  <2>4. QED
    BY <2>2, <2>3
<1>2. CASE ~(task.attempt < Retry) /\ (r = "connection" \/ task.phase = "bits")
  <2>1. CycleFails("failed") /\ "failed" \in Results
    BY <1>2, <1>5 DEF ReadBroken, Results
  <2>2. QED
    BY <2>1, Failing
<1>3. CASE ~(task.attempt < Retry) /\ ~(r = "connection" \/ task.phase = "bits")
  <2>1. NextPhase(TRUE) /\ AfterRequest(r)
    BY <1>3, <1>5 DEF ReadBroken
  <2>2. task' \in TaskType /\ task'.pc = "phase" /\ task'.via = "transport" /\ task'.ask = task.ask
    <3>1. NextPhase(TRUE)
      BY <2>1
    <3>2. QED
      BY <1>0, <3>1, PhaseEnds
  <2>3. CASE transport # None
    <3>1. AllClosed' /\ trial' = None /\ client' \in {None, Gone}
      <4>1. socks' = Closed(SockOf(transport)) /\ transport' = Unset(transport) /\ trial' = None
            /\ client' = AliasWithout(SockOf(transport))
        BY <1>0, <2>1, <2>3 DEF AfterRequest, Resets
      <4>2. transport \in TransportType
        BY <2>3 DEF TypeOK
      <4>3. socks' = [s \in Socks |-> None]
        BY <1>0, <2>3, <4>1 DEF Closed, SockOf, LinkInv, Open, Holds
      <4>4. client' \in {None, Gone}
        BY <2>3, <4>1 DEF TypeOK, AliasWithout, SockOf, LinkInv
      <4>5. QED
        BY <4>1, <4>2, <4>3, <4>4, Unsetting DEF AllClosed
    <3>2. AnswersMatch' /\ TaskInv'
      BY <2>2, <3>1 DEF AnswersMatch, TaskInv, At, RawTask
    <3>3. QED
      BY <2>2, <3>1, <3>2, ClosedLinks DEF TypeOK, ResolvedIsSpoken
  <2>4. CASE transport = None
    <3>1. UNCHANGED link /\ ~RawTask
      BY <2>1, <2>4 DEF AfterRequest, TaskInv, Via
    <3>2. StreamInv'
      BY <2>2, <3>1 DEF link, StreamInv, AnswersMatch, Open, Due, Belong, At, RawTask
    <3>3. TaskInv' /\ LinkInv'
      BY <1>0, <2>2, <2>4, <3>1 DEF link, TaskInv, LinkInv, At, RawTask, Framed, Holds, Open, Unlinked
    <3>4. QED
      BY <2>2, <3>1, <3>2, <3>3 DEF TypeOK, Counted, link, ResolvedIsSpoken
  <2>5. QED
    BY <2>3, <2>4
<1>4. QED
  BY <1>1, <1>2, <1>3, <1>5

LEMMA Breaks ==
  ASSUME Inv, task.pc \in Reading, NEW r \in Transient, Broken(r), UNCHANGED site, Counted'
  PROVE  Inv'
<1>1. CASE task.via = "trial"
  BY <1>1, ProbeBreaks DEF Broken
<1>2. CASE task.via # "trial"
  <2>1. task.via = "transport"
    BY <1>2, TaskEdits DEF Inv, TypeOK
  <2>2. QED
    BY <1>2, <2>1, ReadBreaks DEF Broken
<1>3. QED
  BY <1>1, <1>2

-----------------------------------------------------------------------------
(* Steps that open or keep links                                           *)

\* The poll moves on, and the link stays as it is.
LEMMA Staying ==
  ASSUME Inv, task' \in TaskType, UNCHANGED <<site, link, resolved>>, Counted', task'.ask = task.ask,
         trial = None, task'.via = "transport", ~RawTask, task'.pc \notin {"dial", "trial", "header", "rest"},
         task'.pc \in {"direct", "redial"} => transport = None,
         task'.pc = "direct" => client = None
  PROVE  Inv'
<1> USE DEF Inv, link
<1>1. TypeOK' /\ LinkInv' /\ ResolvedIsSpoken'
  BY DEF TypeOK, Counted, LinkInv, Framed, Holds, Open, Unlinked, ResolvedIsSpoken
<1>2. TaskInv'
  BY DEF TaskInv, At, RawTask
<1>3. StreamInv'
  BY DEF StreamInv, AnswersMatch, Open, Due, Belong, At, RawTask
<1>4. QED
  BY <1>1, <1>2, <1>3

\* A socket is opened, while no other is open: for the poll or for a trial.
Opens(s, f) ==
  /\ socks' = [x \in Socks |-> IF x = s THEN Socket(f) ELSE None]
  /\ transport' \in TransportType \cup {None} /\ trial' \in TransportType \cup {None}
  /\ client' \in {s, None, Gone}
PollHolds(s, f) ==
  /\ task'.via = "transport" /\ trial' = None
  /\ (transport' # None /\ transport'.sock = s /\ transport'.mode = f) \/ (transport' = None /\ client' = s)
TrialHolds(s, f) ==
  /\ task'.via = "trial" /\ transport' = None /\ client' = None
  /\ task'.order # <<>> /\ task'.pc \in Reading
  /\ trial' # None /\ trial'.sock = s /\ trial'.mode = f
LEMMA Opening ==
  ASSUME Inv, task' \in TaskType, UNCHANGED site, Counted', resolved' = resolved,
         task'.pc \notin {"dial", "trial", "direct", "redial", "header", "rest"},
         NEW f \in Modes, NEW s \in Socks, Opens(s, f), PollHolds(s, f) \/ TrialHolds(s, f)
  PROVE  Inv'
<1> USE DEF Inv, Opens, PollHolds, TrialHolds
<1>1. Socket(f) \in SocketType /\ Socket(f) # None /\ Socket(f).framing = f
      /\ Socket(f).heard = <<>> /\ Socket(f).owed = <<>>
  BY NewSocket
<1>2. TypeOK' /\ ResolvedIsSpoken'
  BY <1>1 DEF TypeOK, Counted, ResolvedIsSpoken
<1>3. LinkInv'
  BY <1>1, NoneAssumption DEF LinkInv, Framed, Holds, Open, Unlinked
<1>4. TaskInv'
  BY DEF TaskInv, At, RawTask, Holds
<1>5. StreamInv'
  <2>1. AnswersMatch' /\ Due' = 0
    BY DEF AnswersMatch, At, Due
  <2>2. Len(Socket(f).heard) + Len(Socket(f).owed) = 0
        /\ Len(Socket(f).heard) = 0 /\ Len(Socket(f).owed) = 0
    BY <1>1
  <2>3. \A x \in Socks : Open(x)' => socks'[x] = Socket(f)
    BY DEF Open
  <2>4. ASSUME NEW x \in Socks, Open(x)'
        PROVE  /\ Len(socks'[x].heard) + Len(socks'[x].owed) <= 0
               /\ Belong(socks[x].heard)' /\ Belong(socks[x].owed)'
               /\ socks'[x].heard = <<>> /\ socks'[x].owed = <<>>
    <3>1. socks'[x] = Socket(f)
      BY <2>3, <2>4
    <3>2. socks'[x].heard = <<>> /\ socks'[x].owed = <<>>
      BY <1>1, <3>1
    <3>3. Len(socks'[x].heard) = 0 /\ Len(socks'[x].owed) = 0
      BY <3>2
    <3>4. Belong(socks[x].heard)' /\ Belong(socks[x].owed)'
      BY <3>3 DEF Belong
    <3>5. Len(socks'[x].heard) + Len(socks'[x].owed) <= 0
      <4>1. \A a, b : a = 0 /\ b = 0 => a + b <= 0
        OBVIOUS
      <4>2. QED
        BY <3>3, <4>1
    <3>6. QED
      BY <3>2, <3>4, <3>5
  <2>5. QED
    BY <2>1, <2>4 DEF StreamInv
<1>6. QED
  BY <1>2, <1>3, <1>4, <1>5

LEMMA FreeSocket ==
  ASSUME Inv, trial # None => trial.sock = None, Unlinked(transport), client \notin Socks
  PROVE  /\ Free \in Socks /\ socks = [x \in Socks |-> None]
         /\ \A f : [socks EXCEPT ![Free] = Socket(f)] = [x \in Socks |-> IF x = Free THEN Socket(f) ELSE None]
<1>1. socks = [x \in Socks |-> None]
  <2>1. \A x \in Socks : socks[x] = None
    BY NoneAssumption DEF Inv, LinkInv, Open, Holds, Unlinked
  <2>2. QED
    BY <2>1 DEF Inv, TypeOK
<1>2. Free \in Socks
  BY <1>1, SocksAssumption DEF Free
<1>3. QED
  BY <1>1, <1>2

LEMMA EnsureFailing ==
  ASSUME Inv, EnsureFails, At("dial") \/ At("trial") \/ At("direct"), UNCHANGED <<site, resolved>>, Counted'
  PROVE  Inv'
<1>1. CASE task.after = "read"
  <2>1. task' = [task EXCEPT !.pc = "read"] /\ trial' = None /\ UNCHANGED <<socks, transport, client>>
    BY <1>1 DEF EnsureFails, Goto
  <2>2. task.via = "transport" /\ ~RawTask /\ task \in TaskType
    BY TaskEdits DEF Inv, TaskInv, TypeOK, At, RawTask, Reading
  <2>3. task' \in TaskType /\ task'.pc = "read" /\ task'.via = "transport" /\ task'.ask = task.ask
    <3>1. "read" \in Pcs
      BY DEF Pcs
    <3>2. task' \in TaskType
      BY <2>1, <2>2, <3>1, TaskEdits
    <3>3. QED
      BY <2>1, <2>2, <3>2 DEF TaskType
  <2>4. Unlinked(trial)
    BY NoneAssumption DEF Inv, TaskInv, Unlinked, At, Reading
  <2>5. TypeOK' /\ ResolvedIsSpoken'
    BY <2>1, <2>3 DEF Inv, TypeOK, Counted, ResolvedIsSpoken
  <2>6. LinkInv'
    BY <2>1, <2>4, NoneAssumption DEF Inv, LinkInv, Framed, Holds, Open, Unlinked
  <2>7. TaskInv'
    BY <2>1, <2>3 DEF TaskInv, At, RawTask
  <2>8. StreamInv'
    BY <2>1, <2>2, <2>3 DEF Inv, StreamInv, AnswersMatch, Open, Due, Belong, At, RawTask
  <2>9. QED
    BY <2>5, <2>6, <2>7, <2>8 DEF Inv
<1>2. CASE task.after # "read"
  <2>1. CycleFails("unreachable") /\ "unreachable" \in Results
    BY <1>2 DEF EnsureFails, Results
  <2>2. QED
    BY <2>1, Failing
<1>3. QED
  BY <1>1, <1>2

LEMMA NextTrialKeeps ==
  ASSUME Inv, NEW order \in Seq(Modes), NextTrial(order), At("trial") \/ At("direct"),
         UNCHANGED <<site, resolved>>, Counted'
  PROVE  Inv'
<1>1. CASE order = <<>>
  BY <1>1, EnsureFailing DEF NextTrial
<1>2. CASE order # <<>>
  <2>1. /\ task' = [task EXCEPT !.pc = "trial", !.order = order]
        /\ trial' = [mode |-> Head(order), sock |-> None]
        /\ UNCHANGED <<socks, transport, client>>
    BY <1>2 DEF NextTrial
  <2>2. Head(order) \in Modes /\ trial' \in TransportType /\ trial' # None /\ trial'.sock = None
    BY <1>2, <2>1, NewTransport
  <2>3. task.via = "transport" /\ ~RawTask /\ task \in TaskType /\ transport = None /\ client = None
    BY TaskEdits DEF Inv, TaskInv, LinkInv, TypeOK, At, RawTask, Reading
  <2>4. /\ task' \in TaskType /\ task'.pc = "trial" /\ task'.via = "transport"
        /\ task'.ask = task.ask /\ task'.order = order
    <3>1. "trial" \in Pcs
      BY DEF Pcs
    <3>2. task' \in TaskType
      BY <2>1, <2>3, <3>1, TaskEdits
    <3>3. QED
      BY <2>1, <2>3, <3>2 DEF TaskType
  <2>5. TypeOK' /\ ResolvedIsSpoken'
    BY <2>1, <2>2, <2>4 DEF Inv, TypeOK, Counted, ResolvedIsSpoken
  <2>6. Unlinked(trial)
    BY DEF Inv, TaskInv, Unlinked, At, Reading
  <2>7. LinkInv'
    BY <2>1, <2>2, <2>3, <2>6, NoneAssumption DEF Inv, LinkInv, Framed, Holds, Open, Unlinked
  <2>8. TaskInv'
    BY <1>2, <2>1, <2>2, <2>3, <2>4 DEF TaskInv, At, RawTask
  <2>9. StreamInv'
    BY <2>1, <2>3, <2>4 DEF Inv, StreamInv, AnswersMatch, Open, Due, Belong, At, RawTask
  <2>10. QED
    BY <2>5, <2>7, <2>8, <2>9 DEF Inv
<1>3. QED
  BY <1>1, <1>2

-----------------------------------------------------------------------------
(* The steps                                                               *)

\* A new position of the poll.
LEMMA Going ==
  ASSUME task \in TaskType, NEW pc \in Pcs, Goto(pc)
  PROVE  task' \in TaskType /\ task' = [task EXCEPT !.pc = pc] /\ task'.pc = pc /\ task'.via = task.via
         /\ task'.ask = task.ask /\ task'.order = task.order /\ task'.got = task.got
<1>1. task' = [task EXCEPT !.pc = pc]
  BY DEF Goto
<1>2. task' \in TaskType
  BY <1>1, TaskEdits
<1>3. QED
  BY <1>1, <1>2 DEF TaskType

LEMMA ChooseStep == ASSUME Inv, Choose PROVE Inv'
<1>0. task \in TaskType /\ Pcs = {"idle", "ensure", "dial", "redial", "direct", "trial", "phase", "read", "wait", "header", "rest", "final"}
  BY DEF Inv, TypeOK, Pcs
<1>8. task.after \in Pcs /\ task.after \in Afters /\ UNCHANGED <<site, stopped, cut>>
  BY <1>0, TaskEdits DEF Choose, Ensure, Dial, Redial, Direct, TrialDial, Afters
<1>9. Counted'
  BY <1>8, Counting DEF Inv, TypeOK, Choose, Ensure, Dial, Redial, Direct, TrialDial
<1>1. CASE Ensure
  <2>1. task.via = "transport" /\ trial = None /\ ~RawTask /\ UNCHANGED resolved
    BY <1>0, <1>1 DEF Ensure, Inv, TaskInv, TaskType, At, RawTask, Reading
  <2>2. CASE UNCHANGED link /\ Ensured
    BY <1>0, <1>8, <1>9, <2>1, <2>2, Going, Staying DEF Ensured, Afters
  <2>3. CASE UNCHANGED link /\ Goto("redial") /\ transport = None
    BY <1>0, <1>8, <1>9, <2>1, <2>3, Going, Staying
  <2>4. CASE UNCHANGED link /\ Goto("direct") /\ transport = None /\ client = None
    BY <1>0, <1>8, <1>9, <2>1, <2>4, Going, Staying
  <2>5. ASSUME NEW mode, ~(transport = None /\ site.mode = "auto" /\ resolved = None),
               transport = None => client = None, ~Connected(transport),
               mode = IF transport # None THEN transport.mode
                      ELSE IF site.mode = "auto" THEN resolved ELSE site.mode,
               Goto("dial"), socks' = Closed(SockOf(transport)), transport' = Unset(transport),
               trial' = [mode |-> mode, sock |-> None], client' = None
        PROVE  Inv'
    <3>1. mode \in Modes
      BY <2>5, SitesAssumption DEF Inv, TypeOK, SiteType, TransportType
    <3>2. trial' \in TransportType /\ trial' # None /\ trial'.sock = None
      BY <2>5, <3>1, NewTransport
    <3>3. socks' = [s \in Socks |-> None]
      BY <2>1, <2>5, NoneAssumption DEF Inv, LinkInv, Closed, SockOf, Open, Holds
    <3>4. transport' \in TransportType \cup {None} /\ Unlinked(transport')
      BY <2>5, Unsetting DEF Inv, TypeOK
    <3>5. task' \in TaskType /\ task'.pc = "dial" /\ task'.via = "transport"
      BY <1>0, <2>1, <2>5, Going
    <3>6. TypeOK' /\ ResolvedIsSpoken'
      BY <1>8, <1>9, <2>1, <2>5, <3>2, <3>3, <3>4, <3>5 DEF Inv, TypeOK, Counted, ResolvedIsSpoken
    <3>7. LinkInv' /\ StreamInv'
      BY <2>5, <3>2, <3>3, <3>4, <3>5, NoneAssumption
         DEF LinkInv, StreamInv, AnswersMatch, At, Framed, Holds, Open, Unlinked
    <3>8. TaskInv'
      BY <3>2, <3>5 DEF TaskInv, At, RawTask
    <3>9. QED
      BY <3>6, <3>7, <3>8 DEF Inv
  <2>6. QED
    BY <1>1, <2>2, <2>3, <2>4, <2>5 DEF Ensure
<1>2. CASE Dial
  <2>1. task.via = "transport" /\ trial # None /\ trial.sock = None /\ trial.mode \in Modes
        /\ Unlinked(transport) /\ client = None /\ UNCHANGED resolved /\ trial \in TransportType
    BY <1>0, <1>2 DEF Dial, Inv, TypeOK, TaskInv, LinkInv, TaskType, TransportType, At, Reading
  <2>2. PICK s \in Socks : s = Free /\ [socks EXCEPT ![s] = Socket(trial.mode)]
                                       = [x \in Socks |-> IF x = s THEN Socket(trial.mode) ELSE None]
    BY <2>1, FreeSocket, NoneAssumption
  <2>3. ASSUME socks' = [socks EXCEPT ![Free] = Socket(trial.mode)], transport' = [trial EXCEPT !.sock = Free],
               client' = IF Raw(trial.mode) THEN None ELSE Free, trial' = None, Ensured
        PROVE  Inv'
    <3>1. transport' \in TransportType /\ transport' # None /\ transport'.sock = s /\ transport'.mode = trial.mode
      BY <2>1, <2>2, <2>3, NoneAssumption DEF TransportType
    <3>2. task' \in TaskType /\ task'.pc = task.after /\ task'.via = "transport"
      BY <1>0, <1>8, <2>1, <2>3, Going DEF Ensured
    <3>3. client' \in {s, None, Gone}
      BY <2>2, <2>3
    <3>4. task'.pc \notin {"dial", "trial", "direct", "redial", "header", "rest"}
      BY <1>8, <3>2 DEF Afters
    <3>6. PICK m \in Modes : m = trial.mode
      BY <2>1
    <3>7. socks' = [x \in Socks |-> IF x = s THEN Socket(m) ELSE None]
      BY <2>2, <2>3, <3>6
    <3>8. Opens(s, m) /\ PollHolds(s, m)
      BY <2>3, <3>1, <3>2, <3>3, <3>6, <3>7 DEF Opens, PollHolds
    <3>9. QED
      BY <1>8, <1>9, <2>1, <3>2, <3>4, <3>8, Opening
  <2>4. ASSUME Fault, EnsureFails PROVE Inv'
    BY <1>2, <1>8, <1>9, <2>1, <2>4, EnsureFailing DEF Dial
  <2>5. QED
    BY <1>2, <2>3, <2>4 DEF Dial
<1>3. CASE Redial
  <2>1. task.via = "transport" /\ transport = None /\ trial = None
        /\ "tcp" \in Modes /\ Unlinked(transport) /\ ~RawTask
    BY <1>0, <1>3 DEF Redial, Inv, TypeOK, TaskInv, TaskType, At, Reading, Modes, Unlinked, RawTask
  <2>2. ASSUME NEW s, s = IF client \in Socks THEN client ELSE Free,
               socks' = [socks EXCEPT ![s] = Socket("tcp")], client' = s, Ensured,
               NoFault, UNCHANGED <<transport, trial>>, UNCHANGED resolved
        PROVE  Inv'
    <3>1. s \in Socks /\ socks' = [x \in Socks |-> IF x = s THEN Socket("tcp") ELSE None]
      <4>1. CASE client \in Socks
        BY <2>1, <2>2, <4>1, NoneAssumption DEF Inv, TypeOK, LinkInv, Open, Holds
      <4>2. CASE client \notin Socks
        BY <2>1, <2>2, <4>2, FreeSocket
      <4>3. QED
        BY <4>1, <4>2
    <3>2. task' \in TaskType /\ task'.pc = task.after /\ task'.via = "transport"
      BY <1>0, <1>8, <2>1, <2>2, Going DEF Ensured
    <3>3. task'.pc \notin {"dial", "trial", "direct", "redial", "header", "rest"}
      BY <1>8, <3>2 DEF Afters
    <3>4. Opens(s, "tcp") /\ PollHolds(s, "tcp")
      BY <2>1, <2>2, <3>1, <3>2 DEF Opens, PollHolds
    <3>5. QED
      BY <1>8, <1>9, <2>1, <2>2, <3>1, <3>2, <3>3, <3>4, Opening
  <2>3. ASSUME Fault, Disconnect, Goto("direct"), UNCHANGED resolved PROVE Inv'
    <3>1. AllClosed' /\ trial' = None /\ client' = None /\ transport' = None
      BY <2>1, <2>3, Disconnecting DEF Inv
    <3>2. task' \in TaskType /\ task'.pc = "direct" /\ task'.via = "transport"
      BY <1>0, <2>1, <2>3, Going
    <3>3. AnswersMatch' /\ TaskInv'
      BY <3>1, <3>2 DEF AnswersMatch, TaskInv, At, RawTask
    <3>4. QED
      BY <1>8, <1>9, <2>3, <3>1, <3>2, <3>3, ClosedLinks DEF Inv, TypeOK, ResolvedIsSpoken
  <2>4. QED
    BY <1>3, <2>2, <2>3 DEF Redial
<1>4. CASE Direct
  <2>1. task.via = "transport" /\ transport = None /\ trial = None /\ client = None
        /\ "tcp" \in Modes /\ Unlinked(transport) /\ UNCHANGED resolved
    BY <1>0, <1>4 DEF Direct, Inv, TypeOK, TaskInv, TaskType, At, Reading, Modes, Unlinked
  <2>2. ASSUME socks' = [socks EXCEPT ![Free] = Socket("tcp")], client' = Free, Ensured,
               UNCHANGED <<transport, trial>>
        PROVE  Inv'
    <3>1. PICK s \in Socks : s = Free /\ socks' = [x \in Socks |-> IF x = s THEN Socket("tcp") ELSE None]
      BY <2>1, <2>2, FreeSocket, NoneAssumption
    <3>2. task' \in TaskType /\ task'.pc = task.after /\ task'.via = "transport"
      BY <1>0, <1>8, <2>1, <2>2, Going DEF Ensured
    <3>3. task'.pc \notin {"dial", "trial", "direct", "redial", "header", "rest"}
      BY <1>8, <3>2 DEF Afters
    <3>4. Opens(s, "tcp") /\ PollHolds(s, "tcp")
      BY <2>1, <2>2, <3>1, <3>2 DEF Opens, PollHolds
    <3>5. QED
      BY <1>8, <1>9, <2>1, <3>2, <3>3, <3>4, Opening
  <2>3. ASSUME NextTrial(ModeOrder) PROVE Inv'
    <3>1. PICK order \in Seq(Modes) : order = ModeOrder
      <4>1. ModeOrder \in Seq(Modes)
        <5>1. \A a, b \in Modes : <<a, b>> \in Seq(Modes)
          OBVIOUS
        <5>2. "tcp" \in Modes /\ "tcp_rtu" \in Modes
          BY DEF Modes
        <5>3. QED
          BY <5>1, <5>2 DEF ModeOrder
      <4>2. QED
        BY <4>1
    <3>2. QED
      BY <1>4, <1>8, <1>9, <2>1, <2>3, <3>1, NextTrialKeeps DEF Direct
  <2>4. QED
    BY <1>4, <2>2, <2>3 DEF Direct
<1>5. CASE TrialDial
  <2>1. task.via = "transport" /\ transport = None /\ trial # None /\ client = None /\ trial.sock = None
        /\ trial.mode \in Modes /\ trial \in TransportType /\ Unlinked(transport)
        /\ task.order # <<>> /\ task.order \in Seq(Modes)
    BY <1>0, <1>5 DEF TrialDial, Inv, TypeOK, TaskInv, LinkInv, TaskType, TransportType, At, Reading, Unlinked
  <2>2. ASSUME socks' = [socks EXCEPT ![Free] = Socket(trial.mode)], trial' = [trial EXCEPT !.sock = Free],
               task' = [task EXCEPT !.pc = "read", !.via = "trial"],
               UNCHANGED <<transport, client>>, UNCHANGED resolved
        PROVE  Inv'
    <3>0. PICK m \in Modes : m = trial.mode
      BY <2>1
    <3>1. PICK s \in Socks : s = Free /\ socks' = [x \in Socks |-> IF x = s THEN Socket(m) ELSE None]
      BY <2>1, <2>2, <3>0, FreeSocket, NoneAssumption
    <3>2. trial' \in TransportType /\ trial' # None /\ trial'.sock = s /\ trial'.mode = m
      BY <2>1, <2>2, <3>0, <3>1, NoneAssumption DEF TransportType
    <3>3. task' \in TaskType
      BY <1>0, <2>2, TaskEdits
    <3>4. task'.pc = "read" /\ task'.via = "trial" /\ task'.order = task.order
      BY <1>0, <2>2, <3>3 DEF TaskType
    <3>5. Opens(s, m) /\ TrialHolds(s, m)
      BY <2>1, <2>2, <3>1, <3>2, <3>4 DEF Opens, TrialHolds, Reading
    <3>6. QED
      BY <1>8, <1>9, <2>2, <3>3, <3>4, <3>5, Opening
  <2>3. ASSUME NextTrial(Tail(task.order)), UNCHANGED resolved PROVE Inv'
    <3>1. PICK order \in Seq(Modes) : order = Tail(task.order)
      <4>1. Tail(task.order) \in Seq(Modes)
        BY <2>1
      <4>2. QED
        BY <4>1
    <3>2. QED
      BY <1>5, <1>8, <1>9, <2>3, <3>1, NextTrialKeeps DEF TrialDial
  <2>4. QED
    BY <1>5, <2>2, <2>3 DEF TrialDial
<1>6. QED
  BY <1>1, <1>2, <1>3, <1>4, <1>5 DEF Choose

\* A probe was answered by a unit that speaks what the trial speaks.
LEMMA ProbeWins ==
  ASSUME Inv, task.via = "trial", ProbeAnswered, trial.mode = site.speaks, UNCHANGED site, Counted',
         socks' \in [Socks -> SocketType \cup {None}],
         \A s \in Socks : Open(s)' => /\ Open(s) /\ socks'[s].framing = socks[s].framing
                                      /\ Len(socks'[s].heard) + Len(socks'[s].owed) <= 0
                                      /\ Belong(socks'[s].heard) /\ Belong(socks'[s].owed)
                                      /\ ~Raw(site.speaks) => socks'[s].heard = <<>> /\ socks'[s].owed = <<>>,
         \A s \in Socks : Open(s) => Open(s)'
  PROVE  Inv'
<1>1. /\ trial # None /\ trial \in TransportType /\ trial.mode \in Modes /\ transport = None /\ client = None
      /\ task \in TaskType /\ trial.sock \in Socks \cup {None}
  BY DEF Inv, TypeOK, TaskInv, LinkInv, TransportType
<1>2. /\ transport' = trial /\ trial' = None /\ resolved' = trial.mode
      /\ client' \in {None, trial.sock}
      /\ task' = [task EXCEPT !.pc = task.after, !.via = "transport", !.order = <<>>]
  BY DEF ProbeAnswered
<1>3. task' \in TaskType /\ task'.pc \in Afters /\ task'.via = "transport" /\ task'.ask = task.ask
  <2>0. <<>> \in Seq(Modes) /\ Afters \subseteq Pcs
    BY DEF Pcs, Afters
  <2>1. task.after \in Pcs /\ task.after \in Afters
    BY <1>1, <2>0, TaskEdits
  <2>2. task' \in TaskType
    BY <1>1, <1>2, <2>0, <2>1, TaskEdits
  <2>3. QED
    BY <1>1, <1>2, <2>1, <2>2 DEF TaskType
<1>4. TypeOK' /\ ResolvedIsSpoken'
  BY <1>1, <1>2, <1>3 DEF Inv, TypeOK, Counted, ResolvedIsSpoken
<1>5. LinkInv'
  BY <1>1, <1>2, NoneAssumption DEF Inv, LinkInv, Framed, Holds, Open, Unlinked
<1>6. TaskInv'
  BY <1>2, <1>3 DEF TaskInv, At, RawTask, Afters
<1>7. StreamInv'
  BY <1>3 DEF StreamInv, AnswersMatch, Due, Belong, At, Afters
<1>8. QED
  BY <1>4, <1>5, <1>6, <1>7 DEF Inv

\* An answer over the stored link moves the poll on and leaves the rest.
LEMMA ReadAnswers ==
  ASSUME Inv, task.via = "transport", task.pc \in Reading, NEW r \in {"ok", "illegal", "exception"},
         ReadAnswered(r), UNCHANGED <<transport, trial, client, resolved>>, UNCHANGED site, Counted',
         socks' \in [Socks -> SocketType \cup {None}],
         \A s \in Socks : Open(s)' => /\ Open(s) /\ socks'[s].framing = socks[s].framing
                                      /\ Len(socks'[s].heard) + Len(socks'[s].owed) <= 0
                                      /\ Belong(socks'[s].heard) /\ Belong(socks'[s].owed)
                                      /\ ~Raw(site.speaks) => socks'[s].heard = <<>> /\ socks'[s].owed = <<>>,
         \A s \in Socks : Open(s) => Open(s)'
  PROVE  Inv'
<1>1. task \in TaskType /\ trial = None
  BY DEF Inv, TypeOK, TaskInv, At, Reading
<1>2. task' \in TaskType /\ task'.pc \in {"read", "phase"} /\ task'.via = "transport" /\ task'.ask = task.ask
  <2>1. CASE task.attempt < Retry /\ Retried("read")
    <3>1. task.attempt \in 1 .. Retry
      BY <1>1, TaskEdits
    <3>2. task.attempt + 1 \in 1 .. Retry
      BY <2>1, <3>1, RetryAssumption
    <3>3. task' = [task EXCEPT !.pc = "read", !.after = "read", !.attempt = task.attempt + 1]
      BY <2>1 DEF Retried
    <3>4. \A n \in 1 .. Retry : [task EXCEPT !.pc = "read", !.after = "read", !.attempt = n] \in TaskType
      BY <1>1 DEF TaskType, Pcs
    <3>5. task' \in TaskType
      BY <3>2, <3>3, <3>4
    <3>6. QED
      BY <1>1, <3>3, <3>5 DEF TaskType
  <2>2. ASSUME NEW b \in BOOLEAN, NextPhase(b)
        PROVE  task' \in TaskType /\ task'.pc \in {"read", "phase"} /\ task'.via = "transport" /\ task'.ask = task.ask
    BY <1>1, <2>2, PhaseEnds
  <2>3. (task.attempt < Retry /\ Retried("read")) \/ NextPhase(TRUE) \/ NextPhase(FALSE)
    BY DEF ReadAnswered
  <2>4. QED
    BY <2>1, <2>2, <2>3
<1>3. TypeOK' /\ ResolvedIsSpoken'
  BY <1>2 DEF Inv, TypeOK, Counted, ResolvedIsSpoken
<1>4. LinkInv'
  BY <1>1 DEF Inv, LinkInv, Framed, Holds, Open, Unlinked
<1>5. TaskInv'
  BY <1>1, <1>2 DEF TaskInv, At, RawTask
<1>6. StreamInv'
  BY <1>2 DEF StreamInv, AnswersMatch, Due, Belong, At
<1>7. QED
  BY <1>3, <1>4, <1>5, <1>6 DEF Inv

LEMMA NoLength == ASSUME NEW q \in Seq(Pieces), Len(q) = 0 PROVE q = <<>>
  OBVIOUS
LEMMA Lengths ==
  ASSUME NEW p \in Seq(Pieces), NEW q \in Seq(Pieces), Len(p) + Len(q) <= 0
  PROVE  Len(p) = 0 /\ Len(q) = 0 /\ p = <<>> /\ q = <<>>
<1>1. Len(p) \in Nat /\ Len(q) \in Nat
  OBVIOUS
<1>2. \A a, b \in Nat : a + b <= 0 => a = 0 /\ b = 0
  OBVIOUS
<1>3. Len(p) = 0 /\ Len(q) = 0
  BY <1>1, <1>2
<1>4. QED
  BY <1>3, NoLength
LEMMA Silence ==
  ASSUME Inv, ~RawTask, NEW s \in Socks, Open(s)
  PROVE  /\ socks[s] \in SocketType /\ socks[s].heard = <<>> /\ socks[s].owed = <<>>
         /\ Len(socks[s].heard) = 0 /\ Len(socks[s].owed) = 0
<1>1. socks[s] \in SocketType /\ socks[s].heard \in Seq(Pieces) /\ socks[s].owed \in Seq(Pieces)
  BY DEF Inv, TypeOK, SocketType, Open
<1>2. Len(socks[s].heard) + Len(socks[s].owed) <= 0
  BY DEF Inv, StreamInv, Due, RawTask
<1>3. QED
  BY <1>1, <1>2, Lengths

LEMMA SilentStream ==
  ASSUME Inv, UNCHANGED <<site, socks>>, ~RawTask, ~RawTask'
  PROVE  StreamInv'
<1>1. AnswersMatch' /\ Due' = 0
  BY DEF AnswersMatch, Due, RawTask, At
<1>2. ASSUME NEW s \in Socks, Open(s)'
      PROVE  /\ Len(socks'[s].heard) + Len(socks'[s].owed) <= 0
             /\ Belong(socks[s].heard)' /\ Belong(socks[s].owed)'
             /\ socks'[s].heard = <<>> /\ socks'[s].owed = <<>>
  <2>1. Open(s) /\ socks'[s] = socks[s]
    BY <1>2 DEF Open
  <2>2. Len(socks[s].heard) = 0 /\ Len(socks[s].owed) = 0 /\ socks[s].heard = <<>> /\ socks[s].owed = <<>>
    BY <2>1, Silence
  <2>3. 0 + 0 <= 0
    OBVIOUS
  <2>4. Belong(socks[s].heard)' /\ Belong(socks[s].owed)'
    BY <2>1, <2>2 DEF Belong
  <2>5. QED
    BY <2>1, <2>2, <2>3, <2>4
<1>3. QED
  BY <1>1, <1>2 DEF StreamInv

\* While nothing is due, an answered request leaves the sockets as they were.
LEMMA Settled ==
  ASSUME Inv, UNCHANGED <<site, socks>>, ~RawTask
  PROVE  /\ socks' \in [Socks -> SocketType \cup {None}]
         /\ \A s \in Socks : Open(s)' => /\ Open(s) /\ socks'[s].framing = socks[s].framing
                                         /\ Len(socks'[s].heard) + Len(socks'[s].owed) <= 0
                                         /\ Belong(socks'[s].heard) /\ Belong(socks'[s].owed)
                                         /\ ~Raw(site.speaks) => socks'[s].heard = <<>> /\ socks'[s].owed = <<>>
         /\ \A s \in Socks : Open(s) => Open(s)'
  BY DEF Inv, TypeOK, StreamInv, Open, Due, RawTask, Belong

LEMMA ReadStep == ASSUME Inv, Read PROVE Inv'
<1>0. task \in TaskType /\ Reading \subseteq Pcs /\ UNCHANGED <<site, stopped, cut>>
  BY DEF Inv, TypeOK, Pcs, Reading, Read, StartPhase, SendFrame, SendPymodbus, SendUnconnected, PymodbusEnds, EndCycle
<1>9. Counted'
  BY <1>0, Counting DEF Inv, TypeOK, Read, StartPhase, SendFrame, SendPymodbus, SendUnconnected, PymodbusEnds, EndCycle
<1>8. {"ensure", "final", "read", "wait", "header"} \subseteq Pcs
  BY DEF Pcs
<1>7. ASSUME NEW r \in Transient, task.pc \in Reading, Broken(r) PROVE Inv'
  BY <1>0, <1>7, <1>9, Breaks
<1>1. CASE StartPhase
  <2>1. At("phase") /\ task.via = "transport" /\ trial = None /\ ~RawTask /\ UNCHANGED resolved
    BY <1>0, <1>1 DEF StartPhase, Inv, TaskInv, TaskType, At, RawTask, Reading
  <2>2. ASSUME NEW pc \in {"final", "read"}, Goto(pc), UNCHANGED link PROVE Inv'
    BY <1>0, <1>8, <1>9, <2>1, <2>2, Going, Staying
  <2>3. ASSUME task' = [task EXCEPT !.pc = "ensure", !.after = "final"], UNCHANGED link PROVE Inv'
    <3>1. "final" \in Afters
      BY DEF Afters
    <3>2. task' \in TaskType
      BY <1>0, <1>8, <2>3, <3>1, TaskEdits
    <3>3. task'.pc = "ensure" /\ task'.via = "transport" /\ task'.ask = task.ask
      BY <1>0, <2>1, <2>3, <3>2 DEF TaskType
    <3>4. QED
      BY <1>0, <1>9, <2>1, <2>3, <3>2, <3>3, Staying
  <2>4. ASSUME CycleFails("failed") PROVE Inv'
    BY <1>0, <1>9, <2>1, <2>4, Failing DEF Results
  <2>5. QED
    BY <1>1, <2>2, <2>3, <2>4 DEF StartPhase
<1>2. CASE EndCycle
  <2>1. At("final") /\ task.via = "transport" /\ trial = None /\ ~RawTask /\ UNCHANGED <<resolved, link>>
    BY <1>0, <1>2 DEF EndCycle, Inv, TaskInv, TaskType, At, RawTask, Reading
  <2>2. PICK r \in Results : task' = Idle(r)
    BY <1>2 DEF EndCycle, Results
  <2>3. task' \in TaskType /\ task'.pc = "idle" /\ task'.via = "transport"
    BY <2>2, IdleType DEF Idle
  <2>4. TypeOK' /\ ResolvedIsSpoken'
    BY <1>0, <1>9, <2>1, <2>3 DEF Inv, TypeOK, Counted, ResolvedIsSpoken, link
  <2>5. LinkInv' /\ TaskInv'
    BY <2>1, <2>3 DEF Inv, LinkInv, Framed, Holds, Open, Unlinked, TaskInv, At, RawTask, link
  <2>6. StreamInv'
    BY <1>0, <2>1, <2>3, SilentStream DEF At, RawTask, link
  <2>7. QED
    BY <2>4, <2>5, <2>6 DEF Inv
<1>3. CASE SendPymodbus
  <2>1. At("read") /\ ~RawTask /\ Goto("wait") /\ UNCHANGED <<resolved, link>>
    BY <1>3 DEF SendPymodbus, At, RawTask
  <2>2. task' \in TaskType /\ task'.pc = "wait" /\ task'.via = task.via /\ task'.ask = task.ask /\ task'.order = task.order
    BY <1>0, <1>8, <2>1, Going
  <2>3. TypeOK' /\ ResolvedIsSpoken'
    BY <1>0, <1>9, <2>1, <2>2 DEF Inv, TypeOK, Counted, ResolvedIsSpoken, link
  <2>4. LinkInv' /\ TaskInv'
    BY <2>1, <2>2 DEF Inv, LinkInv, Framed, Holds, Open, Unlinked, TaskInv, At, RawTask, Reading, link
  <2>5. StreamInv'
    BY <1>0, <2>1, <2>2 DEF Inv, StreamInv, AnswersMatch, Open, Due, Belong, At, RawTask, link
  <2>6. QED
    BY <2>3, <2>4, <2>5 DEF Inv
<1>4. CASE PymodbusEnds
  <2>1. At("wait") /\ ~RawTask /\ task.pc \in Reading
    BY <1>4 DEF PymodbusEnds, At, RawTask, Reading
  <2>2. ASSUME NEW r \in Transient, Broken(r) PROVE Inv'
    BY <1>7, <2>1, <2>2
  <2>3. ASSUME NEW r \in {"ok", "illegal"}, Answered(r, socks),
               NEW s, s = IF IsDirect THEN client ELSE Via.sock, s \in Socks, site.speaks = socks[s].framing
        PROVE  Inv'
    <3>1. UNCHANGED <<site, socks>>
      BY <1>0, <2>3 DEF Answered
    <3>2. CASE task.via = "trial"
      <4>1. ProbeAnswered /\ trial.mode = site.speaks
        BY <2>3, <3>2 DEF Answered, IsDirect, Via, Inv, LinkInv, TaskInv, Framed, Holds
      <4>2. QED
        BY <1>0, <1>9, <2>1, <3>1, <3>2, <4>1, Settled, ProbeWins
    <3>3. CASE task.via = "transport"
      BY <1>0, <1>9, <2>1, <2>3, <3>1, <3>3, Settled, ReadAnswers DEF Answered
    <3>4. QED
      BY <1>0, <3>2, <3>3, TaskEdits
  <2>4. PICK s : s = IF IsDirect THEN client ELSE Via.sock
    OBVIOUS
  <2>5. \/ \E r \in Transient : Broken(r)
        \/ s \in Socks /\ site.speaks = socks[s].framing /\ \E r \in {"ok", "illegal"} : Answered(r, socks)
    BY <1>4, <2>4 DEF PymodbusEnds, Transient
  <2>6. QED
    BY <2>2, <2>3, <2>4, <2>5
<1>5. CASE SendFrame
  <2>1. /\ At("read") /\ ~RawTask /\ Via # None /\ Raw(Via.mode)
        /\ UNCHANGED <<resolved, transport, trial, client>> /\ task' = [Asked EXCEPT !.pc = "header"]
    BY <1>5 DEF SendFrame, At, RawTask, Connected
  <2>2. PICK s \in Socks : s = Via.sock
    BY <1>5 DEF SendFrame, Connected, Live
  <2>3. Open(s)
    BY <2>1, <2>2 DEF Inv, LinkInv, Framed, Holds, Via
  <2>4. task.ask \in {1, 2} /\ 3 - task.ask \in {1, 2}
    <3>1. \A a \in {1, 2} : 3 - a \in {1, 2}
      OBVIOUS
    <3>2. QED
      BY <1>0, <3>1, TaskEdits
  <2>5. task' \in TaskType /\ task'.pc = "header" /\ task'.via = task.via /\ task'.ask = 3 - task.ask
        /\ task'.order = task.order
    <3>1. \A n \in {1, 2} : [task EXCEPT !.ask = n, !.got = None] \in TaskType
      BY <1>0 DEF TaskType
    <3>2. Asked = [task EXCEPT !.ask = 3 - task.ask, !.got = None]
      BY DEF Asked
    <3>3. Asked \in TaskType
      BY <2>4, <3>1, <3>2
    <3>4. task' \in TaskType
      BY <1>8, <2>1, <3>3, TaskEdits
    <3>5. Asked.via = task.via /\ Asked.ask = 3 - task.ask /\ Asked.order = task.order
      BY <1>0, <3>2 DEF TaskType
    <3>6. QED
      BY <2>1, <3>3, <3>4, <3>5 DEF TaskType
  <2>6. socks[s] \in SocketType /\ socks[s].heard = <<>> /\ socks[s].owed = <<>>
    BY <2>1, <2>3, Silence
  <2>7. PICK q \in Seq(Pieces) :
          /\ socks' = [socks EXCEPT ![s] = [socks[s] EXCEPT !.owed = q]]
          /\ Len(q) <= 2 /\ (~Raw(site.speaks) => q = <<>>)
          /\ \A i \in 1 .. Len(q) : q[i].of = 3 - task.ask
    <3>1. CASE socks' = [socks EXCEPT ![Via.sock].owed = socks[Via.sock].owed]
      <4>1. socks' = [socks EXCEPT ![s] = [socks[s] EXCEPT !.owed = <<>>]]
        BY <2>2, <2>6, <3>1
      <4>2. <<>> \in Seq(Pieces) /\ Len(<<>>) <= 2 /\ \A i \in 1 .. Len(<<>>) : FALSE
        OBVIOUS
      <4>3. QED
        BY <4>1, <4>2
    <3>2. ASSUME NEW exc \in BOOLEAN, Raw(site.speaks),
                 socks' = [socks EXCEPT ![Via.sock].owed = socks[Via.sock].owed \o Answer(3 - task.ask, exc)]
          PROVE  \E q \in Seq(Pieces) :
                   /\ socks' = [socks EXCEPT ![s] = [socks[s] EXCEPT !.owed = q]]
                   /\ Len(q) <= 2 /\ (~Raw(site.speaks) => q = <<>>)
                   /\ \A i \in 1 .. Len(q) : q[i].of = 3 - task.ask
      <4>1. PICK h \in Pieces, t \in Pieces :
              Answer(3 - task.ask, exc) = <<h, t>> /\ h.of = 3 - task.ask /\ t.of = 3 - task.ask
        <5>1. \A a \in {1, 2}, x \in {"header", "exception", "rest"} : [of |-> a, part |-> x] \in Pieces
          BY DEF Pieces
        <5>2. QED
          BY <2>4, <5>1 DEF Answer
      <4>2. <<h, t>> \in Seq(Pieces) /\ <<>> \o <<h, t>> = <<h, t>> /\ Len(<<h, t>>) = 2
        OBVIOUS
      <4>3. socks' = [socks EXCEPT ![s] = [socks[s] EXCEPT !.owed = <<h, t>>]]
        BY <2>2, <2>6, <3>2, <4>1, <4>2
      <4>4. Len(<<h, t>>) <= 2 /\ \A i \in 1 .. Len(<<h, t>>) : <<h, t>>[i] \in {h, t}
        OBVIOUS
      <4>5. QED
        BY <3>2, <4>1, <4>2, <4>3, <4>4
    <3>3. \/ socks' = [socks EXCEPT ![Via.sock].owed = socks[Via.sock].owed]
          \/ /\ Raw(site.speaks)
             /\ \E exc \in BOOLEAN :
                  socks' = [socks EXCEPT ![Via.sock].owed = socks[Via.sock].owed \o Answer(3 - task.ask, exc)]
      BY <1>5 DEF SendFrame
    <3>4. QED
      BY <3>1, <3>2, <3>3
  <2>8. [socks[s] EXCEPT !.owed = q] \in SocketType
        /\ [socks[s] EXCEPT !.owed = q].framing = socks[s].framing
        /\ [socks[s] EXCEPT !.owed = q].heard = <<>> /\ [socks[s] EXCEPT !.owed = q].owed = q
    BY <2>6 DEF SocketType
  <2>9. \A x \in Socks : (Open(x)' <=> Open(x)) /\ (Open(x) => socks'[x].framing = socks[x].framing)
    BY <2>3, <2>7, <2>8, NoneAssumption DEF Inv, TypeOK, Open
  <2>10. TypeOK' /\ ResolvedIsSpoken'
    BY <1>0, <1>9, <2>1, <2>5, <2>7, <2>8 DEF Inv, TypeOK, Counted, ResolvedIsSpoken
  <2>11. LinkInv'
    BY <2>1, <2>9 DEF Inv, LinkInv, Framed, Holds, Unlinked
  <2>12. TaskInv'
    BY <2>1, <2>5 DEF Inv, TaskInv, At, RawTask, Via, Reading
  <2>13. StreamInv'
    <3>1. Due' = 2 /\ AnswersMatch'
      BY <2>5 DEF Due, AnswersMatch, At
    <3>2. ASSUME NEW x \in Socks, Open(x)'
          PROVE  /\ Len(socks'[x].heard) + Len(socks'[x].owed) <= 2
                 /\ Belong(socks[x].heard)' /\ Belong(socks[x].owed)'
                 /\ ~Raw(site.speaks)' => socks'[x].heard = <<>> /\ socks'[x].owed = <<>>
      <4>1. CASE x = s
        <5>1. socks'[x].heard = <<>> /\ socks'[x].owed = q
          BY <2>7, <2>8, <4>1 DEF Inv, TypeOK
        <5>2. Len(socks'[x].heard) = 0
          BY <5>1
        <5>3. Len(q) \in Nat
          OBVIOUS
        <5>4. Len(socks'[x].heard) + Len(socks'[x].owed) <= 2
          <6>1. \A a, b \in Nat : a = 0 /\ b <= 2 => a + b <= 2
            OBVIOUS
          <6>2. QED
            BY <2>7, <5>1, <5>2, <5>3, <6>1
        <5>5. Belong(socks[x].heard)' /\ Belong(socks[x].owed)'
          BY <2>5, <2>7, <5>1, <5>2 DEF Belong
        <5>6. QED
          BY <1>0, <2>7, <5>1, <5>4, <5>5
      <4>2. CASE x # s
        <5>1. socks'[x] = socks[x] /\ Open(x)
          BY <2>7, <2>9, <3>2, <4>2 DEF Inv, TypeOK
        <5>2. socks[x].heard = <<>> /\ socks[x].owed = <<>>
          BY <2>1, <5>1, Silence
        <5>3. Len(socks[x].heard) = 0 /\ Len(socks[x].owed) = 0 /\ 0 + 0 <= 2
          BY <2>1, <5>1, Silence
        <5>4. Belong(socks[x].heard)' /\ Belong(socks[x].owed)'
          BY <5>1, <5>3 DEF Belong
        <5>5. QED
          BY <5>1, <5>2, <5>3, <5>4
      <4>3. QED
        BY <4>1, <4>2
    <3>3. QED
      BY <3>1, <3>2 DEF StreamInv
  <2>14. QED
    BY <2>10, <2>11, <2>12, <2>13 DEF Inv
<1>6. CASE SendUnconnected
  <2>1. At("read") /\ ~RawTask /\ task.pc \in Reading
    BY <1>6 DEF SendUnconnected, At, RawTask, Reading
  <2>2. ASSUME Broken("connection") PROVE Inv'
    BY <1>7, <2>1, <2>2 DEF Transient
  <2>3. ASSUME SelfDial, ~IsDirect, UNCHANGED <<task, resolved>> PROVE Inv'
    <3>1. Via # None /\ Via \in TransportType /\ Via.mode \in Modes
      BY <2>1, <2>3 DEF Inv, TypeOK, TaskInv, TaskType, IsDirect, Via, TransportType
    <3>2. Closed(SockOf(Via)) = [x \in Socks |-> None]
      <4>1. \A x \in Socks : Open(x) => x \in SockOf(Via)
        BY <1>0, <2>1, <3>1, NoneAssumption
           DEF Inv, LinkInv, TaskInv, TaskType, Holds, SockOf, Via, At
      <4>2. QED
        BY <4>1 DEF Closed, Open
    <3>3. PICK s \in Socks, m \in Modes :
            /\ m = Via.mode /\ s = CHOOSE x \in Socks : Closed(SockOf(Via))[x] = None
            /\ socks' = [x \in Socks |-> IF x = s THEN Socket(m) ELSE None]
      <4>0. PICK m \in Modes : m = Via.mode
        BY <3>1
      <4>1. PICK s \in Socks : s = CHOOSE x \in Socks : Closed(SockOf(Via))[x] = None
        BY <3>2, SocksAssumption
      <4>2. socks' = [x \in Socks |-> IF x = s THEN Socket(m) ELSE None]
        BY <2>3, <3>2, <4>0, <4>1 DEF SelfDial
      <4>3. QED
        BY <4>0, <4>1, <4>2
    <3>4. [mode |-> m, sock |-> s] \in TransportType /\ [mode |-> m, sock |-> s] # None
      BY NewTransport
    <3>5. client' = AliasWithout(SockOf(Via))
      BY <2>3 DEF SelfDial
    <3>6. client' \in {None, Gone}
      BY <3>1, <3>5, NoneAssumption DEF Inv, TypeOK, LinkInv, TaskInv, AliasWithout, SockOf, Via
    <3>7. CASE task.via = "trial"
      <4>1. transport' = transport /\ trial' = [mode |-> m, sock |-> s]
        BY <2>3, <3>3, <3>7 DEF SelfDial
      <4>2. transport = None /\ client = None /\ task.order # <<>>
        BY <3>7 DEF Inv, LinkInv, TaskInv
      <4>3. client' = None
        BY <3>5, <4>2, NoneAssumption DEF AliasWithout, SockOf
      <4>4. Opens(s, m) /\ TrialHolds(s, m)
        BY <2>1, <2>3, <3>3, <3>4, <3>7, <4>1, <4>2, <4>3 DEF Opens, TrialHolds
      <4>5. QED
        BY <1>0, <1>9, <2>1, <2>3, <4>4, Opening DEF At
    <3>8. CASE task.via = "transport"
      <4>1. trial = None
        BY <2>1, <3>8 DEF Inv, TaskInv, At
      <4>2. trial' = trial /\ transport' = [mode |-> m, sock |-> s]
        BY <2>3, <3>3, <3>8 DEF SelfDial
      <4>3. Opens(s, m) /\ PollHolds(s, m)
        BY <2>1, <2>3, <3>3, <3>4, <3>6, <3>8, <4>1, <4>2 DEF Opens, PollHolds
      <4>4. QED
        BY <1>0, <1>9, <2>1, <2>3, <4>3, Opening DEF At
    <3>9. QED
      BY <1>0, <3>7, <3>8, TaskEdits
  <2>4. QED
    BY <1>6, <2>2, <2>3 DEF SendUnconnected
<1>10. QED
  BY <1>1, <1>2, <1>3, <1>4, <1>5, <1>6 DEF Read

\* What a raw task reads from: the only open socket.
LEMMA RawVia ==
  ASSUME Inv, RawTask
  PROVE  /\ Via # None /\ Raw(Via.mode)
         /\ \A s \in Socks : Open(s) => s = Via.sock
         /\ Via.sock \in Socks => Open(Via.sock) /\ socks[Via.sock] \in SocketType /\ SockOf(Via) = {Via.sock}
         /\ Via.sock \notin Socks => SockOf(Via) = {}
<1>1. Via # None /\ Raw(Via.mode) /\ task \in TaskType
  BY DEF Inv, TaskInv, TypeOK
<1>2. \A s \in Socks : Open(s) => s = Via.sock
  BY <1>1, NoneAssumption DEF Inv, LinkInv, TaskInv, TaskType, RawTask, At, Via, Holds
<1>3. Via.sock \in Socks => Open(Via.sock)
  BY <1>1 DEF Inv, LinkInv, Framed, Via, Holds
<1>4. QED
  BY <1>1, <1>2, <1>3 DEF SockOf, Open, Inv, TypeOK

\* The first piece of the buffer, and what is left.
LEMMA Reads ==
  ASSUME Inv, RawTask, Buffer # <<>>
  PROVE  /\ Via.sock \in Socks /\ Open(Via.sock) /\ Buffer = socks[Via.sock].heard
         /\ Head(Buffer) \in Pieces /\ Tail(Buffer) \in Seq(Pieces) /\ Buffer \in Seq(Pieces)
         /\ Taken = [socks EXCEPT ![Via.sock] = [socks[Via.sock] EXCEPT !.heard = Tail(Buffer)]]
         /\ [socks[Via.sock] EXCEPT !.heard = Tail(Buffer)] \in SocketType
         /\ Head(Buffer).part # "noise" => Head(Buffer).of = task.ask
         /\ Belong(Tail(Buffer))
         /\ Len(Tail(Buffer)) + Len(socks[Via.sock].owed) <= Due - 1
         /\ Raw(site.speaks)
<1>1. Via.sock \in Socks /\ Buffer = socks[Via.sock].heard
  BY RawVia DEF Buffer
<1>2. Open(Via.sock) /\ socks[Via.sock] \in SocketType
  BY <1>1, RawVia
<1>3. Buffer \in Seq(Pieces) /\ socks[Via.sock].owed \in Seq(Pieces)
  BY <1>1, <1>2 DEF SocketType
<1>4. /\ Head(Buffer) \in Pieces /\ Tail(Buffer) \in Seq(Pieces) /\ Len(Tail(Buffer)) = Len(Buffer) - 1
      /\ Len(Buffer) \in Nat \ {0} /\ Head(Buffer) = Buffer[1]
      /\ \A i \in 1 .. Len(Tail(Buffer)) : i + 1 \in 1 .. Len(Buffer) /\ Tail(Buffer)[i] = Buffer[i + 1]
  BY <1>3
<1>5. Belong(Buffer) /\ Len(Buffer) + Len(socks[Via.sock].owed) <= Due
      /\ (~Raw(site.speaks) => Buffer = <<>>)
  BY <1>1, <1>2 DEF Inv, StreamInv
<1>6. Head(Buffer).part # "noise" => Head(Buffer).of = task.ask
  <2>1. 1 \in 1 .. Len(Buffer)
    BY <1>4
  <2>2. QED
    BY <1>4, <1>5, <2>1 DEF Belong
<1>7. Belong(Tail(Buffer))
  BY <1>4, <1>5 DEF Belong
<1>8. Len(Tail(Buffer)) + Len(socks[Via.sock].owed) <= Due - 1
  <2>1. Len(socks[Via.sock].owed) \in Nat /\ Due \in Nat
    BY <1>3 DEF Due
  <2>2. QED
    BY <1>4, <1>5, <2>1
<1>9. Taken = [socks EXCEPT ![Via.sock] = [socks[Via.sock] EXCEPT !.heard = Tail(Buffer)]]
  BY <1>1 DEF Taken
<1>10. [socks[Via.sock] EXCEPT !.heard = Tail(Buffer)] \in SocketType
  BY <1>2, <1>4 DEF SocketType
<1>11. QED
  BY <1>1, <1>2, <1>3, <1>4, <1>5, <1>6, <1>7, <1>8, <1>9, <1>10

LEMMA FrameStep == ASSUME Inv, Frame PROVE Inv'
<1>0. task \in TaskType /\ RawTask /\ task.pc \in Reading /\ UNCHANGED <<site, stopped, cut>>
  BY DEF Inv, TypeOK, Frame, ReadHeader, ReadRest, BadFrame, FrameTimesOut, RawTask, At, Reading
<1>1. Counted'
  BY <1>0, Counting DEF Inv, TypeOK, Frame, ReadHeader, ReadRest, BadFrame, FrameTimesOut
<1>2. CASE BadFrame \/ FrameTimesOut
  <2>1. PICK r \in Transient : Broken(r)
    BY <1>2 DEF BadFrame, FrameTimesOut, Transient
  <2>2. QED
    BY <1>0, <1>1, <2>1, Breaks
<1>3. ASSUME Buffer # <<>>, socks' = Taken
      PROVE  /\ socks' \in [Socks -> SocketType \cup {None}]
             /\ \A s \in Socks : Open(s)' =>
                  /\ s = Via.sock /\ Open(s) /\ socks'[s].framing = socks[s].framing
                  /\ Len(socks'[s].heard) + Len(socks'[s].owed) <= Due - 1
                  /\ Belong(socks'[s].heard) /\ Belong(socks'[s].owed)
             /\ \A s \in Socks : Open(s) => Open(s)'
  <2>1. PICK v \in Socks, q \in Seq(Pieces) :
          /\ v = Via.sock /\ Open(v) /\ socks' = [socks EXCEPT ![v] = [socks[v] EXCEPT !.heard = q]]
          /\ [socks[v] EXCEPT !.heard = q] \in SocketType
          /\ Belong(q) /\ Len(q) + Len(socks[v].owed) <= Due - 1
    BY <1>0, <1>3, Reads
  <2>2. /\ socks[v] \in SocketType
        /\ \A x \in Socks : Open(x) => x = v
    BY <1>0, <2>1, RawVia
  <2>3. /\ [socks[v] EXCEPT !.heard = q].heard = q /\ [socks[v] EXCEPT !.heard = q].owed = socks[v].owed
        /\ [socks[v] EXCEPT !.heard = q].framing = socks[v].framing
        /\ [socks[v] EXCEPT !.heard = q] # None
    BY <2>1, <2>2, NoneAssumption DEF SocketType
  <2>4. Belong(socks[v].owed)
    BY <2>1 DEF Inv, StreamInv
  <2>5. QED
    BY <2>1, <2>2, <2>3, <2>4 DEF Inv, TypeOK, Open
<1>4. CASE ReadHeader
  <2>1. At("header") /\ Buffer # <<>> /\ Head(Buffer).part \in {"header", "exception"} /\ socks' = Taken
        /\ task' = [task EXCEPT !.pc = "rest", !.got = Head(Buffer)]
        /\ UNCHANGED <<resolved, transport, trial, client>>
    BY <1>4 DEF ReadHeader
  <2>2. Head(Buffer) \in Pieces /\ Head(Buffer).of = task.ask /\ Raw(site.speaks)
    BY <1>0, <2>1, Reads
  <2>3. task' \in TaskType /\ task'.pc = "rest" /\ task'.via = task.via /\ task'.ask = task.ask
        /\ task'.order = task.order /\ task'.got = Head(Buffer)
    <3>1. "rest" \in Pcs
      BY DEF Pcs
    <3>2. task' \in TaskType
      BY <1>0, <2>1, <2>2, <3>1, TaskEdits, ZenonT(40)
    <3>3. QED
      BY <1>0, <2>1, <3>2, ZenonT(40) DEF TaskType
  <2>4. TypeOK' /\ ResolvedIsSpoken'
    BY <1>0, <1>1, <1>3, <2>1, <2>3, ZenonT(40) DEF Inv, TypeOK, Counted, ResolvedIsSpoken
  <2>5. LinkInv'
    BY <1>3, <2>1, ZenonT(40) DEF Inv, LinkInv, Framed, Holds, Unlinked
  <2>6. TaskInv'
    BY <1>0, <2>1, <2>3 DEF Inv, TaskInv, At, RawTask, Via, Reading
  <2>7. StreamInv'
    <3>1. Due = 2 /\ Due' = 1 /\ AnswersMatch'
      BY <2>1, <2>2, <2>3 DEF Due, AnswersMatch, At
    <3>2. QED
      <4>1. ASSUME NEW s \in Socks, Open(s)'
            PROVE  /\ Len(socks'[s].heard) + Len(socks'[s].owed) <= 1
                   /\ Belong(socks[s].heard)' /\ Belong(socks[s].owed)'
        <5>1. /\ Len(socks'[s].heard) + Len(socks'[s].owed) <= 2 - 1
              /\ Belong(socks'[s].heard) /\ Belong(socks'[s].owed)
          BY <1>3, <2>1, <3>1, <4>1
        <5>2. Belong(socks[s].heard)' /\ Belong(socks[s].owed)'
          BY <2>3, <5>1 DEF Belong
        <5>3. \A n : n <= 2 - 1 => n <= 1
          OBVIOUS
        <5>4. QED
          BY <5>1, <5>2, <5>3
      <4>2. QED
        BY <1>0, <2>2, <3>1, <4>1 DEF StreamInv
  <2>8. QED
    BY <2>4, <2>5, <2>6, <2>7 DEF Inv
<1>5. CASE ReadRest
  <2>1. PICK r \in {"ok", "exception"} : Answered(r, Taken)
    BY <1>5 DEF ReadRest
  <2>2. At("rest") /\ Buffer # <<>> /\ socks' = Taken
    BY <1>5, <2>1 DEF ReadRest, Answered
  <2>3. Due = 1 /\ Due - 1 = 0 /\ Raw(site.speaks)
    BY <1>0, <2>2, Reads DEF Due, At
  <2>4. /\ socks' \in [Socks -> SocketType \cup {None}]
        /\ \A s \in Socks : Open(s)' => /\ Open(s) /\ socks'[s].framing = socks[s].framing
                                        /\ Len(socks'[s].heard) + Len(socks'[s].owed) <= 0
                                        /\ Belong(socks'[s].heard) /\ Belong(socks'[s].owed)
                                        /\ ~Raw(site.speaks) => socks'[s].heard = <<>> /\ socks'[s].owed = <<>>
        /\ \A s \in Socks : Open(s) => Open(s)'
    BY <1>3, <2>2, <2>3
  <2>5. CASE task.via = "trial"
    <3>1. ProbeAnswered /\ trial.mode = site.speaks
      BY <1>0, <2>1, <2>3, <2>5, RawVia DEF Answered, Raw, Via
    <3>2. QED
      BY <1>0, <1>1, <2>4, <2>5, <3>1, ProbeWins
  <2>6. CASE task.via = "transport"
    BY <1>0, <1>1, <2>1, <2>4, <2>6, ReadAnswers DEF Answered
  <2>7. QED
    BY <1>0, <2>5, <2>6, TaskEdits
<1>6. QED
  BY <1>2, <1>4, <1>5 DEF Frame

\* A change of one open socket that keeps its framing and what belongs to it.
LEMMA SocketChanges ==
  ASSUME Inv, NEW s \in Socks, Open(s), NEW new \in SocketType,
         socks' = [socks EXCEPT ![s] = new], new.framing = socks[s].framing,
         Len(new.heard) + Len(new.owed) <= Due, Belong(new.heard), Belong(new.owed),
         ~Raw(site.speaks) => new.heard = <<>> /\ new.owed = <<>>,
         UNCHANGED <<site, transport, trial, client, resolved, task>>, Counted'
  PROVE  Inv'
<1>1. new # None
  BY NoneAssumption
<1>2. TypeOK' /\ ResolvedIsSpoken'
  BY DEF Inv, TypeOK, Counted, ResolvedIsSpoken
<1>3. \A x \in Socks : (Open(x)' <=> Open(x)) /\ (Open(x) => socks'[x].framing = socks[x].framing)
  BY <1>1 DEF Inv, TypeOK, Open
<1>4. LinkInv'
  BY <1>3 DEF Inv, LinkInv, Framed, Holds, Unlinked
<1>5. TaskInv'
  BY DEF Inv, TaskInv, At, RawTask, Via
<1>6. StreamInv'
  <2>1. Due' = Due /\ AnswersMatch'
    BY DEF Inv, StreamInv, Due, AnswersMatch, At
  <2>2. ASSUME NEW x \in Socks, Open(x)'
        PROVE  /\ Len(socks'[x].heard) + Len(socks'[x].owed) <= Due
               /\ Belong(socks[x].heard)' /\ Belong(socks[x].owed)'
               /\ ~Raw(site.speaks) => socks'[x].heard = <<>> /\ socks'[x].owed = <<>>
    <3>1. CASE x = s
      <4>1. socks'[x] = new
        BY <3>1 DEF Inv, TypeOK
      <4>2. Belong(socks[x].heard)' /\ Belong(socks[x].owed)'
        BY <4>1 DEF Belong
      <4>3. QED
        BY <4>1, <4>2
    <3>2. CASE x # s
      <4>1. socks'[x] = socks[x] /\ Open(x)
        BY <1>3, <2>2, <3>2 DEF Inv, TypeOK
      <4>2. /\ Len(socks[x].heard) + Len(socks[x].owed) <= Due
            /\ Belong(socks[x].heard) /\ Belong(socks[x].owed)
            /\ ~Raw(site.speaks) => socks[x].heard = <<>> /\ socks[x].owed = <<>>
        BY <4>1 DEF Inv, StreamInv
      <4>3. Belong(socks[x].heard)' /\ Belong(socks[x].owed)'
        BY <4>1, <4>2 DEF Belong
      <4>4. QED
        BY <4>1, <4>2, <4>3
    <3>3. QED
      BY <3>1, <3>2
  <2>3. QED
    BY <2>1, <2>2 DEF StreamInv
<1>7. QED
  BY <1>2, <1>4, <1>5, <1>6 DEF Inv

\* A piece passes from the wire to the buffer.
LEMMA Passing ==
  ASSUME NEW h \in Seq(Pieces), NEW o \in Seq(Pieces), o # <<>>, NEW x \in Pieces,
         x.part # "noise" => x = Head(o), Belong(h), Belong(o)
  PROVE  /\ Append(h, x) \in Seq(Pieces) /\ Tail(o) \in Seq(Pieces)
         /\ Len(Append(h, x)) + Len(Tail(o)) = Len(h) + Len(o)
         /\ Belong(Append(h, x)) /\ Belong(Tail(o))
<1>1. /\ Append(h, x) \in Seq(Pieces) /\ Tail(o) \in Seq(Pieces)
      /\ Len(Append(h, x)) = Len(h) + 1 /\ Len(Tail(o)) = Len(o) - 1
      /\ Len(h) \in Nat /\ Len(o) \in Nat \ {0} /\ Head(o) = o[1]
      /\ \A i \in 1 .. Len(Tail(o)) : i + 1 \in 1 .. Len(o) /\ Tail(o)[i] = o[i + 1]
  OBVIOUS
<1>2. Belong(Tail(o))
  BY <1>1 DEF Belong
<1>3. Belong(Append(h, x))
  <2>1. ASSUME NEW i \in 1 .. Len(Append(h, x)), Append(h, x)[i].part # "noise"
        PROVE  Append(h, x)[i].of = task.ask
    <3>1. CASE i \in 1 .. Len(h)
      <4>1. Append(h, x)[i] = h[i]
        BY <3>1
      <4>2. QED
        BY <2>1, <3>1, <4>1 DEF Belong
    <3>2. CASE i = Len(h) + 1
      <4>1. Append(h, x)[i] = x
        BY <3>2
      <4>2. 1 \in 1 .. Len(o)
        BY <1>1
      <4>3. QED
        BY <1>1, <2>1, <4>1, <4>2 DEF Belong
    <3>3. QED
      BY <1>1, <3>1, <3>2
  <2>2. QED
    BY <2>1 DEF Belong
<1>4. Len(Append(h, x)) + Len(Tail(o)) = Len(h) + Len(o)
  BY <1>1
<1>5. QED
  BY <1>1, <1>2, <1>3, <1>4

LEMMA NetworkStep == ASSUME Inv, NEW s \in Socks, Arrive(s) \/ Drop(s) \/ AutoRedial(s) PROVE Inv'
<1>0. Open(s) /\ socks[s] \in SocketType /\ UNCHANGED <<site, transport, trial, client, resolved, task>>
  BY DEF Inv, TypeOK, Arrive, Drop, AutoRedial, Open
<1>1. Counted'
  <2>1. {stopped', cut'} \subseteq BOOLEAN
    BY DEF Inv, TypeOK, Arrive, Drop, AutoRedial
  <2>2. QED
    BY <2>1, Counting DEF Inv, Arrive, Drop, AutoRedial
<1>2. /\ socks[s].heard \in Seq(Pieces) /\ socks[s].owed \in Seq(Pieces) /\ socks[s].framing \in Modes
      /\ Len(socks[s].heard) + Len(socks[s].owed) <= Due
      /\ Belong(socks[s].heard) /\ Belong(socks[s].owed)
      /\ ~Raw(site.speaks) => socks[s].heard = <<>> /\ socks[s].owed = <<>>
  BY <1>0 DEF Inv, StreamInv, SocketType
<1>3. CASE Arrive(s)
  <2>1. socks[s].owed # <<>> /\ Raw(site.speaks)
    BY <1>2, <1>3 DEF Arrive
  <2>2. Head(socks[s].owed) \in Pieces /\ [of |-> None, part |-> "noise"] \in Pieces
    <3>1. Head(socks[s].owed) \in Pieces
      BY <1>2, <2>1
    <3>2. QED
      BY <3>1 DEF Pieces
  <2>3. PICK x \in Pieces :
          /\ x.part # "noise" => x = Head(socks[s].owed)
          /\ socks' = [socks EXCEPT ![s].heard = Append(socks[s].heard, x), ![s].owed = Tail(socks[s].owed)]
    BY <1>3, <2>2 DEF Arrive
  <2>4. PICK new \in SocketType :
          /\ socks' = [socks EXCEPT ![s] = new] /\ new.framing = socks[s].framing
          /\ new.heard = Append(socks[s].heard, x) /\ new.owed = Tail(socks[s].owed)
    <3>1. Append(socks[s].heard, x) \in Seq(Pieces) /\ Tail(socks[s].owed) \in Seq(Pieces)
      BY <1>2, <2>1, <2>3, Passing
    <3>2. \A h, o \in Seq(Pieces) : [socks[s] EXCEPT !.heard = h, !.owed = o] \in SocketType
      BY <1>0 DEF SocketType
    <3>3. [socks[s] EXCEPT !.heard = Append(socks[s].heard, x), !.owed = Tail(socks[s].owed)] \in SocketType
      BY <3>1, <3>2
    <3>4. socks' = [socks EXCEPT ![s] = [socks[s] EXCEPT !.heard = Append(socks[s].heard, x), !.owed = Tail(socks[s].owed)]]
      BY <2>3 DEF Inv, TypeOK
    <3>5. QED
      BY <1>0, <3>3, <3>4 DEF SocketType
  <2>5. /\ Len(new.heard) + Len(new.owed) = Len(socks[s].heard) + Len(socks[s].owed)
        /\ Belong(new.heard) /\ Belong(new.owed)
    <3>1. /\ Len(Append(socks[s].heard, x)) + Len(Tail(socks[s].owed)) = Len(socks[s].heard) + Len(socks[s].owed)
          /\ Belong(Append(socks[s].heard, x)) /\ Belong(Tail(socks[s].owed))
      BY <1>2, <2>1, <2>3, Passing
    <3>2. QED
      BY <2>4, <3>1
  <2>6. QED
    BY <1>0, <1>1, <1>2, <2>1, <2>4, <2>5, SocketChanges
<1>4. CASE Drop(s)
  <2>1. PICK up \in {"down", "ended"} : socks' = [socks EXCEPT ![s] = [socks[s] EXCEPT !.up = up, !.owed = <<>>]]
    BY <1>4 DEF Drop, Inv, TypeOK
  <2>2. PICK new \in SocketType :
          /\ socks' = [socks EXCEPT ![s] = new] /\ new.framing = socks[s].framing
          /\ new.heard = socks[s].heard /\ new.owed = <<>>
    <3>1. <<>> \in Seq(Pieces)
      OBVIOUS
    <3>2. [socks[s] EXCEPT !.up = up, !.owed = <<>>] \in SocketType
      BY <1>0, <3>1 DEF SocketType
    <3>3. QED
      BY <1>0, <2>1, <3>2 DEF SocketType
  <2>3. Len(new.heard) + Len(new.owed) <= Due /\ Belong(new.owed)
    <3>1. Len(new.owed) = 0 /\ Len(socks[s].heard) \in Nat /\ Len(socks[s].owed) \in Nat /\ Due \in Nat
      BY <1>2, <2>2 DEF Due
    <3>2. Len(new.heard) + Len(new.owed) <= Due
      <4>1. \A a, b, c, d \in Nat : a + b <= c /\ d = 0 => a + d <= c
        OBVIOUS
      <4>2. QED
        BY <1>2, <2>2, <3>1, <4>1
    <3>3. QED
      BY <3>1, <3>2 DEF Belong
  <2>4. QED
    BY <1>0, <1>1, <1>2, <2>2, <2>3, SocketChanges
<1>5. CASE AutoRedial(s)
  <2>1. PICK new \in SocketType :
          /\ socks' = [socks EXCEPT ![s] = new] /\ new.framing = socks[s].framing
          /\ new.heard = <<>> /\ new.owed = <<>>
    BY <1>2, <1>5, NewSocket DEF AutoRedial
  <2>2. Len(new.heard) = 0 /\ Len(new.owed) = 0 /\ Due \in Nat
    BY <2>1 DEF Due
  <2>3. Len(new.heard) + Len(new.owed) <= Due /\ Belong(new.heard) /\ Belong(new.owed)
    <3>1. Len(new.heard) + Len(new.owed) <= Due
      BY <2>2
    <3>2. QED
      BY <2>2, <3>1 DEF Belong
  <2>4. QED
    BY <1>0, <1>1, <2>1, <2>3, SocketChanges
<1>6. QED
  BY <1>3, <1>4, <1>5

LEMMA StopStep == ASSUME Inv, Stop PROVE Inv'
<1>1. task.via = "transport" /\ trial = None /\ Disconnect /\ UNCHANGED <<site, resolved, task>>
      /\ ~At("dial") /\ ~At("redial") /\ ~At("direct") /\ ~At("trial") /\ task \in TaskType
  BY DEF Stop, Inv, TaskInv, TypeOK
<1>2. Counted'
  BY Counting DEF Inv, Stop
<1>3. AllClosed' /\ trial' = None /\ client' = None /\ (transport' = None <=> transport = None)
      /\ (transport # None => transport'.mode = transport.mode)
  BY <1>1, Disconnecting DEF Inv
<1>4. AnswersMatch'
  BY <1>1 DEF Inv, StreamInv, AnswersMatch, At
<1>5. TaskInv'
  BY <1>1, <1>3 DEF Inv, TaskInv, At, RawTask, Via, Reading
<1>6. QED
  BY <1>1, <1>2, <1>3, <1>4, <1>5, ClosedLinks DEF Inv, TypeOK, ResolvedIsSpoken

LEMMA StartStep == ASSUME Inv, StartCycle PROVE Inv'
<1>1. At("idle") /\ task.via = "transport" /\ trial = None /\ ~RawTask /\ UNCHANGED <<site, link, resolved>>
      /\ task.result \in Results
  BY DEF StartCycle, Inv, TypeOK, TaskType, TaskInv, At, RawTask, Reading
<1>2. Counted'
  <2>1. faults \in Nat /\ stopped \in BOOLEAN /\ faults' = faults /\ stopped' = stopped /\ spent' = 0 /\ cut' = FALSE
    BY DEF StartCycle, Inv, TypeOK
  <2>2. {stopped', cut'} \subseteq BOOLEAN
    BY <2>1
  <2>3. {faults', spent'} \subseteq Nat
    BY <2>1
  <2>4. QED
    BY <2>2, <2>3 DEF Counted
<1>3. task' \in TaskType /\ task'.pc = "ensure" /\ task'.via = "transport"
  <2>1. Idle(task.result) \in TaskType /\ Idle(task.result).via = "transport" /\ "ensure" \in Pcs
    BY <1>1, IdleType DEF Idle, Pcs
  <2>2. task' = [Idle(task.result) EXCEPT !.pc = "ensure"]
    BY DEF StartCycle
  <2>3. task' \in TaskType
    BY <2>1, <2>2, TaskEdits
  <2>4. QED
    BY <2>1, <2>2, <2>3 DEF TaskType
<1>4. TypeOK' /\ ResolvedIsSpoken'
  BY <1>1, <1>2, <1>3 DEF Inv, TypeOK, Counted, ResolvedIsSpoken, link
<1>5. LinkInv' /\ TaskInv'
  BY <1>1, <1>3 DEF Inv, LinkInv, Framed, Holds, Open, Unlinked, TaskInv, At, RawTask, link
<1>6. StreamInv'
  BY <1>1, <1>3, SilentStream DEF At, RawTask, link
<1>7. QED
  BY <1>4, <1>5, <1>6 DEF Inv

LEMMA NextStep == ASSUME Inv, [Next]_vars PROVE Inv'
<1>1. CASE UNCHANGED vars
  BY <1>1 DEF vars, link, Inv, TypeOK, LinkInv, TaskInv, StreamInv, AnswersMatch, ResolvedIsSpoken, Framed,
              Holds, Open, Unlinked, At, RawTask, Via, Due, Belong
<1>2. CASE Cancel
  <2>1. Counted'
    BY <1>2, Counting DEF Inv, TypeOK, Cancel
  <2>2. QED
    BY <1>2, <2>1, Failing DEF Cancel, Results
<1>3. QED
  BY <1>1, <1>2, StartStep, ChooseStep, ReadStep, FrameStep, NetworkStep, StopStep DEF Next, Network

LEMMA InitInv == ASSUME Init PROVE Inv
<1>1. task \in TaskType /\ task.pc = "idle" /\ task.via = "transport"
  BY IdleType DEF Init, Results, Idle
<1>2. faults \in Nat /\ spent \in Nat
  BY RetryAssumption DEF Init
<1>3. TypeOK
  BY <1>1, <1>2 DEF Init, TypeOK
<1>4. LinkInv /\ StreamInv /\ ResolvedIsSpoken
  BY <1>1 DEF Init, LinkInv, StreamInv, AnswersMatch, ResolvedIsSpoken, Framed, Holds, Open, At
<1>5. TaskInv
  BY <1>1 DEF Init, TaskInv, At, RawTask
<1>6. QED
  BY <1>3, <1>4, <1>5 DEF Inv

LEMMA Inductive == Spec => []Inv
  BY InitInv, NextStep, PTL DEF Spec

-----------------------------------------------------------------------------
(* Theorems                                                                *)

\* Every variable keeps its type, for any sites, sockets, attempts and faults;
\* in particular no path of retries and reconnections exceeds the attempts.
THEOREM LinksTyped == Spec => []TypeOK
<1>1. Inv => TypeOK
  BY DEF Inv
<1>2. QED
  BY <1>1, Inductive, PTL

\* An RTU answer that is accepted is the answer to the last request, although
\* it does not name it: a stream with an unread piece is closed before the next.
THEOREM OwnAnswers == Spec => []AnswersMatch
<1>1. Inv => AnswersMatch
  BY DEF Inv, StreamInv
<1>2. QED
  BY <1>1, Inductive, PTL

\* At most one connection is open, and a transport or a client holds it,
\* whatever is tried, fails, is cancelled or is shut down.
THEOREM OneConnection == Spec => []OneLink
<1>1. ASSUME Inv PROVE OneLink
  <2>1. PICK h : \A s \in Socks : socks[s] # None => s = h
    <3>1. CASE trial # None
      BY <1>1, <3>1, NoneAssumption DEF Inv, LinkInv, Open, Holds, Unlinked
    <3>2. CASE trial = None /\ transport # None
      BY <1>1, <3>2 DEF Inv, LinkInv, Open, Holds
    <3>3. CASE trial = None /\ transport = None
      BY <1>1, <3>3 DEF Inv, LinkInv, Open, Holds
    <3>4. QED
      BY <3>1, <3>2, <3>3
  <2>2. DEFINE open == {s \in Socks : socks[s] # None}
  <2>3. Cardinality(open) <= 1
    <3>1. CASE open = {}
      BY <3>1, FS_EmptySet
    <3>2. CASE open # {}
      <4>1. open = {h}
        BY <2>1, <3>2
      <4>2. Cardinality(open) = 1
        BY <4>1, FS_Singleton
      <4>3. QED
        BY <4>2
    <3>3. QED
      BY <3>1, <3>2
  <2>4. open \subseteq SockOf(transport) \cup SockOf(trial) \cup {client}
    BY <1>1 DEF Inv, LinkInv, Open, Holds, SockOf
  <2>5. QED
    BY <2>3, <2>4 DEF OneLink
<1>2. QED
  BY <1>1, Inductive, PTL

\* The automatic choice keeps only a mode in which the unit has answered.
THEOREM RightChoice == Spec => []ResolvedIsSpoken
<1>1. Inv => ResolvedIsSpoken
  BY DEF Inv
<1>2. QED
  BY <1>1, Inductive, PTL
=============================================================================
