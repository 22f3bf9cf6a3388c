-------------------------------- MODULE Links --------------------------------
(***************************************************************************)
(* The links to a unit: which transport is chosen, the direct client of the *)
(* automatic mode, the raw RTU frames over TCP, and the retries of a read   *)
(* that drop and open them.                                                *)
(*                                                                         *)
(* A poll reads words and then, if the unit has them, bits; one request     *)
(* stands for the requests of a phase.  A step runs from one await to the   *)
(* next.  An answer in RTU framing is two pieces, read one after the other: *)
(* a header, and the rest with the checksum.  pymodbus matches answers and   *)
(* requests by itself; its clients dial again when their link is lost.      *)
(* DeviceAccess has what a poll does with its data, and who waits for whom. *)
(***************************************************************************)
EXTENDS Integers, Sequences, FiniteSets

CONSTANTS
  Sites,      \* the installations: records of SiteType
  Socks,      \* sockets
  Retry,      \* attempts of a read
  MaxFaults,  \* bound on faults, lost links, cancellations and shutdowns
  None, Gone  \* no client object; a client object that was closed

Modes == {"tcp", "tcp_rtu", "rtu"}
\* The configured mode, the framing the unit speaks, whether it has bits, and
\* whether the port is the default one.
SiteType == [mode : Modes \cup {"auto"}, speaks : Modes, bits : BOOLEAN, port502 : BOOLEAN]

ASSUME SitesAssumption ==
  Sites \subseteq SiteType /\ \A x \in Sites : x.mode = "rtu" <=> x.speaks = "rtu"
ASSUME RetryAssumption == Retry \in Nat \ {0} /\ MaxFaults \in Nat
Pieces == [of : {None, 1, 2}, part : {"header", "exception", "rest", "noise"}]
SocketType == [framing : Modes, up : {"up", "ended", "down"}, heard : Seq(Pieces), owed : Seq(Pieces)]
TransportType == [mode : Modes, sock : Socks \cup {None}]

ASSUME SocksAssumption == Socks # {}
ASSUME NoneAssumption ==
  /\ None # Gone /\ {None, Gone} \cap Socks = {}
  /\ None \notin SocketType /\ None \notin TransportType

VARIABLES
  site,
  socks,      \* [Socks -> an open socket, or None]
  transport,  \* DeviceClient._transport: None, or its mode and its socket
  trial,      \* the transport being dialled or probed, before it is stored
  client,     \* DeviceClient.client: None, a socket, or Gone
  resolved,   \* _resolved_connection_mode of the automatic mode
  task,       \* the poll: where it is and what it knows
  stopped,    \* a shutdown has disconnected
  faults,     \* faults left
  spent, cut  \* faults of this cycle; whether its link was cut (history)

link == <<socks, transport, trial, client>>
vars == <<site, link, resolved, task, stopped, faults, spent, cut>>

Fault == faults > 0 /\ faults' = faults - 1 /\ spent' = spent + 1
NoFault == UNCHANGED <<faults, spent>>

-----------------------------------------------------------------------------
(* Sockets                                                                 *)

\* owed is on its way, heard is in the reader's buffer.
Socket(framing) == [framing |-> framing, up |-> "up", heard |-> <<>>, owed |-> <<>>]
Free == CHOOSE s \in Socks : socks[s] = None
Raw(framing) == framing = "tcp_rtu"
\* A raw stream that has ended still counts as connected: is_closing() is FALSE.
Live(s) == s \in Socks /\ IF Raw(socks[s].framing) THEN socks[s].up # "down" ELSE socks[s].up = "up"
Connected(tr) == tr # None /\ Live(tr.sock)

\* The sockets without S, and the alias of a closed one.
Closed(S) == [s \in Socks |-> IF s \in S THEN None ELSE socks[s]]
AliasWithout(S) == IF client \in S THEN Gone ELSE client
Unset(tr) == IF tr = None THEN None ELSE [tr EXCEPT !.sock = None]
SockOf(tr) == IF tr = None THEN {} ELSE {tr.sock} \cap Socks

\* disconnect_locked: the transport object stays, a direct client goes.
Disconnect ==
  /\ socks' = Closed(SockOf(transport) \cup SockOf(trial) \cup (IF transport = None THEN {client} ELSE {}))
  /\ transport' = Unset(transport)
  /\ trial' = None
  /\ client' = None

-----------------------------------------------------------------------------
(* The poll                                                                *)

At(pc) == task.pc = pc
Goto(pc) == task' = [task EXCEPT !.pc = pc]
Idle(result) == [pc |-> "idle", after |-> "phase", phase |-> "words", via |-> "transport",
                 attempt |-> 1, ask |-> 1, got |-> None, order |-> <<>>, result |-> result,
                 partial |-> FALSE]

StartCycle ==
  /\ At("idle")
  /\ task' = [Idle(task.result) EXCEPT !.pc = "ensure"]
  /\ spent' = 0 /\ cut' = FALSE
  /\ UNCHANGED <<site, link, resolved, stopped, faults>>

\* Mutant: a failed cycle keeps the link.
CycleFailsConnected(result) ==
  /\ task' = Idle(result)
  /\ socks' = Closed(SockOf(trial)) /\ trial' = None
  /\ UNCHANGED <<transport, client>>

\* handle_update_error
CycleFails(result) == task' = Idle(result) /\ Disconnect

\* ensure_connected_runtime raised: at the start or the end of the cycle it
\* fails; a retry only notes the error and reads again.
EnsureFails ==
  IF task.after = "read"
  THEN Goto("read") /\ trial' = None /\ UNCHANGED <<socks, transport, client>>
  ELSE CycleFails("unreachable")

Ensured == Goto(task.after)

ModeOrder == IF site.port502 THEN <<"tcp", "tcp_rtu">> ELSE <<"tcp_rtu", "tcp">>

\* ensure_connected_runtime and ensure_transport_selected up to the first await.
Ensure ==
  /\ At("ensure")
  /\ IF Connected(transport) \/ (transport = None /\ Live(client))
     THEN Ensured /\ UNCHANGED link
     ELSE IF transport = None /\ client # None
     THEN Goto("redial") /\ UNCHANGED link
     ELSE IF transport = None /\ site.mode = "auto" /\ resolved = None
     THEN Goto("direct") /\ UNCHANGED link
     ELSE LET mode == IF transport # None THEN transport.mode
                      ELSE IF site.mode = "auto" THEN resolved ELSE site.mode
          IN  /\ Goto("dial")
              /\ socks' = Closed(SockOf(transport))
              /\ transport' = Unset(transport)
              /\ trial' = [mode |-> mode, sock |-> None]
              /\ client' = None
  /\ NoFault /\ UNCHANGED <<site, resolved, stopped, cut>>

\* connect_transport_or_client.  The alias is the pymodbus client of the
\* transport; the raw transport has none.
Dial ==
  /\ At("dial")
  /\ \/ /\ socks' = [socks EXCEPT ![Free] = Socket(trial.mode)]
        /\ transport' = [trial EXCEPT !.sock = Free]
        /\ client' = IF Raw(trial.mode) THEN None ELSE Free
        /\ trial' = None
        /\ Ensured /\ NoFault
     \/ Fault /\ EnsureFails
  /\ UNCHANGED <<site, resolved, stopped, cut>>

\* reconnect_client_if_needed; if the client cannot connect, it is dropped and
\* the automatic mode chooses again.
Redial ==
  /\ At("redial")
  /\ \/ LET s == IF client \in Socks THEN client ELSE Free
        IN  /\ socks' = [socks EXCEPT ![s] = Socket("tcp")]
            /\ client' = s
            /\ Ensured /\ NoFault /\ UNCHANGED <<transport, trial>>
     \/ Fault /\ Disconnect /\ Goto("direct")
  /\ UNCHANGED <<site, resolved, stopped, cut>>

\* The next transport that select_auto_transport tries.
NextTrial(order) ==
  IF order = <<>> THEN EnsureFails
  ELSE /\ task' = [task EXCEPT !.pc = "trial", !.order = order]
       /\ trial' = [mode |-> Head(order), sock |-> None]
       /\ UNCHANGED <<socks, transport, client>>

\* connect_direct_tcp_client: a connection is enough, no request is tried.
Direct ==
  /\ At("direct")
  /\ \/ /\ socks' = [socks EXCEPT ![Free] = Socket("tcp")]
        /\ client' = Free
        /\ Ensured /\ NoFault /\ UNCHANGED <<transport, trial>>
     \/ Fault /\ NextTrial(ModeOrder)
  /\ UNCHANGED <<site, resolved, stopped, cut>>

TrialDial ==
  /\ At("trial")
  /\ \/ /\ socks' = [socks EXCEPT ![Free] = Socket(trial.mode)]
        /\ trial' = [trial EXCEPT !.sock = Free]
        /\ task' = [task EXCEPT !.pc = "read", !.via = "trial"]
        /\ NoFault /\ UNCHANGED <<transport, client>>
     \/ Fault /\ NextTrial(Tail(task.order))
  /\ UNCHANGED <<site, resolved, stopped, cut>>

-----------------------------------------------------------------------------
(* How a request ends                                                      *)

\* classify_transport_error
Transient == {"timeout", "io", "connection"}
\* Mutant: a request that timed out leaves the link as it is.
ResetsButTimeout(result) == result \in Transient \ {"timeout"}

\* BaseModbusTransport._execute resets on these, and on a cancellation.
Resets(result) == result \in Transient

\* The holder of the link that is being read.
Via == IF task.via = "trial" THEN trial ELSE transport
IsDirect == task.via = "transport" /\ transport = None

\* The word phase is given up or done; the bits are next.
NextPhase(partial) ==
  task' = [task EXCEPT !.pc = "phase", !.attempt = 1, !.partial = @ \/ partial,
                       !.phase = IF @ = "words" /\ site.bits THEN "bits" ELSE "end"]

Retried(pc) == task' = [task EXCEPT !.pc = pc, !.after = "read", !.attempt = @ + 1]

\* disconnect_and_reconnect_for_retry.  A direct client is closed and put back.
ReconnectForRetry ==
  IF transport = None
  THEN /\ socks' = Closed({client}) /\ client' = Gone
       /\ Retried("read") /\ UNCHANGED <<transport, trial>>
  ELSE Disconnect /\ Retried("ensure")

\* The link as the failed request leaves it.
AfterRequest(result) ==
  IF Resets(result) /\ transport # None
  THEN /\ socks' = Closed(SockOf(transport)) /\ transport' = Unset(transport)
       /\ client' = AliasWithout(SockOf(transport)) /\ UNCHANGED trial
  ELSE UNCHANGED link

\* read_with_retry and the handlers around it, after an answer: an address the
\* unit does not have is left out, another exception is tried again.
ReadAnswered(result) ==
  CASE result = "ok" -> NextPhase(FALSE)
    [] result = "exception" /\ task.attempt < Retry -> Retried("read")
    [] OTHER -> NextPhase(TRUE)

\* Mutant: one attempt more than configured.
ReadBrokenLate(result) ==
  IF task.attempt <= Retry THEN ReconnectForRetry
  ELSE IF result = "connection" \/ task.phase = "bits" THEN CycleFails("failed")
  ELSE NextPhase(TRUE) /\ AfterRequest(result)

\* Mutant: an error of a bit read is not tried again.
ReadBrokenSoon(result) ==
  IF task.phase # "bits" /\ task.attempt < Retry THEN ReconnectForRetry
  ELSE IF result = "connection" \/ task.phase = "bits" THEN CycleFails("failed")
  ELSE NextPhase(TRUE) /\ AfterRequest(result)

\* The same after an error of the link.
ReadBroken(result) ==
  IF task.attempt < Retry THEN ReconnectForRetry
  ELSE IF result = "connection" \/ task.phase = "bits" THEN CycleFails("failed")
  ELSE NextPhase(TRUE) /\ AfterRequest(result)

\* select_auto_transport: any answer proves the protocol.
ProbeAnswered ==
  /\ transport' = trial /\ trial' = None
  /\ client' = IF Raw(trial.mode) THEN None ELSE trial.sock
  /\ resolved' = trial.mode
  /\ task' = [task EXCEPT !.pc = task.after, !.via = "transport", !.order = <<>>]

\* Mutant: a probe that ends in an error of the link has proved the protocol.
ProbeTaken == ProbeAnswered /\ UNCHANGED socks

\* Mutant: the transport that failed is not closed.
ProbeLeft ==
  /\ UNCHANGED <<socks, transport, client, resolved>>
  /\ IF Len(task.order) > 1
     THEN /\ trial' = [mode |-> task.order[2], sock |-> None]
          /\ task' = [task EXCEPT !.pc = "trial", !.via = "transport", !.order = Tail(@)]
     ELSE trial' = None /\ task' = Idle("unreachable")

\* The next transport, or none is left.
ProbeBroken ==
  /\ socks' = Closed(SockOf(trial))
  /\ UNCHANGED <<transport, client, resolved>>
  /\ IF Len(task.order) > 1
     THEN /\ trial' = [mode |-> task.order[2], sock |-> None]
          /\ task' = [task EXCEPT !.pc = "trial", !.via = "transport", !.order = Tail(@)]
     ELSE trial' = None /\ task' = Idle("unreachable")

Answered(result, after) ==
  /\ socks' = after
  /\ IF task.via = "trial" THEN ProbeAnswered
     ELSE ReadAnswered(result) /\ UNCHANGED <<transport, trial, client, resolved>>

Broken(result) ==
  IF task.via = "trial" THEN ProbeBroken ELSE ReadBroken(result) /\ UNCHANGED resolved

-----------------------------------------------------------------------------
(* Phases and requests                                                     *)

\* The checks at the start of a phase, and of the connection at the end.
StartPhase ==
  /\ At("phase")
  /\ IF task.phase = "end"
     THEN IF transport # None /\ ~Connected(transport) THEN
               task' = [task EXCEPT !.pc = "ensure", !.after = "final"] /\ UNCHANGED link
          ELSE Goto("final") /\ UNCHANGED link
     ELSE IF (task.phase = "words" /\ Connected(transport)) \/ Live(client)
     THEN Goto("read") /\ UNCHANGED link
     ELSE CycleFails("failed")
  /\ NoFault /\ UNCHANGED <<site, resolved, stopped, cut>>

EndCycle ==
  /\ At("final")
  /\ task' = Idle(IF task.partial THEN "partial" ELSE "ok")
  /\ NoFault /\ UNCHANGED <<site, link, resolved, stopped, cut>>

Asked == [task EXCEPT !.ask = 3 - @, !.got = None]

\* The frames an RTU unit answers an ask with; an exception counts as a fault.
Answer(a, exc) == <<[of |-> a, part |-> IF exc THEN "exception" ELSE "header"], [of |-> a, part |-> "rest"]>>

\* RawRtuOverTcpTransport._send_frame on a connected socket: what is already in
\* the buffer stays there.
SendFrame ==
  /\ At("read") /\ task.phase # "bits" /\ Connected(Via) /\ Raw(Via.mode)
  /\ LET s == Via.sock
         answers == socks[s].up = "up" /\ Raw(site.speaks)
         Send(exc) == socks' = [socks EXCEPT ![s].owed = IF answers THEN @ \o Answer(3 - task.ask, exc) ELSE @]
     IN  \/ Send(FALSE) /\ NoFault
         \/ answers /\ Send(TRUE) /\ Fault
  /\ task' = [Asked EXCEPT !.pc = "header"]
  /\ UNCHANGED <<site, transport, trial, client, resolved, stopped, cut>>

\* A request of a pymodbus client that is connected: words and, by its alias, bits.
SendPymodbus ==
  /\ At("read")
  /\ IF IsDirect THEN Live(client)
     ELSE Connected(Via) /\ ~Raw(Via.mode) /\ (task.phase = "bits" => client = Via.sock)
  /\ Goto("wait") /\ NoFault
  /\ UNCHANGED <<site, link, resolved, stopped, cut>>

\* BaseModbusTransport.ensure_connected
SelfDial ==
  LET s == CHOOSE x \in Socks : Closed(SockOf(Via))[x] = None
      dialled == [mode |-> Via.mode, sock |-> s]
  IN  /\ socks' = [Closed(SockOf(Via)) EXCEPT ![s] = Socket(Via.mode)]
      /\ transport' = IF task.via = "trial" THEN transport ELSE dialled
      /\ trial' = IF task.via = "trial" THEN dialled ELSE trial
      /\ client' = AliasWithout(SockOf(Via))

\* _ClientBackedTransport._invoke_client takes the method from the client object
\* before the transport dials: the client object of a lost link serves no request.
Stale(tr) == ~Raw(tr.mode) /\ tr.sock # None

\* No link: a transport dials by itself, too late for a method taken from a
\* stale object, and for that of a bit read, taken from the alias before; a
\* direct client has no connection.
SendUnconnected ==
  /\ At("read")
  /\ \/ IsDirect /\ ~Live(client) /\ Broken("connection") /\ NoFault
     \/ /\ ~IsDirect /\ task.phase = "bits" /\ (client = None \/ client # Via.sock \/ ~Connected(Via))
        /\ Broken("connection") /\ NoFault
     \/ /\ ~IsDirect /\ task.phase # "bits" /\ ~Connected(Via)
        /\ \/ ~Stale(Via) /\ SelfDial /\ NoFault /\ UNCHANGED <<task, resolved>>
           \/ ~Stale(Via) /\ Broken("connection") /\ Fault
           \/ Stale(Via) /\ Broken("connection") /\ NoFault
  /\ UNCHANGED <<site, stopped, cut>>

\* What pymodbus reports.  A unit that speaks another framing never answers.
PymodbusEnds ==
  /\ At("wait")
  /\ LET s == IF IsDirect THEN client ELSE Via.sock
         up == s \in Socks /\ socks[s].up = "up"
         spoken == up /\ site.speaks = socks[s].framing
     IN  \/ spoken /\ Answered("ok", socks) /\ NoFault
         \/ spoken /\ Answered("illegal", socks) /\ Fault
         \/ spoken /\ Fault /\ \E r \in {"timeout", "io"} : Broken(r)
         \/ up /\ ~spoken /\ Broken("timeout") /\ NoFault
         \/ ~up /\ NoFault /\ \E r \in {"io", "connection"} : Broken(r)
  /\ UNCHANGED <<site, stopped, cut>>

-----------------------------------------------------------------------------
(* RTU frames over TCP                                                     *)

RawTask == At("header") \/ At("rest")
Buffer == IF SockOf(Via) = {} THEN <<>> ELSE socks[Via.sock].heard
Silent == SockOf(Via) # {} /\ Buffer = <<>> /\ socks[Via.sock].up = "up"
\* The sockets once the first piece is read.
Taken == [socks EXCEPT ![Via.sock].heard = Tail(@)]

\* _read_response: a valid header, normal or of an exception, has been read.
ReadHeader ==
  /\ At("header") /\ Buffer # <<>> /\ Head(Buffer).part \in {"header", "exception"}
  /\ socks' = Taken
  /\ task' = [task EXCEPT !.pc = "rest", !.got = Head(Buffer)]
  /\ NoFault /\ UNCHANGED <<site, transport, trial, client, resolved, stopped, cut>>

\* The rest completes the frame of the header, and the checksum is right.
ReadRest ==
  /\ At("rest") /\ Buffer # <<>> /\ Head(Buffer) = [of |-> task.got.of, part |-> "rest"]
  /\ Answered(IF task.got.part = "header" THEN "ok" ELSE "exception", Taken)
  /\ NoFault /\ UNCHANGED <<site, stopped, cut>>

\* A wrong slave, function, checksum or length, or the end of the stream.
BadFrame ==
  /\ RawTask
  /\ \/ /\ Buffer # <<>>
        /\ IF At("header") THEN Head(Buffer).part \notin {"header", "exception"}
           ELSE Head(Buffer) # [of |-> task.got.of, part |-> "rest"]
     \/ Buffer = <<>> /\ ~Silent
  /\ Broken("io") /\ NoFault
  /\ UNCHANGED <<site, stopped, cut>>

\* The deadline of _read_exactly, while the answer is on its way or for want of one.
FrameTimesOut ==
  /\ RawTask /\ Silent
  /\ IF socks[Via.sock].owed = <<>> THEN NoFault ELSE Fault
  /\ Broken("timeout")
  /\ UNCHANGED <<site, stopped, cut>>

-----------------------------------------------------------------------------
(* The network and the others                                              *)

\* A piece arrives, maybe damaged.
Arrive(s) ==
  /\ socks[s] # None /\ socks[s].owed # <<>> /\ socks[s].up = "up"
  /\ \/ socks' = [socks EXCEPT ![s].heard = Append(@, Head(socks[s].owed)), ![s].owed = Tail(@)] /\ NoFault
     \/ /\ socks' = [socks EXCEPT ![s].heard = Append(@, [of |-> None, part |-> "noise"]), ![s].owed = Tail(@)]
        /\ Fault
  /\ UNCHANGED <<site, transport, trial, client, resolved, task, stopped, cut>>

\* The unit closes the connection, or the link is lost.
Drop(s) ==
  /\ socks[s] # None /\ socks[s].up = "up"
  /\ \E up \in {"down"} \cup IF Raw(socks[s].framing) THEN {"ended"} ELSE {} :
       socks' = [socks EXCEPT ![s] = [@ EXCEPT !.up = up, !.owed = <<>>]]
  /\ Fault /\ cut' = TRUE
  /\ UNCHANGED <<site, transport, trial, client, resolved, task, stopped>>

\* pymodbus dials a lost link again.
AutoRedial(s) ==
  /\ socks[s] # None /\ ~Raw(socks[s].framing) /\ socks[s].up = "down"
  /\ socks' = [socks EXCEPT ![s] = Socket(socks[s].framing)]
  /\ NoFault /\ UNCHANGED <<site, transport, trial, client, resolved, task, stopped, cut>>

\* The poll is cancelled: the request's transport resets, the poll disconnects.
Cancel ==
  /\ ~At("idle")
  /\ CycleFails("cancelled") /\ Fault
  /\ UNCHANGED <<site, resolved, stopped, cut>>

\* async_shutdown disconnects when no dial holds the client lock.
Stop ==
  /\ ~stopped /\ stopped' = TRUE
  /\ ~At("dial") /\ ~At("redial") /\ ~At("direct") /\ ~At("trial") /\ task.via = "transport"
  /\ Disconnect /\ Fault /\ cut' = TRUE
  /\ UNCHANGED <<site, resolved, task>>

-----------------------------------------------------------------------------
Init ==
  /\ site \in Sites
  /\ socks = [s \in Socks |-> None]
  /\ transport = None /\ trial = None /\ client = None /\ resolved = None
  /\ task = Idle("none")
  /\ stopped = FALSE /\ faults = MaxFaults /\ spent = 0 /\ cut = FALSE

Choose == Ensure \/ Dial \/ Redial \/ Direct \/ TrialDial
Read == StartPhase \/ SendFrame \/ SendPymodbus \/ SendUnconnected \/ PymodbusEnds \/ EndCycle
Frame == ReadHeader \/ ReadRest \/ BadFrame \/ FrameTimesOut
Network == \E s \in Socks : Arrive(s) \/ Drop(s) \/ AutoRedial(s)
Next == StartCycle \/ Choose \/ Read \/ Frame \/ Network \/ Cancel \/ Stop

Spec == Init /\ [][Next]_vars
\* Home Assistant schedules polls, requests have deadlines, answers arrive.
FairSpec == /\ Spec /\ WF_vars(StartCycle \/ Choose \/ Read \/ Frame)
            /\ \A s \in Socks : WF_vars(Arrive(s))

-----------------------------------------------------------------------------
(* Properties                                                              *)

Pcs == {"idle", "ensure", "dial", "redial", "direct", "trial", "phase", "read", "wait", "header", "rest", "final"}
Results == {"none", "ok", "partial", "failed", "unreachable", "cancelled"}
TaskType == [pc : Pcs, after : {"phase", "read", "final"}, phase : {"words", "bits", "end"},
             via : {"transport", "trial"}, attempt : 1 .. Retry, ask : {1, 2},
             got : Pieces \cup {None}, order : Seq(Modes), result : Results, partial : BOOLEAN]

\* Every variable keeps its type; no retry path exceeds the attempts.
TypeOK ==
  /\ site \in Sites
  /\ socks \in [Socks -> SocketType \cup {None}]
  /\ transport \in TransportType \cup {None}
  /\ trial \in TransportType \cup {None}
  /\ client \in Socks \cup {None, Gone}
  /\ resolved \in Modes \cup {None}
  /\ task \in TaskType
  /\ {stopped, cut} \subseteq BOOLEAN
  /\ {faults, spent} \subseteq Nat

\* "an answer belongs to its request": RTU answers to reads do not name the
\* registers they are for, so a header that is accepted must be of the last
\* request; late, damaged and half-read answers never meet a later request.
AnswersMatch == At("rest") => task.got.of = task.ask

\* The unit takes one connection: whatever transports are tried, whatever
\* fails or is cancelled, the open socket is one a transport or client holds.
OneLink ==
  LET open == {s \in Socks : socks[s] # None}
  IN  /\ Cardinality(open) <= 1
      /\ open \subseteq SockOf(transport) \cup SockOf(trial) \cup {client}

\* Configured right, over a link the program can use for every phase.
Sound ==
  /\ site.mode = site.speaks \/ (site.mode = "auto" /\ site.speaks = "tcp")
  /\ ~(Raw(site.speaks) /\ site.bits)

\* "Read registers with retry/backoff on transient transport errors"
\* (read_with_retry): over a transport a cycle fails only when every attempt of
\* a read did, unless its link was cut.  A dial that fails between two attempts
\* takes the alias away, and bits are not read again without it.
RetriesMaskFaults ==
  At("idle") /\ task.result = "failed" /\ Sound /\ transport # None /\ ~cut
    => spent >= Retry \/ (site.bits /\ spent >= 2)

\* What the automatic mode has found and will keep is what the unit speaks.
ResolvedIsSpoken == resolved # None => resolved = site.speaks

\* After the last fault every cycle of a sound site is complete, from whatever
\* links, aliases and half-read frames the faults have left.
SoundSiteIsPolled == Sound => <>[](task.result = "ok")

\* The same for every transport the documentation lists and for the automatic
\* mode: "The integration supports Modbus TCP, raw RTU-over-TCP, and Modbus
\* RTU/USB" (QUICK_START.md).
SupportedUnitIsPolled ==
  site.mode \in {site.speaks, "auto"} => <>[](task.result = "ok")
=============================================================================
