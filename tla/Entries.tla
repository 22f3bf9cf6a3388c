------------------------------ MODULE Entries ------------------------------
(***************************************************************************)
(* The config entries: how flows create and change them, how they are set   *)
(* up, reloaded and unloaded, under which identity they and their entities  *)
(* are registered.                                                         *)
(*                                                                         *)
(* A step runs from one await to the next.  Units are found at hosts; a     *)
(* unit's serial number is the unit itself, and a scan that cannot read it   *)
(* gives None.  One entity stands for all of an entry's; its unique ID is    *)
(* the sequence of prefixes put before the rest, <<>> for an ID of a release *)
(* that had none.  Home Assistant's flow manager, entry store and entity     *)
(* registry are modelled from how the code uses them.                      *)
(***************************************************************************)
EXTENDS Integers, Sequences, FiniteSets

CONSTANTS
  Units, Hosts, EntryIds, FlowIds,
  Fold,         \* [Hosts -> Hosts]: the host as connection matching spells it
  Home,         \* [Units -> Hosts]: where the units are first
  None,
  MaxFlows,     \* bound on flows and option changes
  MaxEvents     \* bound on faults, moves of units, restarts and removals

ASSUME BoundsAssumption == {MaxFlows, MaxEvents} \subseteq Nat
ASSUME HostsAssumption ==
  /\ Fold \in [Hosts -> Hosts] /\ \A h \in Hosts : Fold[Fold[h]] = Fold[h]
  /\ Home \in [Units -> Hosts] /\ \A u \in Units : Fold[Home[u]] = Home[u]
  /\ Units # {} /\ \A u, v \in Units : Home[u] = Home[v] => u = v

SerialId(u) == <<"serial", u>>
MacId(u) == <<"mac", u>>
LegacyId == <<"endpoint", None>>
Unknown == "Unknown"
Uids == {SerialId(u) : u \in Units} \cup {MacId(u) : u \in Units} \cup {LegacyId, None}
DeviceCaches == [serial : Units \cup {None}] \cup {None}
FlowCaches == [n : Nat, serial : Units \cup {None}] \cup {None}
EntryType == [uid : Uids, host : Hosts, scan : BOOLEAN, full : BOOLEAN,
              flowCache : FlowCaches, deviceCache : DeviceCaches]
CoordType == [stage : {"off", "scanning", "connecting", "loaded", "retry", "denied"},
              host : Hosts \cup {None}, serial : Units \cup {None}, scan : BOOLEAN, full : BOOLEAN,
              reauth : BOOLEAN, missed : BOOLEAN]
FlowType == [kind : {"user", "reconfigure", "reauth"}, step : {"form", "validating", "confirm"},
             entry : EntryIds \cup {None}, host : Hosts \cup {None}, uid : Uids,
             serial : Units \cup {None}, cache : FlowCaches]

ASSUME NoneAssumption == None \notin Units \cup Hosts \cup EntryIds \cup FlowIds \cup EntryType

VARIABLES
  at,       \* [Hosts -> Units or None]
  entries,  \* [EntryIds -> the stored config entry, or None]
  coord,    \* [EntryIds -> how far the set-up is, and what the coordinator runs with]
  due,      \* [EntryIds -> reloads waiting for the entry]
  ids,      \* [EntryIds -> unique IDs of the entity in the entity registry]
  flows,    \* [FlowIds -> a flow in progress, or None]
  scans,    \* validations so far, which number the config-flow scan caches
  used,     \* the numbers of the caches a set-up has applied (history)
  budget    \* what is left of the two bounds

vars == <<at, entries, coord, due, ids, flows, scans, used, budget>>

Off == [stage |-> "off", host |-> None, serial |-> None, scan |-> FALSE, full |-> FALSE,
        reauth |-> FALSE, missed |-> FALSE]
InSetup(e) == coord[e].stage \in {"scanning", "connecting"}
Present(e) == entries[e] # None
UnitAt(h) == at[Fold[h]]
Owner(uid) == {e \in EntryIds : Present(e) /\ entries[e].uid = uid}
InProgress(f, uid) == \E g \in FlowIds \ {f} : flows[g] # None /\ flows[g].uid = uid

Spend(what) == budget[what] > 0 /\ budget' = [budget EXCEPT ![what] = @ - 1]
Free == UNCHANGED budget

-----------------------------------------------------------------------------
(* The stored entry                                                        *)

\* Mutant: the update listener is not registered.
NotListened(e, changed) == due[e]

\* A change to a loaded entry calls its update listener, async_update_options,
\* which reloads it; during a set-up nobody listens yet.
Listened(e, changed) ==
  IF changed /\ coord[e].stage = "loaded" THEN due[e] + 1 ELSE due[e]

Update(e, entry) ==
  /\ entries' = [entries EXCEPT ![e] = entry]
  /\ due' = [due EXCEPT ![e] = Listened(e, entry # entries[e])]
  /\ coord' = [coord EXCEPT ![e].missed = @ \/ (InSetup(e) /\ entry # entries[e])]

SameEntry == UNCHANGED <<entries, coord, due, ids>>

-----------------------------------------------------------------------------
(* Flows                                                                   *)

Flow(kind, entry, host, uid) ==
  [kind |-> kind, step |-> "form", entry |-> entry, host |-> host, uid |-> uid,
   serial |-> None, cache |-> None]
FreeFlows == {f \in FlowIds : flows[f] = None}
Put(f, flow) == flows' = [flows EXCEPT ![f] = flow]
Begin(flow) == FreeFlows # {} /\ Put(CHOOSE f \in FreeFlows : TRUE, flow)
End(f) == Put(f, None)
UnchangedByFlow == UNCHANGED <<at, ids, used>>

\* async_step_user, and async_step_zeroconf with a host it found.
StartUser ==
  /\ Spend("flows")
  /\ Begin(Flow("user", None, None, None))
  /\ SameEntry /\ UNCHANGED <<at, scans, used>>

Zeroconf(h) ==
  /\ Spend("flows")
  /\ UnitAt(h) # None
  /\ \A e \in EntryIds : Present(e) => entries[e].host # h
  /\ Begin(Flow("user", None, h, None))
  /\ SameEntry /\ UNCHANGED <<at, scans, used>>

\* async_step_dhcp knows the entry by its MAC address, or starts a flow.
Dhcp(u, h) ==
  /\ Spend("flows")
  /\ at[h] = u /\ ~InProgress(None, MacId(u))
  /\ IF Owner(MacId(u)) = {}
     THEN Begin(Flow("user", None, h, MacId(u))) /\ UNCHANGED <<entries, coord, due>>
     ELSE LET e == CHOOSE e \in Owner(MacId(u)) : TRUE
          IN  Update(e, [entries[e] EXCEPT !.host = h]) /\ UNCHANGED flows
  /\ UNCHANGED scans /\ UnchangedByFlow

StartReconfigure(e) ==
  /\ Present(e) /\ Spend("flows")
  /\ Begin(Flow("reconfigure", e, entries[e].host, None))
  /\ SameEntry /\ UNCHANGED <<at, scans, used>>

\* ConfigEntry.async_start_reauth: one such flow per entry.
Reauth(e) ==
  IF \E f \in FlowIds : flows[f] # None /\ flows[f].kind = "reauth" /\ flows[f].entry = e
  THEN UNCHANGED flows
  ELSE Begin(Flow("reauth", e, entries[e].host, entries[e].uid))

\* The user submits the connection form, and the device is validated.
Submit(f, h) ==
  /\ flows[f] # None /\ flows[f].step = "form"
  /\ flows' = [flows EXCEPT ![f].step = "validating", ![f].host = h]
  /\ SameEntry /\ UNCHANGED <<at, scans, used, budget>>

\* Any exception of validate_input: the form is shown again with an error.
ValidationFails(f) ==
  /\ flows[f] # None /\ flows[f].step = "validating"
  /\ IF UnitAt(flows[f].host) = None THEN Free ELSE Spend("events")
  /\ flows' = [flows EXCEPT ![f].step = "form"]
  /\ SameEntry /\ UNCHANGED <<at, scans, used>>

Serials(u) == {s \in {u, None} : s = None => budget["events"] > 0}

\* extract_discovered_state, with the scan that will be cached.
Seen(f, serial) ==
  [flows[f] EXCEPT !.serial = serial, !.cache = [n |-> scans + 1, serial |-> serial]]
Confirming(f, flow) == Put(f, [flow EXCEPT !.step = "confirm"])

\* async_set_unique_id and _abort_if_unique_id_configured.
Claimable(f, uid) == ~InProgress(f, uid) /\ Owner(uid) = {}

\* _async_apply_validated_identity
ApplyIdentity(f, flow) ==
  IF flow.serial # None
  THEN IF Claimable(f, SerialId(flow.serial))
       THEN Confirming(f, [flow EXCEPT !.uid = SerialId(flow.serial)]) ELSE End(f)
  ELSE IF \E e \in EntryIds : Present(e) /\ entries[e].host = Fold[flow.host]
       THEN End(f) ELSE Confirming(f, flow)

\* async_step_reconfigure after the validation: the endpoint changes, and the
\* identity if the unit there has another serial; caches and options stay.
ApplyReconfigure(f, flow) ==
  LET e == flow.entry
      uid == IF flow.serial = None THEN entries[e].uid ELSE SerialId(flow.serial)
  IN  /\ IF Present(e) /\ (uid = entries[e].uid \/ Claimable(f, uid))
         THEN Update(e, [entries[e] EXCEPT !.host = flow.host, !.uid = uid])
         ELSE UNCHANGED <<entries, coord, due>>
      /\ End(f)

Validated(f, serial) ==
  /\ flows[f] # None /\ flows[f].step = "validating"
  /\ UnitAt(flows[f].host) # None /\ serial \in Serials(UnitAt(flows[f].host))
  /\ IF serial = None THEN Spend("events") ELSE Free
  /\ scans' = scans + 1
  /\ CASE flows[f].kind = "user" ->
            ApplyIdentity(f, Seen(f, serial)) /\ UNCHANGED <<entries, coord, due>>
       [] flows[f].kind = "reconfigure" -> ApplyReconfigure(f, Seen(f, serial))
       [] flows[f].kind = "reauth" ->
            Confirming(f, Seen(f, serial)) /\ UNCHANGED <<entries, coord, due>>
  /\ UnchangedByFlow

Blank(uid) ==
  [uid |-> uid, host |-> None, scan |-> FALSE, full |-> FALSE, flowCache |-> None, deviceCache |-> None]
\* prepare_entry_payload: the connection, the submitted options and the
\* one-time cache; other options of an existing entry stay.
WithPayload(entry, flow, scan) ==
  [entry EXCEPT !.host = flow.host, !.scan = scan, !.flowCache = flow.cache]

\* async_step_confirm.  The store unloads and removes an entry that has got
\* the same unique ID in the meantime.
Create(f, scan) ==
  LET flow == flows[f]
      free == {e \in EntryIds : ~Present(e)}
      e == CHOOSE e \in free : TRUE
      replaced == IF flow.uid = None THEN {} ELSE Owner(flow.uid)
      new == WithPayload(Blank(flow.uid), flow, scan)
  IN  /\ flow # None /\ flow.kind = "user" /\ flow.step = "confirm"
      /\ free # {} /\ \A x \in replaced : ~InSetup(x)
      /\ entries' = [x \in EntryIds |-> IF x = e THEN new
                                         ELSE IF x \in replaced THEN None ELSE entries[x]]
      /\ coord' = [x \in EntryIds |-> IF x \in replaced THEN Off ELSE coord[x]]
      /\ due' = [x \in EntryIds |-> IF x \in replaced THEN 0 ELSE due[x]]
      /\ ids' = [x \in EntryIds |-> IF x \in replaced THEN {} ELSE ids[x]]
      /\ End(f)
      /\ UNCHANGED <<at, scans, used, budget>>

\* apply_reauth_update reloads the entry, besides its update listener.
ConfirmReauth(f, scan) ==
  LET flow == flows[f]
      e == flow.entry
      entry == WithPayload(entries[e], flow, scan)
  IN  /\ flow # None /\ flow.kind = "reauth" /\ flow.step = "confirm"
      /\ IF Present(e)
         THEN /\ entries' = [entries EXCEPT ![e] = entry]
              /\ due' = [due EXCEPT ![e] = Listened(e, entry # entries[e]) + 1]
              /\ UNCHANGED coord
         ELSE UNCHANGED <<entries, coord, due>>
      /\ End(f)
      /\ UNCHANGED scans /\ UnchangedByFlow /\ Free

Dismiss(f) ==
  /\ flows[f] # None /\ flows[f].step # "validating"
  /\ End(f)
  /\ SameEntry /\ UNCHANGED <<at, scans, used, budget>>

\* OptionsFlow.async_step_init merges what is submitted into the options.
SubmitOptions(e, scan, full) ==
  /\ Present(e) /\ Spend("flows")
  /\ Update(e, [entries[e] EXCEPT !.scan = scan, !.full = full])
  /\ UNCHANGED <<flows, scans>> /\ UnchangedByFlow

-----------------------------------------------------------------------------
(* Set-up                                                                  *)

\* async_create_coordinator takes the entry as it is now.
Created(e, stage, serial) ==
  coord' = [coord EXCEPT ![e] = [Off EXCEPT !.stage = stage, !.serial = serial,
                                            !.host = entries[e].host, !.scan = entries[e].scan,
                                            !.full = entries[e].full]]

\* Mutant: the cache stays in the options.
Kept(e) == UNCHANGED entries

Consumed(e) == entries' = [entries EXCEPT ![e].flowCache = None]

\* apply_scan_cache: what a stored scan says of the unit.
CachedSerial(e) == IF entries[e].deviceCache = None THEN None ELSE entries[e].deviceCache.serial

\* prepare_registers_for_setup: the full list, the stored scan, the cache of
\* the config flow, or else a scan of the device.
SetupStart(e) ==
  LET entry == entries[e] IN
  /\ Present(e) /\ coord[e].stage \in {"off", "retry"}
  /\ IF entry.full
     THEN Created(e, "connecting", None) /\ UNCHANGED <<entries, used>>
     ELSE IF ~entry.scan
     THEN Created(e, "connecting", CachedSerial(e)) /\ UNCHANGED <<entries, used>>
     ELSE IF entry.flowCache # None
     THEN /\ Created(e, "connecting", entry.flowCache.serial)
          /\ Consumed(e)
          /\ used' = used \cup {entry.flowCache.n}
     ELSE Created(e, "scanning", None) /\ UNCHANGED <<entries, used>>
  /\ UNCHANGED <<at, due, ids, flows, scans, budget>>

\* The scan and the connection test need a unit at the host the coordinator
\* was created with.
Connects(e) == UnitAt(coord[e].host) # None

StoreScanCache(e, serial) == entries' = [entries EXCEPT ![e].deviceCache = [serial |-> serial]]

\* apply_scan_result and store_scan_cache.
SetupScanned(e, serial) ==
  /\ coord[e].stage = "scanning"
  /\ Connects(e) /\ serial \in Serials(UnitAt(coord[e].host))
  /\ IF serial = None THEN Spend("events") ELSE Free
  /\ coord' = [coord EXCEPT ![e].stage = "connecting", ![e].serial = serial]
  /\ StoreScanCache(e, serial)
  /\ UNCHANGED <<at, due, ids, flows, scans, used>>

\* Mutant: a failed set-up is not tried again.
FailsForGood(e) ==
  /\ InSetup(e)
  /\ IF Connects(e) THEN Spend("events") ELSE Free
  /\ coord' = [coord EXCEPT ![e] = [Off EXCEPT !.stage = "failed"]]
  /\ UNCHANGED <<at, entries, due, ids, flows, scans, used>>

\* ConfigEntryNotReady: Home Assistant tries again later.
SetupFails(e) ==
  /\ InSetup(e)
  /\ IF Connects(e) THEN Spend("events") ELSE Free
  /\ coord' = [coord EXCEPT ![e] = [Off EXCEPT !.stage = "retry"]]
  /\ UNCHANGED <<at, entries, due, ids, flows, scans, used>>

\* An authentication error: async_setup_entry returns False.
SetupDenied(e) ==
  /\ InSetup(e) /\ Connects(e) /\ Spend("events")
  /\ coord' = [coord EXCEPT ![e] = [Off EXCEPT !.stage = "denied"]]
  /\ Reauth(e)
  /\ UNCHANGED <<at, entries, due, ids, scans, used>>

\* Mutant: the owner of the serial is not looked up.
MigratedOverOwner(e) == IF coord[e].serial # None THEN SerialId(coord[e].serial) ELSE entries[e].uid

\* migrate_config_entry_unique_id
MigratedUid(e) ==
  LET serial == coord[e].serial
  IN  IF serial # None /\ Owner(SerialId(serial)) \subseteq {e} THEN SerialId(serial)
      ELSE entries[e].uid

\* device_unique_id_prefix: a serial that was not read is the text "Unknown".
Prefix(e) == IF coord[e].serial = None THEN Unknown ELSE coord[e].serial

\* migrate_unique_id, unless the registry has such an ID.
Prefixed(id, p) == IF id # <<>> /\ Head(id) = p THEN id ELSE <<p>> \o id
Taken == UNION {ids[x] : x \in EntryIds}
MigratedIds(e) ==
  {IF Prefixed(id, Prefix(e)) \in Taken THEN id ELSE Prefixed(id, Prefix(e)) : id \in ids[e]}

\* The platforms add the entity: the registry hands an ID of another entry
\* over, unless that entry's entity is loaded.
Registered(e) ==
  LET id == <<Prefix(e)>>
      holders == {x \in EntryIds \ {e} : id \in ids[x]}
  IN  ids' = IF \E x \in holders : coord[x].stage = "loaded"
             THEN [ids EXCEPT ![e] = MigratedIds(e)]
             ELSE [x \in EntryIds |-> IF x = e THEN MigratedIds(e) \cup {id} ELSE ids[x] \ {id}]

\* The rest of async_setup_entry after the first refresh.
SetupDone(e) ==
  /\ coord[e].stage = "connecting" /\ Connects(e)
  /\ coord' = [coord EXCEPT ![e].stage = "loaded"]
  /\ entries' = [entries EXCEPT ![e].uid = MigratedUid(e)]
  /\ Registered(e)
  /\ UNCHANGED <<at, due, flows, scans, used, budget>>

\* async_reload waits for a set-up in progress; it unloads and sets up again.
Reload(e) ==
  /\ Present(e) /\ due[e] > 0 /\ ~InSetup(e)
  /\ due' = [due EXCEPT ![e] = @ - 1]
  /\ coord' = [coord EXCEPT ![e] = Off]
  /\ UNCHANGED <<at, entries, ids, flows, scans, used, budget>>

\* _trigger_reauth: once in the life of a coordinator.
PollDenied(e) ==
  /\ coord[e].stage = "loaded" /\ ~coord[e].reauth /\ Spend("events")
  /\ coord' = [coord EXCEPT ![e].reauth = TRUE]
  /\ Reauth(e)
  /\ UNCHANGED <<at, entries, due, ids, scans, used>>

-----------------------------------------------------------------------------
(* Home Assistant and the network                                          *)

Remove(e) ==
  /\ Present(e) /\ ~InSetup(e) /\ Spend("events")
  /\ entries' = [entries EXCEPT ![e] = None]
  /\ coord' = [coord EXCEPT ![e] = Off]
  /\ due' = [due EXCEPT ![e] = 0]
  /\ ids' = [ids EXCEPT ![e] = {}]
  /\ flows' = [f \in FlowIds |-> IF flows[f] # None /\ flows[f].kind = "reauth" /\ flows[f].entry = e
                                 THEN None ELSE flows[f]]
  /\ UNCHANGED <<at, scans, used>>

\* A crash or a restart keeps what is stored.
Restart ==
  /\ Spend("events")
  /\ coord' = [e \in EntryIds |-> Off]
  /\ due' = [e \in EntryIds |-> 0]
  /\ flows' = [f \in FlowIds |-> None]
  /\ UNCHANGED <<at, entries, ids, scans, used>>

\* The network gives a unit another host, maybe one another unit had.
Move(u, h) ==
  /\ Fold[h] = h /\ at[h] # u /\ Spend("events")
  /\ at' = [x \in Hosts |-> IF x = h THEN u ELSE IF at[x] = u THEN None ELSE at[x]]
  /\ SameEntry /\ UNCHANGED <<flows, scans, used>>

-----------------------------------------------------------------------------
Placed == [h \in Hosts |-> IF \E u \in Units : Home[u] = h THEN CHOOSE u \in Units : Home[u] = h ELSE None]

\* The store may hold an entry of an earlier release, whose unique ID is its
\* endpoint and whose entity has an ID without a prefix.
Legacy(u) == [Blank(LegacyId) EXCEPT !.host = Home[u], !.scan = TRUE]

Init ==
  /\ at = Placed
  /\ \E old \in {{}, {CHOOSE e \in EntryIds : TRUE}} :
       /\ entries = [e \in EntryIds |-> IF e \in old THEN Legacy(CHOOSE u \in Units : TRUE) ELSE None]
       /\ ids = [e \in EntryIds |-> IF e \in old THEN {<<>>} ELSE {}]
  /\ coord = [e \in EntryIds |-> Off]
  /\ due = [e \in EntryIds |-> 0]
  /\ flows = [f \in FlowIds |-> None]
  /\ scans = 0 /\ used = {}
  /\ budget = [flows |-> MaxFlows, events |-> MaxEvents]

SetupStep(e) ==
  \/ SetupStart(e) \/ SetupFails(e) \/ SetupDenied(e) \/ SetupDone(e) \/ Reload(e)
  \/ \E s \in Units \cup {None} : SetupScanned(e, s)

FlowStart ==
  \/ StartUser
  \/ \E h \in Hosts : Zeroconf(h) \/ \E u \in Units : Dhcp(u, h)
  \/ \E e \in EntryIds : StartReconfigure(e)

FlowStep(f) ==
  \/ ValidationFails(f) \/ Dismiss(f)
  \/ \E h \in Hosts : Submit(f, h)
  \/ \E s \in Units \cup {None} : Validated(f, s)
  \/ \E scan \in BOOLEAN : ConfirmReauth(f, scan) \/ Create(f, scan)

Next ==
  \/ \E e \in EntryIds : SetupStep(e) \/ PollDenied(e) \/ Remove(e)
  \/ \E e \in EntryIds, scan, full \in BOOLEAN : SubmitOptions(e, scan, full)
  \/ FlowStart \/ \E f \in FlowIds : FlowStep(f)
  \/ Restart
  \/ \E u \in Units, h \in Hosts : Move(u, h)

Spec == Init /\ [][Next]_vars
\* Home Assistant runs the set-ups, their retries and the reloads it has been
\* asked for; users, units and the network owe nothing.
FairSpec == Spec /\ \A e \in EntryIds : WF_vars(SetupStep(e))

-----------------------------------------------------------------------------
(* Properties                                                              *)

\* Every variable keeps its type; a coordinator is set up for stored entries
\* only, whatever flows and set-ups do to them.
TypeOK ==
  /\ at \in [Hosts -> Units \cup {None}]
  /\ entries \in [EntryIds -> EntryType \cup {None}]
  /\ coord \in [EntryIds -> CoordType]
  /\ \A e \in EntryIds : ~Present(e) => coord[e] = Off /\ due[e] = 0 /\ ids[e] = {}
  /\ due \in [EntryIds -> Nat]
  /\ \A e \in EntryIds : ids[e] \subseteq Seq(Units \cup {Unknown})
  /\ flows \in [FlowIds -> FlowType \cup {None}]
  /\ scans \in Nat /\ used \subseteq 1 .. scans
  /\ \A b \in DOMAIN budget : budget[b] \in Nat

\* No two entries claim the same device: flows that race, a flow that waits at
\* its confirmation while a set-up migrates an older entry, and a unit that
\* answers at the host of another one all end with one owner of a unique ID.
UidUnique ==
  \A e, x \in EntryIds :
    Present(e) /\ Present(x) /\ entries[e].uid = entries[x].uid /\ entries[e].uid # None => e = x

\* The one-time cache of the config flow serves one set-up: once applied it is
\* stored nowhere, through failed set-ups, reloads that follow on each other,
\* restarts and options written back.
FlowCacheOnce ==
  /\ \A e \in EntryIds :
       Present(e) /\ entries[e].flowCache # None => entries[e].flowCache.n \notin used
  /\ \A f \in FlowIds : flows[f] # None /\ flows[f].cache # None => flows[f].cache.n \notin used

Runs(e) == <<coord[e].host, coord[e].scan, coord[e].full>>
Stored(e) == <<entries[e].host, entries[e].scan, entries[e].full>>

\* Changes made while the entry is loaded come into force ("Reload the config
\* entry when options change"): when no reload waits, the coordinator runs with
\* what is stored, except for changes made while the set-up was under way.
LoadedIsCurrent ==
  \A e \in EntryIds :
    coord[e].stage = "loaded" /\ due[e] = 0 /\ ~coord[e].missed => Runs(e) = Stored(e)

\* A set-up is tried until it succeeds: in the end every entry with a unit at
\* its host is loaded, with no reload waiting, or waits for the user.
SetupSettles ==
  \A e \in EntryIds :
    <>[](\/ ~Present(e) \/ UnitAt(entries[e].host) = None
         \/ coord[e].stage \in {"loaded", "denied"} /\ due[e] = 0)
=============================================================================
