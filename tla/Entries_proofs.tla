--------------------------- MODULE Entries_proofs ---------------------------
(***************************************************************************)
(* The safety invariants of Entries, for any units, hosts, entries, flows   *)
(* and bounds.  Most steps are about one entry and one flow: Moves,         *)
(* FlowMoves and Sheds say what they do to it, and each invariant is kept   *)
(* by these moves and by the few steps that are not of their kind.         *)
(***************************************************************************)
EXTENDS Entries, TLAPS

Budgets == {"flows", "events"}
\* A flow past its form has a host, and one about an entry has the entry.
FlowSound(f) ==
  flows[f] # None =>
    /\ flows[f].step # "form" => flows[f].host \in Hosts
    /\ flows[f].kind # "user" => flows[f].entry \in EntryIds
FlowsSound == \A f \in FlowIds : FlowSound(f)
\* Every one-time cache that can still be applied is at one place only.
Held(e) == IF Present(e) THEN entries[e].flowCache ELSE None
Carried(f) == IF flows[f] # None THEN flows[f].cache ELSE None
OneHolder ==
  /\ \A e \in EntryIds : Held(e) # None => Held(e).n \in (1 .. scans) \ used
  /\ \A f \in FlowIds : Carried(f) # None => Carried(f).n \in (1 .. scans) \ used
  /\ \A e, x \in EntryIds : Held(e) # None /\ Held(x) # None /\ Held(e).n = Held(x).n => e = x
  /\ \A f, g \in FlowIds : Carried(f) # None /\ Carried(g) # None /\ Carried(f).n = Carried(g).n => f = g
  /\ \A e \in EntryIds, f \in FlowIds : Held(e) # None /\ Carried(f) # None => Held(e).n # Carried(f).n
\* Only a stored entry is set up.
OffUnlessStored == \A e \in EntryIds : ~Present(e) => coord[e] = Off /\ due[e] = 0 /\ ids[e] = {}
\* The types, with a numbered cache wherever one is stored.
StoreType ==
  /\ at \in [Hosts -> Units \cup {None}]
  /\ entries \in [EntryIds -> EntryType \cup {None}]
  /\ coord \in [EntryIds -> CoordType]
  /\ due \in [EntryIds -> Nat]
  /\ ids \in [EntryIds -> SUBSET Seq(Units \cup {Unknown})]
  /\ flows \in [FlowIds -> FlowType \cup {None}]
  /\ scans \in Nat /\ used \subseteq 1 .. scans
  /\ budget \in [Budgets -> Nat]
TypeInv == StoreType /\ OffUnlessStored /\ FlowsSound /\ OneHolder

-----------------------------------------------------------------------------
(* Records                                                                 *)

LEMMA EntryEdits ==
  ASSUME NEW x \in EntryType
  PROVE  /\ x.uid \in Uids /\ x.host \in Hosts /\ x.scan \in BOOLEAN /\ x.full \in BOOLEAN
         /\ x.flowCache \in FlowCaches /\ x.deviceCache \in DeviceCaches
         /\ \A h \in Hosts : [x EXCEPT !.host = h] \in EntryType
         /\ \A u \in Uids : [x EXCEPT !.uid = u] \in EntryType
         /\ \A h \in Hosts, u \in Uids : [x EXCEPT !.host = h, !.uid = u] \in EntryType
         /\ \A a, b \in BOOLEAN : [x EXCEPT !.scan = a, !.full = b] \in EntryType
         /\ \A c \in FlowCaches : [x EXCEPT !.flowCache = c] \in EntryType
         /\ \A d \in DeviceCaches : [x EXCEPT !.deviceCache = d] \in EntryType
         /\ \A h \in Hosts, a \in BOOLEAN, c \in FlowCaches :
              [x EXCEPT !.host = h, !.scan = a, !.flowCache = c] \in EntryType
  BY DEF EntryType

Stages == {"off", "scanning", "connecting", "loaded", "retry", "denied"}
LEMMA CoordEdits ==
  ASSUME NEW x \in CoordType
  PROVE  /\ x.serial \in Units \cup {None} /\ x.missed \in BOOLEAN
         /\ \A t \in Stages : [x EXCEPT !.stage = t] \in CoordType
         /\ \A a \in BOOLEAN : [x EXCEPT !.missed = a] \in CoordType
         /\ \A a \in BOOLEAN : [x EXCEPT !.reauth = a] \in CoordType
         /\ \A t \in Stages, s \in Units \cup {None} : [x EXCEPT !.stage = t, !.serial = s] \in CoordType
         /\ \A t \in Stages, s \in Units \cup {None}, h \in Hosts, a, b \in BOOLEAN :
              [x EXCEPT !.stage = t, !.serial = s, !.host = h, !.scan = a, !.full = b] \in CoordType
  BY ZenonT(40) DEF CoordType, Stages
LEMMA OffType == Off \in CoordType
  BY DEF Off, CoordType

LEMMA NewFlow ==
  ASSUME NEW h \in Hosts \cup {None}, NEW u \in Uids,
         NEW k \in {"user", "reconfigure", "reauth"}, NEW e \in EntryIds \cup {None}
  PROVE  Flow(k, e, h, u) \in FlowType
<1>1. None \in FlowCaches
  BY DEF FlowCaches
<1>2. QED
  BY <1>1 DEF FlowType, Flow

LEMMA FlowEdits ==
  ASSUME NEW x \in FlowType
  PROVE  /\ x.uid \in Uids /\ x.host \in Hosts \cup {None} /\ x.cache \in FlowCaches
         /\ x.serial \in Units \cup {None}
         /\ \A t \in {"form", "validating", "confirm"} : [x EXCEPT !.step = t] \in FlowType
         /\ \A h \in Hosts : [x EXCEPT !.step = "validating", !.host = h] \in FlowType
         /\ \A u \in Uids : [x EXCEPT !.uid = u] \in FlowType
         /\ \A s \in Units \cup {None}, c \in FlowCaches : [x EXCEPT !.serial = s, !.cache = c] \in FlowType
  BY DEF FlowType

-----------------------------------------------------------------------------
(* Types                                                                   *)

LEMMA Spending ==
  ASSUME budget \in [Budgets -> Nat], NEW what \in Budgets, Spend(what)
  PROVE  budget' \in [Budgets -> Nat]
  BY DEF Spend

LEMMA Updating ==
  ASSUME TypeInv, NEW e \in EntryIds, NEW entry \in EntryType, Update(e, entry)
  PROVE  /\ entries' \in [EntryIds -> EntryType \cup {None}]
         /\ coord' \in [EntryIds -> CoordType]
         /\ due' \in [EntryIds -> Nat]
<1>1. coord[e] \in CoordType /\ due[e] \in Nat
  BY DEF TypeInv, StoreType
<1>2. PICK a \in BOOLEAN : coord' = [coord EXCEPT ![e] = [coord[e] EXCEPT !.missed = a]]
  <2>1. coord[e].missed \in BOOLEAN
    BY <1>1 DEF CoordType
  <2>2. coord' = [coord EXCEPT ![e] = [coord[e] EXCEPT !.missed = coord[e].missed \/ (InSetup(e) /\ entry # entries[e])]]
    BY DEF Update
  <2>3. QED
    BY <2>1, <2>2
<1>3. coord' \in [EntryIds -> CoordType]
  <2>1. [coord[e] EXCEPT !.missed = a] \in CoordType
    BY <1>1, CoordEdits
  <2>2. QED
    BY <1>2, <2>1 DEF TypeInv, StoreType
<1>4. QED
  BY <1>1, <1>3 DEF TypeInv, StoreType, Update, Listened

LEMMA Reauthing ==
  ASSUME TypeInv, NEW e \in EntryIds, Present(e), Reauth(e)
  PROVE  flows' \in [FlowIds -> FlowType \cup {None}]
<1>1. entries[e] \in EntryType
  BY DEF TypeInv, StoreType, Present
<1>2. Flow("reauth", e, entries[e].host, entries[e].uid) \in FlowType
  BY <1>1, NewFlow DEF EntryType
<1>3. QED
  BY <1>2 DEF TypeInv, StoreType, Reauth, Begin, Put

LEMMA StoreStep == ASSUME TypeInv, Next PROVE StoreType'
<1> USE DEF TypeInv, StoreType
<1>1. ASSUME NEW e \in EntryIds, SetupStart(e) PROVE StoreType'
  <2>1. entries[e] \in EntryType
    BY <1>1 DEF SetupStart, Present
  <2>2. CachedSerial(e) \in Units \cup {None} /\ (entries[e].flowCache # None => entries[e].flowCache.serial \in Units \cup {None})
    <3>1. entries[e].deviceCache \in DeviceCaches /\ entries[e].flowCache \in FlowCaches
      BY <2>1, EntryEdits
    <3>2. QED
      BY <3>1 DEF CachedSerial, FlowCaches, DeviceCaches
  <2>3. \A stage \in {"scanning", "connecting"}, s \in Units \cup {None} :
          Created(e, stage, s) => coord' \in [EntryIds -> CoordType]
    <3> SUFFICES ASSUME NEW stage \in {"scanning", "connecting"}, NEW s \in Units \cup {None}, Created(e, stage, s)
                 PROVE  coord' \in [EntryIds -> CoordType]
      OBVIOUS
    <3>1. entries[e].host \in Hosts /\ entries[e].scan \in BOOLEAN /\ entries[e].full \in BOOLEAN
      BY <2>1, EntryEdits
    <3>2. [Off EXCEPT !.stage = stage, !.serial = s, !.host = entries[e].host, !.scan = entries[e].scan,
                      !.full = entries[e].full] \in CoordType
      <4>1. \A h \in Hosts, a, b \in BOOLEAN :
              [Off EXCEPT !.stage = stage, !.serial = s, !.host = h, !.scan = a, !.full = b] \in CoordType
        <5>1. stage \in Stages
          BY DEF Stages
        <5>2. QED
          BY <5>1, OffType, CoordEdits
      <4>2. QED
        BY <3>1, <4>1
    <3>3. QED
      BY <3>2 DEF Created
  <2>4. coord' \in [EntryIds -> CoordType]
    BY <1>1, <2>2, <2>3 DEF SetupStart
  <2>5. None \in FlowCaches
    BY DEF FlowCaches
  <2>6. entries' \in [EntryIds -> EntryType \cup {None}]
    <3>1. [entries[e] EXCEPT !.flowCache = None] \in EntryType
      BY <2>1, <2>5, EntryEdits
    <3>2. QED
      BY <1>1, <3>1 DEF SetupStart, Consumed
  <2>7. used' \subseteq 1 .. scans
    <3>1. entries[e].flowCache # None => entries[e].flowCache.n \in 1 .. scans
      BY <1>1 DEF SetupStart, OneHolder, Held
    <3>2. QED
      BY <1>1, <3>1 DEF SetupStart
  <2>8. QED
    BY <1>1, <2>4, <2>6, <2>7 DEF SetupStart
<1>2. ASSUME NEW e \in EntryIds, NEW s \in Units \cup {None}, SetupScanned(e, s) PROVE StoreType'
  <2>1. entries[e] \in EntryType
    BY <1>2 DEF SetupScanned, OffUnlessStored, Off, Present
  <2>2. [serial |-> s] \in DeviceCaches
    BY DEF DeviceCaches
  <2>3. entries' \in [EntryIds -> EntryType \cup {None}]
    <3>1. [entries[e] EXCEPT !.deviceCache = [serial |-> s]] \in EntryType
      BY <2>1, <2>2, EntryEdits
    <3>2. entries' = [entries EXCEPT ![e] = [entries[e] EXCEPT !.deviceCache = [serial |-> s]]]
      BY <1>2 DEF SetupScanned, StoreScanCache
    <3>3. QED
      BY <3>1, <3>2
  <2>4. coord' = [coord EXCEPT ![e] = [coord[e] EXCEPT !.stage = "connecting", !.serial = s]]
    BY <1>2 DEF SetupScanned
  <2>5. coord' \in [EntryIds -> CoordType]
    <3>1. [coord[e] EXCEPT !.stage = "connecting", !.serial = s] \in CoordType
      BY CoordEdits DEF Stages
    <3>2. QED
      BY <2>4, <3>1
  <2>6. budget' \in [Budgets -> Nat]
    BY <1>2, Spending DEF SetupScanned, Free, Budgets
  <2>7. QED
    BY <1>2, <2>3, <2>5, <2>6 DEF SetupScanned
<1>3. ASSUME NEW e \in EntryIds, SetupFails(e) PROVE StoreType'
  <2>1. budget' \in [Budgets -> Nat]
    BY <1>3, Spending DEF SetupFails, Free, Budgets
  <2>2. [Off EXCEPT !.stage = "retry"] \in CoordType
    BY OffType, CoordEdits DEF Stages
  <2>3. QED
    BY <1>3, <2>1, <2>2 DEF SetupFails
<1>4. ASSUME NEW e \in EntryIds, SetupDenied(e) PROVE StoreType'
  <2>1. budget' \in [Budgets -> Nat]
    BY <1>4, Spending DEF SetupDenied, Budgets
  <2>2. [Off EXCEPT !.stage = "denied"] \in CoordType
    BY OffType, CoordEdits DEF Stages
  <2>3. Present(e)
    BY <1>4 DEF SetupDenied, InSetup, OffUnlessStored, Off
  <2>4. flows' \in [FlowIds -> FlowType \cup {None}]
    BY <1>4, <2>3, Reauthing DEF SetupDenied
  <2>5. QED
    BY <1>4, <2>1, <2>2, <2>4 DEF SetupDenied
<1>5. ASSUME NEW e \in EntryIds, SetupDone(e) PROVE StoreType'
  <2>1. entries[e] \in EntryType /\ coord[e] \in CoordType
    BY <1>5 DEF SetupDone, OffUnlessStored, Off, Present
  <2>2. MigratedUid(e) \in Uids
    <3>1. coord[e].serial \in Units \cup {None} /\ entries[e].uid \in Uids
      BY <2>1, EntryEdits, CoordEdits
    <3>2. QED
      BY <3>1 DEF MigratedUid, Uids
  <2>3. entries' \in [EntryIds -> EntryType \cup {None}]
    <3>1. [entries[e] EXCEPT !.uid = MigratedUid(e)] \in EntryType
      BY <2>1, <2>2, EntryEdits
    <3>2. entries' = [entries EXCEPT ![e] = [entries[e] EXCEPT !.uid = MigratedUid(e)]]
      BY <1>5 DEF SetupDone
    <3>3. QED
      BY <3>1, <3>2
  <2>4. coord' \in [EntryIds -> CoordType]
    <3>1. [coord[e] EXCEPT !.stage = "loaded"] \in CoordType
      BY <2>1, CoordEdits DEF Stages
    <3>2. coord' = [coord EXCEPT ![e] = [coord[e] EXCEPT !.stage = "loaded"]]
      BY <1>5 DEF SetupDone
    <3>3. QED
      BY <3>1, <3>2
  <2>5. Prefix(e) \in Units \cup {Unknown}
    BY <2>1, CoordEdits DEF Prefix
  <2>6. \A id \in Seq(Units \cup {Unknown}) : Prefixed(id, Prefix(e)) \in Seq(Units \cup {Unknown})
    <3> SUFFICES ASSUME NEW id \in Seq(Units \cup {Unknown})
                 PROVE  Prefixed(id, Prefix(e)) \in Seq(Units \cup {Unknown})
      OBVIOUS
    <3>1. <<Prefix(e)>> \in Seq(Units \cup {Unknown})
      BY <2>5
    <3>2. <<Prefix(e)>> \o id \in Seq(Units \cup {Unknown})
      BY <3>1
    <3>3. QED
      BY <3>2 DEF Prefixed
  <2>7. MigratedIds(e) \subseteq Seq(Units \cup {Unknown})
    BY <2>6 DEF MigratedIds
  <2>8. <<Prefix(e)>> \in Seq(Units \cup {Unknown})
    BY <2>5
  <2>9. ids' \in [EntryIds -> SUBSET Seq(Units \cup {Unknown})]
    BY <1>5, <2>7, <2>8 DEF SetupDone, Registered
  <2>10. QED
    BY <1>5, <2>3, <2>4, <2>9 DEF SetupDone
<1>6. ASSUME NEW e \in EntryIds, Reload(e) PROVE StoreType'
  BY <1>6, OffType DEF Reload
<1>7. ASSUME NEW e \in EntryIds, PollDenied(e) PROVE StoreType'
  <2>1. budget' \in [Budgets -> Nat]
    BY <1>7, Spending DEF PollDenied, Budgets
  <2>2. coord' = [coord EXCEPT ![e] = [coord[e] EXCEPT !.reauth = TRUE]]
    BY <1>7 DEF PollDenied
  <2>3. Present(e)
    BY <1>7 DEF PollDenied, OffUnlessStored, Off
  <2>4. flows' \in [FlowIds -> FlowType \cup {None}]
    BY <1>7, <2>3, Reauthing DEF PollDenied
  <2>5. QED
    <3>1. [coord[e] EXCEPT !.reauth = TRUE] \in CoordType
      BY CoordEdits
    <3>2. QED
      BY <1>7, <2>1, <2>2, <2>4, <3>1 DEF PollDenied
<1>8. ASSUME NEW e \in EntryIds, Remove(e) PROVE StoreType'
  <2>1. budget' \in [Budgets -> Nat]
    BY <1>8, Spending DEF Remove, Budgets
  <2>2. QED
    BY <1>8, <2>1, OffType DEF Remove
<1>9. ASSUME NEW e \in EntryIds, NEW scan \in BOOLEAN, NEW full \in BOOLEAN, SubmitOptions(e, scan, full) PROVE StoreType'
  <2>1. entries[e] \in EntryType
    BY <1>9 DEF SubmitOptions, Present
  <2>2. [entries[e] EXCEPT !.scan = scan, !.full = full] \in EntryType
    BY <2>1, EntryEdits
  <2>3. QED
    BY <1>9, <2>2, Spending, Updating DEF SubmitOptions, UnchangedByFlow, Budgets
<1>10. CASE StartUser
  <2>1. Flow("user", None, None, None) \in FlowType
    BY NewFlow DEF Uids
  <2>2. QED
    BY <1>10, <2>1, Spending DEF StartUser, Begin, Put, SameEntry, Budgets
<1>11. ASSUME NEW h \in Hosts, Zeroconf(h) PROVE StoreType'
  <2>1. Flow("user", None, h, None) \in FlowType
    BY NewFlow DEF Uids
  <2>2. QED
    BY <1>11, <2>1, Spending DEF Zeroconf, Begin, Put, SameEntry, Budgets
<1>12. ASSUME NEW u \in Units, NEW h \in Hosts, Dhcp(u, h) PROVE StoreType'
  <2>1. Flow("user", None, h, MacId(u)) \in FlowType
    BY NewFlow DEF Uids
  <2>2. ASSUME NEW e \in Owner(MacId(u)), Update(e, [entries[e] EXCEPT !.host = h])
        PROVE  /\ entries' \in [EntryIds -> EntryType \cup {None}]
               /\ coord' \in [EntryIds -> CoordType]
               /\ due' \in [EntryIds -> Nat]
    <3>1. e \in EntryIds /\ entries[e] \in EntryType
      BY DEF Owner, Present
    <3>2. [entries[e] EXCEPT !.host = h] \in EntryType
      BY <3>1, EntryEdits
    <3>3. QED
      BY <2>2, <3>1, <3>2, Updating
  <2>3. CASE Owner(MacId(u)) = {}
    BY <1>12, <2>1, <2>3, Spending DEF Dhcp, Begin, Put, UnchangedByFlow, Budgets
  <2>4. CASE Owner(MacId(u)) # {}
    <3> DEFINE e == CHOOSE x \in Owner(MacId(u)) : TRUE
    <3>1. e \in Owner(MacId(u))
      BY <2>4
    <3>2. Update(e, [entries[e] EXCEPT !.host = h]) /\ UNCHANGED flows
      BY <1>12, <2>4 DEF Dhcp
    <3> HIDE DEF e
    <3>3. QED
      BY <1>12, <2>2, <3>1, <3>2, Spending DEF Dhcp, UnchangedByFlow, Budgets
  <2>5. QED
    BY <2>3, <2>4
<1>13. ASSUME NEW e \in EntryIds, StartReconfigure(e) PROVE StoreType'
  <2>1. entries[e] \in EntryType
    BY <1>13 DEF StartReconfigure, Present
  <2>2. Flow("reconfigure", e, entries[e].host, None) \in FlowType
    <3>1. entries[e].host \in Hosts /\ None \in Uids
      BY <2>1, EntryEdits DEF Uids
    <3>2. QED
      BY <3>1, NewFlow
  <2>3. QED
    BY <1>13, <2>2, Spending DEF StartReconfigure, Begin, Put, SameEntry, Budgets
<1>14. ASSUME NEW f \in FlowIds, ValidationFails(f) PROVE StoreType'
  <2>1. flows[f] \in FlowType
    BY <1>14 DEF ValidationFails
  <2>2. [flows[f] EXCEPT !.step = "form"] \in FlowType
    BY <2>1, FlowEdits DEF FlowType
  <2>3. flows' = [flows EXCEPT ![f] = [flows[f] EXCEPT !.step = "form"]]
    BY <1>14 DEF ValidationFails
  <2>4. budget' \in [Budgets -> Nat]
    BY <1>14, Spending DEF ValidationFails, Free, Budgets
  <2>5. QED
    BY <1>14, <2>2, <2>3, <2>4 DEF ValidationFails, SameEntry
<1>15. ASSUME NEW f \in FlowIds, Dismiss(f) PROVE StoreType'
  BY <1>15 DEF Dismiss, End, Put, SameEntry
<1>16. ASSUME NEW f \in FlowIds, NEW h \in Hosts, Submit(f, h) PROVE StoreType'
  <2>1. flows[f] \in FlowType
    BY <1>16 DEF Submit
  <2>2. [flows[f] EXCEPT !.step = "validating", !.host = h] \in FlowType
    BY <2>1 DEF FlowType
  <2>3. flows' = [flows EXCEPT ![f] = [flows[f] EXCEPT !.step = "validating", !.host = h]]
    BY <1>16 DEF Submit
  <2>4. QED
    BY <1>16, <2>2, <2>3 DEF Submit, SameEntry
<1>17. ASSUME NEW f \in FlowIds, NEW s \in Units \cup {None}, Validated(f, s) PROVE StoreType'
  <2>1. flows[f] \in FlowType /\ flows[f].host \in Hosts
    BY <1>17 DEF Validated, FlowsSound, FlowSound
  <2>2. Seen(f, s) \in FlowType
    <3>1. [n |-> scans + 1, serial |-> s] \in FlowCaches
      BY DEF FlowCaches
    <3>2. QED
      BY <2>1, <3>1, FlowEdits, ZenonT(40) DEF Seen
  <2>3. /\ Seen(f, s).host = flows[f].host /\ Seen(f, s).serial = s /\ Seen(f, s).entry = flows[f].entry
        /\ Seen(f, s).cache.n = scans + 1
    BY <2>1 DEF Seen, FlowType
  <2>4. budget' \in [Budgets -> Nat]
    BY <1>17, Spending DEF Validated, Free, Budgets
  <2>5. scans' \in Nat /\ used' \subseteq 1 .. scans'
    BY <1>17 DEF Validated, UnchangedByFlow
  <2>6. \A x \in FlowType : [x EXCEPT !.step = "confirm"] \in FlowType
    BY FlowEdits
  <2>7. CASE flows[f].kind = "user"
    <3>1. ApplyIdentity(f, Seen(f, s)) /\ UNCHANGED <<entries, coord, due>>
      BY <1>17, <2>7 DEF Validated
    <3>2. s # None => [Seen(f, s) EXCEPT !.uid = SerialId(s)] \in FlowType
      BY <2>2, FlowEdits DEF Uids
    <3>3. flows' \in [FlowIds -> FlowType \cup {None}]
      BY <2>2, <2>3, <2>6, <3>1, <3>2 DEF ApplyIdentity, Confirming, Put, End
    <3>4. QED
      BY <1>17, <2>4, <2>5, <3>1, <3>3 DEF Validated, UnchangedByFlow
  <2>8. CASE flows[f].kind = "reauth"
    <3>1. Confirming(f, Seen(f, s)) /\ UNCHANGED <<entries, coord, due>>
      BY <1>17, <2>8 DEF Validated
    <3>2. flows' \in [FlowIds -> FlowType \cup {None}]
      BY <2>2, <2>6, <3>1 DEF Confirming, Put
    <3>3. QED
      BY <1>17, <2>4, <2>5, <3>1, <3>2 DEF Validated, UnchangedByFlow
  <2>9. CASE flows[f].kind = "reconfigure"
    <3> DEFINE e == flows[f].entry
               uid == IF s = None THEN entries[e].uid ELSE SerialId(s)
    <3>1. ApplyReconfigure(f, Seen(f, s)) /\ e \in EntryIds
      BY <1>17, <2>9, <2>1 DEF Validated, FlowsSound, FlowSound
    <3>2. flows' \in [FlowIds -> FlowType \cup {None}]
      BY <3>1 DEF ApplyReconfigure, End, Put
    <3>3. CASE UNCHANGED <<entries, coord, due>>
      BY <1>17, <2>4, <2>5, <3>2, <3>3 DEF Validated, UnchangedByFlow
    <3>4. CASE Present(e) /\ Update(e, [entries[e] EXCEPT !.host = flows[f].host, !.uid = uid])
      <4>1. entries[e] \in EntryType
        BY <3>1, <3>4 DEF Present
      <4>2. uid \in Uids
        BY <4>1, EntryEdits DEF Uids
      <4>3. [entries[e] EXCEPT !.host = flows[f].host, !.uid = uid] \in EntryType
        BY <2>1, <4>1, <4>2, EntryEdits
      <4>4. QED
        BY <1>17, <2>4, <2>5, <3>1, <3>2, <3>4, <4>3, Updating DEF Validated, UnchangedByFlow
    <3>5. QED
      BY <2>3, <3>1, <3>3, <3>4 DEF ApplyReconfigure
  <2>10. QED
    BY <2>1, <2>7, <2>8, <2>9 DEF FlowType
<1>18. ASSUME NEW f \in FlowIds, NEW scan \in BOOLEAN, ConfirmReauth(f, scan) PROVE StoreType'
  <2> DEFINE e == flows[f].entry
  <2>1. flows[f] \in FlowType /\ flows[f].host \in Hosts /\ e \in EntryIds
    BY <1>18 DEF ConfirmReauth, FlowsSound, FlowSound
  <2>2. Present(e) => WithPayload(entries[e], flows[f], scan) \in EntryType
    <3>1. flows[f].cache \in FlowCaches
      BY <2>1, FlowEdits
    <3>2. Present(e) => entries[e] \in EntryType
      BY <2>1 DEF Present
    <3>3. QED
      BY <2>1, <3>1, <3>2, EntryEdits DEF WithPayload
  <2>3. flows' \in [FlowIds -> FlowType \cup {None}]
    BY <1>18 DEF ConfirmReauth, End, Put
  <2>4. \A x : Listened(e, x) + 1 \in Nat
    BY <2>1 DEF Listened
  <2>5. entries' \in [EntryIds -> EntryType \cup {None}] /\ due' \in [EntryIds -> Nat] /\ UNCHANGED coord
    BY <1>18, <2>1, <2>2, <2>4, SMTT(40) DEF ConfirmReauth
  <2>6. QED
    BY <1>18, <2>3, <2>5 DEF ConfirmReauth, UnchangedByFlow, Free
<1>19. ASSUME NEW f \in FlowIds, NEW scan \in BOOLEAN, Create(f, scan) PROVE StoreType'
  <2>1. flows[f] \in FlowType /\ flows[f].host \in Hosts
    BY <1>19 DEF Create, FlowsSound, FlowSound
  <2>2. WithPayload(Blank(flows[f].uid), flows[f], scan) \in EntryType
    <3>1. flows[f].cache \in FlowCaches /\ flows[f].uid \in Uids /\ None \in DeviceCaches
      BY <2>1, FlowEdits DEF DeviceCaches
    <3>2. QED
      BY <2>1, <3>1 DEF WithPayload, Blank, EntryType
  <2>3. flows' \in [FlowIds -> FlowType \cup {None}]
    BY <1>19 DEF Create, End, Put
  <2>4. entries' \in [EntryIds -> EntryType \cup {None}]
    BY <1>19, <2>2 DEF Create
  <2>5. coord' \in [EntryIds -> CoordType] /\ due' \in [EntryIds -> Nat] /\ ids' \in [EntryIds -> SUBSET Seq(Units \cup {Unknown})]
    BY <1>19, OffType DEF Create
  <2>6. QED
    BY <1>19, <2>3, <2>4, <2>5 DEF Create
<1>20. CASE Restart
  <2>1. budget' \in [Budgets -> Nat]
    BY <1>20, Spending DEF Restart, Budgets
  <2>2. QED
    BY <1>20, <2>1, OffType DEF Restart
<1>21. ASSUME NEW u \in Units, NEW h \in Hosts, Move(u, h) PROVE StoreType'
  BY <1>21, Spending DEF Move, Budgets, SameEntry
<1> HIDE DEF TypeInv, StoreType
<1> QED
  BY <1>1, <1>2, <1>3, <1>4, <1>5, <1>6, <1>7, <1>8, <1>9, <1>10, <1>11, <1>12, <1>13, <1>14, <1>15, <1>16, <1>17, <1>18, <1>19, <1>20, <1>21
  DEF Next, SetupStep, FlowStart, FlowStep

-----------------------------------------------------------------------------
(* What steps do to an entry, to a flow and to the caches                  *)

\* What a step does to the one entry it is about; the others at most lose an ID.
OnlyOn(e) ==
  \A x \in EntryIds \ {e} :
    /\ entries'[x] = entries[x] /\ coord'[x] = coord[x] /\ due'[x] = due[x] /\ ids'[x] \subseteq ids[x]
Current(e) ==
  (InSetup(e) \/ coord[e].stage = "loaded") /\ due[e] = 0 /\ ~coord[e].missed => Runs(e) = Stored(e)
EntryMove(e) ==
  /\ OnlyOn(e)
  /\ Present(e) /\ Present(e)'
  /\ entries'[e].uid = entries[e].uid \/ Owner(entries'[e].uid) \subseteq {e}
  /\ Current(e) => Current(e)'

LEMMA EntryIsSome == ASSUME NEW x \in EntryType PROVE x # None
  BY NoneAssumption

LEMMA UpdateMoves ==
  ASSUME TypeInv, NEW e \in EntryIds, Present(e), NEW entry \in EntryType, Update(e, entry), ids' = ids,
         entry.uid = entries[e].uid \/ Owner(entry.uid) \subseteq {e}
  PROVE  EntryMove(e)
<1> USE DEF TypeInv, StoreType
<1>1. entries'[e] = entry /\ entry # None
  BY EntryIsSome DEF Update
<1>2. coord[e] \in CoordType
  OBVIOUS
<1>3. /\ coord'[e] = [coord[e] EXCEPT !.missed = coord[e].missed \/ (InSetup(e) /\ entry # entries[e])]
      /\ due'[e] = Listened(e, entry # entries[e])
  BY DEF Update
<1>4. /\ coord'[e].stage = coord[e].stage /\ Runs(e)' = Runs(e)
      /\ coord'[e].missed = (coord[e].missed \/ (InSetup(e) /\ entry # entries[e]))
  BY <1>2, <1>3 DEF CoordType, Runs
<1>5. Current(e) => Current(e)'
  <2>1. CASE entry = entries[e]
    BY <2>1, <1>1, <1>3, <1>4 DEF Current, InSetup, Stored, Listened
  <2>2. CASE entry # entries[e] /\ InSetup(e)
    BY <2>2, <1>4 DEF Current, InSetup
  <2>3. CASE entry # entries[e] /\ coord[e].stage = "loaded"
    BY <2>3, <1>3 DEF Current, Listened
  <2>4. QED
    BY <2>1, <2>2, <2>3, <1>4 DEF Current, InSetup
<1>6. OnlyOn(e)
  BY DEF OnlyOn, Update
<1>7. QED
  BY <1>1, <1>5, <1>6 DEF EntryMove, Present

LEMMA SetupMoves ==
  ASSUME TypeInv, NEW e \in EntryIds, SetupStep(e) \/ PollDenied(e)
  PROVE  EntryMove(e)
<1> USE DEF TypeInv, StoreType
<1>1. Present(e) => entries[e] \in EntryType
  BY DEF Present
<1>2. coord[e].stage # "off" => Present(e)
  BY DEF OffUnlessStored, Off
<1>3. coord[e] \in CoordType
  OBVIOUS
<1>4. CASE SetupStart(e)
  <2>1. Present(e) /\ entries[e] \in EntryType
    BY <1>1, <1>4 DEF SetupStart
  <2>2. /\ entries'[e].host = entries[e].host /\ entries'[e].scan = entries[e].scan
        /\ entries'[e].full = entries[e].full /\ entries'[e].uid = entries[e].uid
        /\ entries'[e] # None
    <3>1. CASE UNCHANGED entries
      BY <2>1, <3>1 DEF Present
    <3>2. CASE Consumed(e)
      <4>1. entries'[e] = [entries[e] EXCEPT !.flowCache = None] /\ None \in FlowCaches
        BY <3>2 DEF Consumed, FlowCaches
      <4>2. entries'[e] \in EntryType
        <5>1. [entries[e] EXCEPT !.flowCache = None] \in EntryType
          BY <2>1, <4>1, EntryEdits
        <5>2. QED
          BY <4>1, <5>1
      <4>3. QED
        BY <2>1, <4>1, <4>2, EntryIsSome DEF EntryType
    <3>3. QED
      BY <1>4, <3>1, <3>2 DEF SetupStart
  <2>3. Runs(e)' = Stored(e)
    <3>1. ASSUME NEW stage \in {"scanning", "connecting"}, NEW s, Created(e, stage, s) PROVE Runs(e)' = Stored(e)
      BY <3>1 DEF Created, Off, Runs, Stored
    <3>2. QED
      BY <1>4, <3>1 DEF SetupStart
  <2>4. Runs(e)' = Stored(e)'
    BY <2>2, <2>3 DEF Stored
  <2>5. OnlyOn(e)
    BY <1>4 DEF SetupStart, Created, Consumed, OnlyOn
  <2>6. QED
    BY <2>1, <2>2, <2>4, <2>5 DEF EntryMove, Current, Present
<1>5. ASSUME NEW s \in Units \cup {None}, SetupScanned(e, s) PROVE EntryMove(e)
  <2>1. Present(e) /\ entries[e] \in EntryType
    BY <1>1, <1>2, <1>5 DEF SetupScanned
  <2>2. entries'[e] = [entries[e] EXCEPT !.deviceCache = [serial |-> s]] /\ [serial |-> s] \in DeviceCaches
    BY <1>5 DEF SetupScanned, StoreScanCache, DeviceCaches
  <2>3. entries'[e] # None
    BY <2>1, <2>2, EntryEdits, EntryIsSome
  <2>4. entries'[e].uid = entries[e].uid /\ Stored(e)' = Stored(e)
    BY <2>1, <2>2 DEF EntryType, Stored
  <2>5. coord'[e] = [coord[e] EXCEPT !.stage = "connecting", !.serial = s]
    BY <1>5 DEF SetupScanned
  <2>6. Runs(e)' = Runs(e) /\ coord'[e].missed = coord[e].missed
    BY <1>3, <2>5 DEF Runs, CoordType
  <2>7. Current(e) => Current(e)'
    BY <1>5, <2>4, <2>6 DEF Current, InSetup, SetupScanned
  <2>8. OnlyOn(e)
    BY <1>5 DEF SetupScanned, StoreScanCache, OnlyOn
  <2>9. QED
    BY <2>1, <2>3, <2>4, <2>7, <2>8 DEF EntryMove, Present
<1>6. ASSUME NEW stage \in {"retry", "denied"}, InSetup(e), coord' = [coord EXCEPT ![e] = [Off EXCEPT !.stage = stage]],
             UNCHANGED <<entries, due, ids>>
      PROVE  EntryMove(e)
  <2>1. coord'[e].stage = stage
    BY <1>6 DEF Off
  <2>2. Current(e)'
    BY <1>6, <2>1 DEF Current, InSetup
  <2>3. Present(e) /\ Present(e)' /\ entries'[e].uid = entries[e].uid
    BY <1>2, <1>6 DEF InSetup, Present
  <2>4. QED
    BY <1>6, <2>2, <2>3 DEF EntryMove, OnlyOn
<1>7. CASE SetupDone(e)
  <2>1. Present(e) /\ entries[e] \in EntryType
    BY <1>1, <1>2, <1>7 DEF SetupDone
  <2>2. entries'[e] = [entries[e] EXCEPT !.uid = MigratedUid(e)] /\ coord'[e] = [coord[e] EXCEPT !.stage = "loaded"]
    BY <1>7 DEF SetupDone
  <2>3. /\ entries'[e].uid = MigratedUid(e) /\ Stored(e)' = Stored(e)
        /\ Runs(e)' = Runs(e) /\ coord'[e].missed = coord[e].missed
    BY <1>3, <2>1, <2>2 DEF EntryType, CoordType, Stored, Runs
  <2>4. MigratedUid(e) \in Uids
    <3>1. coord[e].serial \in Units \cup {None} /\ entries[e].uid \in Uids
      BY <1>3, <2>1, EntryEdits, CoordEdits
    <3>2. QED
      BY <3>1 DEF MigratedUid, Uids
  <2>5. entries'[e] # None
    BY <2>1, <2>2, <2>4, EntryEdits, EntryIsSome
  <2>6. entries'[e].uid = entries[e].uid \/ Owner(entries'[e].uid) \subseteq {e}
    BY <2>3 DEF MigratedUid
  <2>7. Current(e) => Current(e)'
    BY <1>7, <2>3 DEF Current, InSetup, SetupDone
  <2>8. OnlyOn(e)
    BY <1>7 DEF SetupDone, OnlyOn, Registered
  <2>9. QED
    BY <2>1, <2>5, <2>6, <2>7, <2>8 DEF EntryMove, Present
<1>8. CASE Reload(e)
  BY <1>8 DEF Reload, EntryMove, OnlyOn, Present, Current, InSetup, Off
<1>9. CASE PollDenied(e)
  <2>1. coord'[e] = [coord[e] EXCEPT !.reauth = TRUE]
    BY <1>9 DEF PollDenied
  <2>2. Runs(e)' = Runs(e) /\ coord'[e].missed = coord[e].missed /\ coord'[e].stage = coord[e].stage
    BY <1>3, <2>1 DEF CoordType, Runs
  <2>3. Current(e) => Current(e)'
    BY <1>9, <2>2 DEF Current, InSetup, PollDenied, Stored
  <2>4. QED
    BY <1>2, <1>9, <2>3 DEF PollDenied, EntryMove, OnlyOn, Present
<1>10. QED
  BY <1>4, <1>5, <1>6, <1>7, <1>8, <1>9 DEF SetupStep, SetupFails, SetupDenied

LEMMA Moves ==
  ASSUME TypeInv, Next
  PROVE  \/ \E e \in EntryIds : EntryMove(e)
         \/ UNCHANGED <<entries, coord, due, ids>>
         \/ \E e \in EntryIds : Remove(e)
         \/ Restart
         \/ \E f \in FlowIds, scan \in BOOLEAN : Create(f, scan)
<1> DEFINE Goal == \/ \E e \in EntryIds : EntryMove(e)
                   \/ UNCHANGED <<entries, coord, due, ids>>
<1>1. \A e \in EntryIds : Present(e) => entries[e] \in EntryType
  BY DEF TypeInv, StoreType, Present
<1>2. ASSUME NEW e \in EntryIds, NEW scan \in BOOLEAN, NEW full \in BOOLEAN, SubmitOptions(e, scan, full) PROVE Goal
  <2>1. entries[e] \in EntryType /\ Present(e)
    BY <1>1, <1>2 DEF SubmitOptions
  <2>2. [entries[e] EXCEPT !.scan = scan, !.full = full] \in EntryType
    BY <2>1, EntryEdits
  <2>3. [entries[e] EXCEPT !.scan = scan, !.full = full].uid = entries[e].uid
    BY <2>1 DEF EntryType
  <2>4. QED
    BY <1>2, <2>1, <2>2, <2>3, UpdateMoves DEF SubmitOptions, UnchangedByFlow
<1>3. ASSUME NEW u \in Units, NEW h \in Hosts, Dhcp(u, h) PROVE Goal
  <2>1. CASE Owner(MacId(u)) = {}
    BY <1>3, <2>1 DEF Dhcp, UnchangedByFlow
  <2>2. CASE Owner(MacId(u)) # {}
    <3>1. PICK e \in Owner(MacId(u)) : Update(e, [entries[e] EXCEPT !.host = h])
      BY <1>3, <2>2 DEF Dhcp
    <3>2. e \in EntryIds /\ Present(e) /\ entries[e] \in EntryType
      BY <1>1 DEF Owner
    <3>3. [entries[e] EXCEPT !.host = h] \in EntryType
      BY <3>2, EntryEdits
    <3>4. [entries[e] EXCEPT !.host = h].uid = entries[e].uid
      BY <3>2 DEF EntryType
    <3>5. QED
      BY <1>3, <3>1, <3>2, <3>3, <3>4, UpdateMoves DEF Dhcp, UnchangedByFlow
  <2>3. QED
    BY <2>1, <2>2
<1>4. ASSUME NEW f \in FlowIds, NEW s \in Units \cup {None}, Validated(f, s) PROVE Goal
  <2>1. flows[f] \in FlowType /\ flows[f].host \in Hosts /\ ids' = ids
    BY <1>4 DEF Validated, TypeInv, StoreType, FlowsSound, FlowSound, UnchangedByFlow
  <2>2. /\ Seen(f, s).host = flows[f].host /\ Seen(f, s).serial = s /\ Seen(f, s).entry = flows[f].entry
    BY <2>1 DEF Seen, FlowType
  <2>3. CASE flows[f].kind # "reconfigure"
    BY <1>4, <2>1, <2>3 DEF Validated, FlowType
  <2>4. CASE flows[f].kind = "reconfigure"
    <3>1. ApplyReconfigure(f, Seen(f, s)) /\ flows[f].entry \in EntryIds
      BY <1>4, <2>4 DEF Validated, TypeInv, FlowsSound, FlowSound
    <3>0. PICK e \in EntryIds : e = flows[f].entry
      BY <3>1
    <3> DEFINE uid == IF s = None THEN entries[e].uid ELSE SerialId(s)
               entry == [entries[e] EXCEPT !.host = flows[f].host, !.uid = uid]
    <3>2. CASE UNCHANGED <<entries, coord, due>>
      BY <2>1, <3>2
    <3>3. CASE Present(e) /\ (uid = entries[e].uid \/ Claimable(f, uid)) /\ Update(e, entry)
      <4>1. entries[e] \in EntryType
        BY <1>1, <3>3
      <4>2. uid \in Uids
        BY <4>1, EntryEdits DEF Uids
      <4>3. entry \in EntryType
        BY <2>1, <4>1, <4>2, EntryEdits
      <4>4. entry.uid = uid
        BY <4>1 DEF EntryType
      <4>5. uid = entries[e].uid \/ Owner(uid) \subseteq {e}
        BY <3>3 DEF Claimable
      <4> HIDE DEF uid, entry
      <4>6. QED
        BY <2>1, <3>3, <4>3, <4>4, <4>5, UpdateMoves
    <3>4. QED
      BY <2>2, <3>0, <3>1, <3>2, <3>3 DEF ApplyReconfigure
  <2>5. QED
    BY <2>3, <2>4
<1>5. ASSUME NEW f \in FlowIds, NEW scan \in BOOLEAN, ConfirmReauth(f, scan) PROVE Goal
  <2>0. flows[f] \in FlowType /\ flows[f].host \in Hosts /\ flows[f].entry \in EntryIds /\ ids' = ids
    BY <1>5 DEF ConfirmReauth, TypeInv, StoreType, FlowsSound, FlowSound, UnchangedByFlow
  <2>1. PICK e \in EntryIds : e = flows[f].entry
    BY <2>0
  <2> DEFINE entry == WithPayload(entries[e], flows[f], scan)
  <2>2. CASE ~Present(e)
    BY <1>5, <2>0, <2>1, <2>2 DEF ConfirmReauth
  <2>3. CASE Present(e)
    <3>1. entries[e] \in EntryType /\ flows[f].cache \in FlowCaches
      BY <1>1, <2>0, <2>3, FlowEdits
    <3>2. entry \in EntryType /\ entry.uid = entries[e].uid
      <4>1. entry \in EntryType
        BY <2>0, <3>1, EntryEdits DEF WithPayload
      <4>2. QED
        BY <3>1, <4>1 DEF WithPayload, EntryType
    <3>3. /\ entries' = [entries EXCEPT ![e] = entry]
          /\ due' = [due EXCEPT ![e] = Listened(e, entry # entries[e]) + 1]
          /\ UNCHANGED coord
      BY <1>5, <2>1, <2>3 DEF ConfirmReauth
    <3>4. due[e] \in Nat
      BY <2>1 DEF TypeInv, StoreType
    <3> HIDE DEF entry
    <3>5. due'[e] # 0 /\ entries'[e] = entry
      BY <2>1, <3>3, <3>4 DEF Listened, TypeInv, StoreType
    <3>6. Current(e)'
      BY <3>5 DEF Current
    <3>7. OnlyOn(e)
      BY <2>0, <3>3 DEF OnlyOn
    <3>8. EntryMove(e)
      BY <2>3, <3>2, <3>5, <3>6, <3>7, EntryIsSome DEF EntryMove, Present
    <3>9. QED
      BY <2>1, <3>8
  <2>4. QED
    BY <2>2, <2>3
<1>6. QED
  BY <1>2, <1>3, <1>4, <1>5, SetupMoves
  DEF Next, FlowStart, FlowStep, SameEntry, StartUser, Zeroconf, StartReconfigure, ValidationFails, Dismiss, Submit, Move

LEMMA OffStep == ASSUME TypeInv, Next PROVE OffUnlessStored'
<1> USE DEF OffUnlessStored, Present
<1>0. OffUnlessStored
  BY DEF TypeInv
<1>1. ASSUME NEW e \in EntryIds, EntryMove(e) PROVE OffUnlessStored'
  BY <1>0, <1>1 DEF EntryMove, OnlyOn
<1>2. CASE UNCHANGED <<entries, coord, due, ids>>
  BY <1>0, <1>2
<1>3. ASSUME NEW e \in EntryIds, Remove(e) PROVE OffUnlessStored'
  BY <1>0, <1>3 DEF Remove, TypeInv, StoreType
<1>4. CASE Restart
  BY <1>0, <1>4 DEF Restart
<1>5. ASSUME NEW f \in FlowIds, NEW scan \in BOOLEAN, Create(f, scan) PROVE OffUnlessStored'
  BY <1>0, <1>5 DEF Create, Owner
<1>6. QED
  BY <1>1, <1>2, <1>3, <1>4, <1>5, Moves

\* What a step does to the flow it is about, and when no cache is handed on.
FlowMove(f) ==
  /\ \A g \in FlowIds \ {f} : flows'[g] = flows[g]
  /\ FlowSound(f)' /\ Carried(f)' \in {None, Carried(f)}
Ending == \A f \in FlowIds : flows'[f] \in {None, flows[f]}

LEMMA Begins ==
  ASSUME TypeInv, NEW k \in {"user", "reconfigure", "reauth"}, NEW e \in EntryIds \cup {None}, NEW h, NEW u,
         Begin(Flow(k, e, h, u)), k # "user" => e \in EntryIds
  PROVE  \E f \in FlowIds : FlowMove(f)
<1>1. PICK f \in FlowIds : flows[f] = None /\ flows' = [flows EXCEPT ![f] = Flow(k, e, h, u)]
  <2>1. (CHOOSE f \in FreeFlows : TRUE) \in FreeFlows
    BY DEF Begin
  <2>2. QED
    BY <2>1 DEF Begin, FreeFlows, Put
<1>2. flows'[f] = Flow(k, e, h, u) /\ \A g \in FlowIds \ {f} : flows'[g] = flows[g]
  BY <1>1 DEF TypeInv, StoreType
<1>3. FlowSound(f)' /\ Carried(f)' = None
  BY <1>2 DEF FlowSound, Carried, Flow
<1>4. QED
  BY <1>2, <1>3 DEF FlowMove

LEMMA Reauths ==
  ASSUME TypeInv, NEW e \in EntryIds, Reauth(e)
  PROVE  Ending \/ \E f \in FlowIds : FlowMove(f)
  BY Begins DEF Reauth, Ending

LEMMA FlowMoves ==
  ASSUME TypeInv, Next
  PROVE  \/ Ending
         \/ \E f \in FlowIds : FlowMove(f)
         \/ \E f \in FlowIds, s \in Units \cup {None} : Validated(f, s)
<1> USE DEF TypeInv, StoreType
<1> DEFINE Goal == Ending \/ \E f \in FlowIds : FlowMove(f)
<1>1. ASSUME UNCHANGED flows PROVE Goal
  BY <1>1 DEF Ending
<1>2. ASSUME NEW f \in FlowIds, End(f) PROVE Goal
  BY <1>2 DEF Ending, End, Put
<1>3. ASSUME Restart \/ \E e \in EntryIds : Remove(e) PROVE Goal
  BY <1>3 DEF Ending, Remove, Restart
<1>4. CASE StartUser
  BY <1>4, Begins DEF StartUser
<1>5. ASSUME NEW h \in Hosts, Zeroconf(h) PROVE Goal
  BY <1>5, Begins DEF Zeroconf
<1>6. ASSUME NEW u \in Units, NEW h \in Hosts, Dhcp(u, h) PROVE Goal
  BY <1>1, <1>6, Begins DEF Dhcp
<1>7. ASSUME NEW e \in EntryIds, StartReconfigure(e) PROVE Goal
  BY <1>7, Begins DEF StartReconfigure
<1>8. ASSUME NEW f \in FlowIds, NEW h \in Hosts, Submit(f, h) PROVE Goal
  <2>1. flows[f] \in FlowType
    BY <1>8 DEF Submit
  <2>2. flows'[f] = [flows[f] EXCEPT !.step = "validating", !.host = h]
    BY <1>8 DEF Submit
  <2>3. flows'[f].host = h /\ flows'[f].kind = flows[f].kind /\ flows'[f].entry = flows[f].entry /\ flows'[f].cache = flows[f].cache
    BY <2>1, <2>2 DEF FlowType
  <2>4. FlowMove(f)
    BY <1>8, <2>1, <2>3 DEF FlowMove, FlowsSound, FlowSound, Carried, Submit
  <2>5. QED
    BY <2>4
<1>9. ASSUME NEW f \in FlowIds, ValidationFails(f) PROVE Goal
  <2>1. flows[f] \in FlowType
    BY <1>9 DEF ValidationFails
  <2>2. flows'[f] = [flows[f] EXCEPT !.step = "form"]
    BY <1>9 DEF ValidationFails
  <2>3. flows'[f].step = "form" /\ flows'[f].kind = flows[f].kind /\ flows'[f].entry = flows[f].entry /\ flows'[f].cache = flows[f].cache
    BY <2>1, <2>2 DEF FlowType
  <2>4. FlowMove(f)
    BY <1>9, <2>1, <2>3 DEF FlowMove, FlowsSound, FlowSound, Carried, ValidationFails
  <2>5. QED
    BY <2>4
<1>10. ASSUME NEW e \in EntryIds, SetupStep(e) \/ PollDenied(e) PROVE Goal
  BY <1>1, <1>10, Reauths DEF SetupStep, PollDenied, SetupStart, SetupFails, SetupDenied, SetupDone, Reload, SetupScanned
<1>11. ASSUME NEW f \in FlowIds, Dismiss(f) \/ \E scan \in BOOLEAN : ConfirmReauth(f, scan) \/ Create(f, scan) PROVE Goal
  BY <1>2, <1>11 DEF Dismiss, ConfirmReauth, Create
<1>12. ASSUME NEW e \in EntryIds, NEW scan \in BOOLEAN, NEW full \in BOOLEAN, SubmitOptions(e, scan, full) PROVE Goal
  BY <1>1, <1>12 DEF SubmitOptions
<1>13. ASSUME NEW u \in Units, NEW h \in Hosts, Move(u, h) PROVE Goal
  BY <1>1, <1>13 DEF Move
<1> HIDE DEF TypeInv, StoreType
<1>14. Goal \/ \E f \in FlowIds, s \in Units \cup {None} : Validated(f, s)
  BY <1>3, <1>4, <1>5, <1>6, <1>7, <1>8, <1>9, <1>10, <1>11, <1>12, <1>13 DEF Next, FlowStart, FlowStep
<1>15. QED
  BY <1>14 DEF Goal

LEMMA ValidatedFlow ==
  ASSUME TypeInv, NEW f \in FlowIds, NEW s \in Units \cup {None}, Validated(f, s)
  PROVE  /\ \A g \in FlowIds \ {f} : flows'[g] = flows[g]
         /\ FlowSound(f)' /\ (Carried(f)' # None => Carried(f)'.n = scans + 1)
<1> USE DEF TypeInv, StoreType
<1>1. flows[f] \in FlowType /\ flows[f].host \in Hosts
  BY DEF Validated, FlowsSound, FlowSound
<1>2. flows[f].kind # "user" => flows[f].entry \in EntryIds
  BY DEF Validated, FlowsSound, FlowSound
<1>3. /\ Seen(f, s).host = flows[f].host /\ Seen(f, s).kind = flows[f].kind /\ Seen(f, s).entry = flows[f].entry
      /\ Seen(f, s).cache.n = scans + 1
  BY <1>1 DEF Seen, FlowType
<1>4. Seen(f, s) \in FlowType
  <2>1. [n |-> scans + 1, serial |-> s] \in FlowCaches
    BY DEF FlowCaches
  <2>2. QED
    BY <1>1, <2>1, FlowEdits, ZenonT(40) DEF Seen
<1>5. PICK flow : /\ flows' = [flows EXCEPT ![f] = flow]
                  /\ flow = None \/ flow = [Seen(f, s) EXCEPT !.step = "confirm"]
                       \/ \E u : flow = [[Seen(f, s) EXCEPT !.uid = u] EXCEPT !.step = "confirm"]
  <2>1. CASE End(f)
    BY <2>1 DEF End, Put
  <2>2. CASE Confirming(f, Seen(f, s))
    BY <2>2 DEF Confirming, Put
  <2>3. CASE \E u : Confirming(f, [Seen(f, s) EXCEPT !.uid = u])
    BY <2>3 DEF Confirming, Put
  <2>4. QED
    BY <1>1, <2>1, <2>2, <2>3 DEF Validated, ApplyIdentity, ApplyReconfigure, FlowType
<1>6. flows'[f] = flow /\ \A g \in FlowIds \ {f} : flows'[g] = flows[g]
  BY <1>5
<1>7. flow # None => flow.host = flows[f].host /\ flow.kind = flows[f].kind /\ flow.entry = flows[f].entry
                     /\ flow.cache.n = scans + 1
  BY <1>3, <1>4, <1>5 DEF FlowType
<1>8. QED
  BY <1>1, <1>2, <1>6, <1>7 DEF FlowSound, Carried

LEMMA FlowsStep == ASSUME TypeInv, Next PROVE FlowsSound'
<1>1. FlowsSound
  BY DEF TypeInv
<1>2. CASE Ending
  BY <1>1, <1>2 DEF Ending, FlowsSound, FlowSound
<1>3. ASSUME NEW f \in FlowIds, FlowMove(f) PROVE FlowsSound'
  BY <1>1, <1>3 DEF FlowMove, FlowsSound, FlowSound
<1>4. ASSUME NEW f \in FlowIds, NEW s \in Units \cup {None}, Validated(f, s) PROVE FlowsSound'
  BY <1>1, <1>4, ValidatedFlow DEF FlowsSound, FlowSound
<1>5. QED
  BY <1>2, <1>3, <1>4, FlowMoves

\* No cache is handed on: each holder keeps what it has, or has nothing.
Shed ==
  /\ \A e \in EntryIds : Held(e)' \in {None, Held(e)}
  /\ \A f \in FlowIds : Carried(f)' \in {None, Carried(f)}
  /\ UNCHANGED <<scans, used>>

LEMMA FlowsShed ==
  ASSUME TypeInv, Ending \/ \E f \in FlowIds : FlowMove(f)
  PROVE  \A f \in FlowIds : Carried(f)' \in {None, Carried(f)}
  BY DEF Ending, FlowMove, Carried

LEMMA EntriesShed ==
  ASSUME TypeInv, NEW e \in EntryIds, Present(e), \A x \in EntryIds \ {e} : entries'[x] = entries[x],
         entries'[e].flowCache \in {None, entries[e].flowCache}
  PROVE  \A x \in EntryIds : Held(x)' \in {None, Held(x)}
  BY DEF Held, Present

LEMMA Sheds ==
  ASSUME TypeInv, Next
  PROVE  \/ Shed
         \/ \E e \in EntryIds : SetupStart(e)
         \/ \E f \in FlowIds, s \in Units \cup {None} : Validated(f, s)
         \/ \E f \in FlowIds, scan \in BOOLEAN : ConfirmReauth(f, scan) \/ Create(f, scan)
<1> USE DEF TypeInv, StoreType
<1> DEFINE Quiet == \A x \in EntryIds : Held(x)' \in {None, Held(x)}
           Others == \/ \E e \in EntryIds : SetupStart(e)
                     \/ \E f \in FlowIds, s \in Units \cup {None} : Validated(f, s)
                     \/ \E f \in FlowIds, scan \in BOOLEAN : ConfirmReauth(f, scan) \/ Create(f, scan)
<1>1. ASSUME UNCHANGED entries PROVE Quiet
  BY <1>1 DEF Held, Present
<1>2. \A e \in EntryIds : Present(e) => entries[e] \in EntryType
  BY DEF Present
<1>3. ASSUME NEW e \in EntryIds, SetupStep(e) \/ PollDenied(e), ~SetupStart(e) PROVE Quiet /\ UNCHANGED <<scans, used>>
  <2>1. CASE SetupFails(e) \/ SetupDenied(e) \/ Reload(e) \/ PollDenied(e)
    BY <1>1, <2>1 DEF SetupFails, SetupDenied, Reload, PollDenied
  <2>2. CASE SetupDone(e)
    <3>1. Present(e)
      BY <2>2 DEF SetupDone, OffUnlessStored, Off
    <3>2. entries'[e].flowCache = entries[e].flowCache
      <4>1. entries'[e] = [entries[e] EXCEPT !.uid = MigratedUid(e)]
        BY <2>2 DEF SetupDone
      <4>2. QED
        BY <1>2, <3>1, <4>1 DEF EntryType
    <3>3. QED
      BY <2>2, <3>1, <3>2, EntriesShed DEF SetupDone
  <2>3. ASSUME NEW s \in Units \cup {None}, SetupScanned(e, s) PROVE Quiet /\ UNCHANGED <<scans, used>>
    <3>1. Present(e)
      BY <2>3 DEF SetupScanned, OffUnlessStored, Off
    <3>2. entries'[e].flowCache = entries[e].flowCache
      <4>1. entries'[e] = [entries[e] EXCEPT !.deviceCache = [serial |-> s]]
        BY <2>3 DEF SetupScanned, StoreScanCache
      <4>2. QED
        BY <1>2, <3>1, <4>1 DEF EntryType
    <3>3. QED
      BY <2>3, <3>1, <3>2, EntriesShed DEF SetupScanned, StoreScanCache
  <2>4. QED
    BY <1>3, <2>1, <2>2, <2>3 DEF SetupStep
<1>4. ASSUME NEW e \in EntryIds, NEW entry, Present(e), Update(e, entry), entry.flowCache = entries[e].flowCache PROVE Quiet
  BY <1>4, EntriesShed DEF Update
<1>5. ASSUME NEW e \in EntryIds, NEW scan \in BOOLEAN, NEW full \in BOOLEAN, SubmitOptions(e, scan, full)
      PROVE  Quiet /\ UNCHANGED <<scans, used>>
  <2>1. entries[e] \in EntryType /\ Present(e)
    BY <1>2, <1>5 DEF SubmitOptions
  <2>2. [entries[e] EXCEPT !.scan = scan, !.full = full].flowCache = entries[e].flowCache
    BY <2>1 DEF EntryType
  <2>3. QED
    BY <1>4, <1>5, <2>1, <2>2 DEF SubmitOptions, UnchangedByFlow
<1>6. ASSUME NEW u \in Units, NEW h \in Hosts, Dhcp(u, h) PROVE Quiet /\ UNCHANGED <<scans, used>>
  <2>1. CASE Owner(MacId(u)) = {}
    BY <1>1, <1>6, <2>1 DEF Dhcp, UnchangedByFlow
  <2>2. CASE Owner(MacId(u)) # {}
    <3>1. PICK e \in Owner(MacId(u)) : Update(e, [entries[e] EXCEPT !.host = h])
      BY <1>6, <2>2 DEF Dhcp
    <3>2. e \in EntryIds /\ Present(e) /\ entries[e] \in EntryType
      BY <1>2 DEF Owner
    <3>3. [entries[e] EXCEPT !.host = h].flowCache = entries[e].flowCache
      BY <3>2 DEF EntryType
    <3>4. QED
      BY <1>4, <1>6, <3>1, <3>2, <3>3 DEF Dhcp, UnchangedByFlow
  <2>3. QED
    BY <2>1, <2>2
<1>7. ASSUME Restart \/ \E e \in EntryIds : Remove(e) PROVE Quiet /\ UNCHANGED <<scans, used>>
  BY <1>7 DEF Remove, Restart, Held, Present
<1>8. ASSUME StartUser \/ (\E h \in Hosts : Zeroconf(h)) \/ \E e \in EntryIds : StartReconfigure(e)
      PROVE  Quiet /\ UNCHANGED <<scans, used>>
  BY <1>1, <1>8 DEF StartUser, Zeroconf, StartReconfigure, SameEntry
<1>9. ASSUME NEW f \in FlowIds, ValidationFails(f) \/ Dismiss(f) \/ \E h \in Hosts : Submit(f, h)
      PROVE  Quiet /\ UNCHANGED <<scans, used>>
  BY <1>1, <1>9 DEF ValidationFails, Dismiss, Submit, SameEntry
<1>10. ASSUME NEW u \in Units, NEW h \in Hosts, Move(u, h) PROVE Quiet /\ UNCHANGED <<scans, used>>
  BY <1>1, <1>10 DEF Move, SameEntry
<1> HIDE DEF TypeInv, StoreType
<1>11. ASSUME ~Others PROVE Quiet /\ UNCHANGED <<scans, used>>
  BY <1>11, <1>3, <1>5, <1>6, <1>7, <1>8, <1>9, <1>10 DEF Next, FlowStart, FlowStep
<1>12. QED
  BY <1>11, FlowMoves, FlowsShed DEF Shed, Quiet

LEMMA HolderStep == ASSUME TypeInv, Next PROVE OneHolder'
<1>1. OneHolder /\ scans \in Nat
  BY DEF TypeInv, StoreType
<1>2. CASE Shed
  BY <1>1, <1>2 DEF Shed, OneHolder
<1>3. ASSUME NEW e \in EntryIds, SetupStart(e) PROVE OneHolder'
  <2>1. Present(e) /\ entries[e] \in EntryType /\ UNCHANGED <<flows, scans>>
    BY <1>3 DEF SetupStart, TypeInv, StoreType, Present
  <2>2. \A f \in FlowIds : Carried(f)' = Carried(f)
    BY <2>1 DEF Carried
  <2>3. CASE UNCHANGED <<entries, used>>
    BY <1>1, <2>1, <2>2, <2>3 DEF OneHolder, Held, Present
  <2>4. CASE Consumed(e) /\ entries[e].flowCache # None /\ used' = used \cup {entries[e].flowCache.n}
    <3>1. entries'[e] = [entries[e] EXCEPT !.flowCache = None] /\ \A x \in EntryIds \ {e} : entries'[x] = entries[x]
      BY <2>4 DEF Consumed, TypeInv, StoreType
    <3>2. Held(e)' = None
      BY <2>1, <3>1 DEF Held, Present, EntryType
    <3>3. \A x \in EntryIds \ {e} : Held(x)' = Held(x)
      BY <3>1 DEF Held, Present
    <3>4. Held(e) # None /\ used' = used \cup {Held(e).n}
      BY <2>1, <2>4 DEF Held
    <3>5. QED
      BY <1>1, <2>1, <2>2, <3>2, <3>3, <3>4 DEF OneHolder
  <2>5. QED
    BY <1>3, <2>3, <2>4 DEF SetupStart
<1>4. ASSUME NEW f \in FlowIds, NEW s \in Units \cup {None}, Validated(f, s) PROVE OneHolder'
  <2>1. scans' = scans + 1 /\ used' = used
    BY <1>4 DEF Validated, UnchangedByFlow
  <2>2. \A g \in FlowIds \ {f} : Carried(g)' = Carried(g)
    BY <1>4, ValidatedFlow DEF Carried
  <2>3. Carried(f)' # None => Carried(f)'.n = scans + 1
    BY <1>4, ValidatedFlow
  <2>4. \A e \in EntryIds : Held(e)' \in {None, Held(e)}
    <3>1. flows[f] \in FlowType
      BY <1>4 DEF Validated, TypeInv, StoreType
    <3>2. CASE UNCHANGED entries
      BY <3>2 DEF Held, Present
    <3>3. CASE flows[f].kind = "reconfigure"
      <4>1. ApplyReconfigure(f, Seen(f, s)) /\ flows[f].entry \in EntryIds /\ Seen(f, s).entry = flows[f].entry
        BY <1>4, <3>1, <3>3 DEF Validated, TypeInv, FlowsSound, FlowSound, Seen, FlowType
      <4>2. PICK e \in EntryIds : e = flows[f].entry
        BY <4>1
      <4>3. ASSUME NEW h, NEW uid, Present(e), Update(e, [entries[e] EXCEPT !.host = h, !.uid = uid])
            PROVE  \A x \in EntryIds : Held(x)' \in {None, Held(x)}
        <5>1. entries[e] \in EntryType
          BY <4>3 DEF Present, TypeInv, StoreType
        <5>2. entries'[e].flowCache = entries[e].flowCache /\ \A x \in EntryIds \ {e} : entries'[x] = entries[x]
          BY <4>3, <5>1 DEF Update, EntryType, TypeInv, StoreType
        <5>3. QED
          BY <4>3, <5>2, EntriesShed
      <4>4. QED
        BY <3>2, <4>1, <4>2, <4>3 DEF ApplyReconfigure
    <3>4. QED
      BY <1>4, <3>1, <3>2, <3>3 DEF Validated, FlowType
  <2>5. \A k \in (1 .. scans) \ used : k \in (1 .. scans + 1) \ used /\ k # scans + 1
    BY <1>1
  <2>6. scans + 1 \in (1 .. scans + 1) \ used
    BY <1>1 DEF TypeInv, StoreType
  <2>7. QED
    BY <1>1, <2>1, <2>2, <2>3, <2>4, <2>5, <2>6 DEF OneHolder
<1>5. ASSUME NEW f \in FlowIds, NEW e \in EntryIds, \A g \in FlowIds \ {f} : Carried(g)' \in {None, Carried(g)}, Carried(f)' = None,
             \A x \in EntryIds \ {e} : Held(x)' \in {None, Held(x)}, Held(e)' \in {None, Held(e), Carried(f)},
             UNCHANGED <<scans, used>>
      PROVE  OneHolder'
  BY <1>1, <1>5 DEF OneHolder
<1>6. ASSUME NEW f \in FlowIds, End(f) PROVE Carried(f)' = None /\ \A g \in FlowIds \ {f} : Carried(g)' = Carried(g)
  BY <1>6 DEF End, Put, Carried, TypeInv, StoreType
<1>7. ASSUME NEW f \in FlowIds, NEW scan \in BOOLEAN, ConfirmReauth(f, scan) PROVE OneHolder'
  <2>1. flows[f] # None /\ flows[f].entry \in EntryIds
    BY <1>7 DEF ConfirmReauth, TypeInv, FlowsSound, FlowSound
  <2>2. PICK e \in EntryIds : e = flows[f].entry
    BY <2>1
  <2>3. CASE UNCHANGED entries
    BY <1>5, <1>6, <1>7, <2>3 DEF ConfirmReauth, UnchangedByFlow, Held, Present
  <2>4. CASE Present(e) /\ entries' = [entries EXCEPT ![e] = WithPayload(entries[e], flows[f], scan)]
    <3>1. entries'[e] = WithPayload(entries[e], flows[f], scan) /\ entries[e] \in EntryType
      BY <2>4 DEF TypeInv, StoreType, Present
    <3>2. Held(e)' \in {None, Carried(f)}
      BY <2>1, <3>1 DEF Held, Carried, WithPayload, EntryType
    <3>3. \A x \in EntryIds \ {e} : Held(x)' = Held(x)
      BY <2>4 DEF Held, Present, TypeInv, StoreType
    <3>4. QED
      BY <1>5, <1>6, <1>7, <3>2, <3>3 DEF ConfirmReauth, UnchangedByFlow
  <2>5. QED
    BY <1>7, <2>2, <2>3, <2>4 DEF ConfirmReauth
<1>8. ASSUME NEW f \in FlowIds, NEW scan \in BOOLEAN, Create(f, scan) PROVE OneHolder'
  <2>1. PICK e \in EntryIds : /\ ~Present(e)
                              /\ entries'[e] = WithPayload(Blank(flows[f].uid), flows[f], scan)
                              /\ \A x \in EntryIds \ {e} : entries'[x] \in {None, entries[x]}
    <3>1. PICK e \in EntryIds : ~Present(e) /\ e = CHOOSE x \in {y \in EntryIds : ~Present(y)} : TRUE
      BY <1>8 DEF Create
    <3>2. QED
      BY <1>8, <3>1 DEF Create
  <2>2. Held(e)' \in {None, Carried(f)}
    BY <1>8, <2>1 DEF Held, Carried, WithPayload, Blank, Create
  <2>3. \A x \in EntryIds \ {e} : Held(x)' \in {None, Held(x)}
    BY <2>1 DEF Held, Present
  <2>4. QED
    BY <1>5, <1>6, <1>8, <2>2, <2>3 DEF Create
<1>9. QED
  BY <1>2, <1>3, <1>4, <1>7, <1>8, Sheds

-----------------------------------------------------------------------------
(* The inductive invariant                                                 *)

LEMMA TypeStep == ASSUME TypeInv, Next PROVE TypeInv'
  BY StoreStep, OffStep, FlowsStep, HolderStep DEF TypeInv

LEMMA UidStep == ASSUME TypeInv, UidUnique, Next PROVE UidUnique'
<1> USE DEF UidUnique, Present
<1>1. ASSUME NEW e \in EntryIds, EntryMove(e) PROVE UidUnique'
  BY <1>1 DEF EntryMove, OnlyOn, Owner
<1>2. CASE UNCHANGED <<entries, coord, due, ids>>
  BY <1>2
<1>3. ASSUME NEW e \in EntryIds, Remove(e) PROVE UidUnique'
  BY <1>3 DEF Remove, TypeInv, StoreType
<1>4. CASE Restart
  BY <1>4 DEF Restart
<1>5. ASSUME NEW f \in FlowIds, NEW scan \in BOOLEAN, Create(f, scan) PROVE UidUnique'
  <2>1. PICK e \in EntryIds :
          /\ entries'[e] = WithPayload(Blank(flows[f].uid), flows[f], scan)
          /\ \A x \in EntryIds \ {e} :
               entries'[x] = IF flows[f].uid # None /\ x \in Owner(flows[f].uid) THEN None ELSE entries[x]
    <3>1. PICK e \in EntryIds : ~Present(e) /\ e = CHOOSE x \in {y \in EntryIds : ~Present(y)} : TRUE
      BY <1>5 DEF Create
    <3>2. QED
      BY <1>5, <3>1 DEF Create
  <2>2. entries'[e].uid = flows[f].uid
    BY <2>1 DEF WithPayload, Blank
  <2>3. QED
    BY <2>1, <2>2 DEF Owner
<1>6. QED
  BY <1>1, <1>2, <1>3, <1>4, <1>5, Moves


\* Every entry that is set up, or being set up, has what is stored.
AllCurrent == \A e \in EntryIds : Current(e)
LEMMA CurrentStep == ASSUME TypeInv, AllCurrent, Next PROVE AllCurrent'
<1> USE DEF AllCurrent, Current, InSetup
<1>1. ASSUME NEW e \in EntryIds, EntryMove(e) PROVE AllCurrent'
  <2>1. \A x \in EntryIds \ {e} : Current(x)'
    BY <1>1 DEF EntryMove, OnlyOn, Runs, Stored
  <2>2. QED
    BY <1>1, <2>1 DEF EntryMove
<1>2. CASE UNCHANGED <<entries, coord, due, ids>>
  BY <1>2 DEF Runs, Stored
<1>3. ASSUME NEW e \in EntryIds, Remove(e) PROVE AllCurrent'
  BY <1>3 DEF Remove, TypeInv, StoreType, Off, Runs, Stored
<1>4. CASE Restart
  BY <1>4 DEF Restart, Off
<1>5. ASSUME NEW f \in FlowIds, NEW scan \in BOOLEAN, Create(f, scan) PROVE AllCurrent'
  <2>1. PICK e \in EntryIds : ~Present(e) /\ e = CHOOSE x \in {y \in EntryIds : ~Present(y)} : TRUE
    BY <1>5 DEF Create
  <2>2. \A x \in EntryIds : coord'[x] = Off
                             \/ (entries'[x] = entries[x] /\ coord'[x] = coord[x] /\ due'[x] = due[x])
    <3> DEFINE replaced == IF flows[f].uid = None THEN {} ELSE Owner(flows[f].uid)
    <3>1. \A x \in EntryIds :
            /\ coord'[x] = IF x \in replaced THEN Off ELSE coord[x]
            /\ due'[x] = IF x \in replaced THEN 0 ELSE due[x]
            /\ x # e => entries'[x] = IF x \in replaced THEN None ELSE entries[x]
      BY <1>5, <2>1 DEF Create
    <3>2. coord[e] = Off
      BY <2>1 DEF TypeInv, OffUnlessStored
    <3> HIDE DEF replaced
    <3>3. QED
      BY <3>1, <3>2
  <2>3. QED
    BY <2>2 DEF Off, Runs, Stored
<1>6. QED
  BY <1>1, <1>2, <1>3, <1>4, <1>5, Moves

\* The inductive invariant.
Inv == TypeInv /\ UidUnique /\ AllCurrent
LEMMA InitInv == ASSUME Init PROVE Inv
<1>1. PICK old \in SUBSET EntryIds :
        /\ entries = [e \in EntryIds |-> IF e \in old THEN Legacy(CHOOSE u \in Units : TRUE) ELSE None]
        /\ ids = [e \in EntryIds |-> IF e \in old THEN {<<>>} ELSE {}]
        /\ old # {} => \E e \in EntryIds : old = {e}
  BY DEF Init
<1>2. PICK u \in Units : u = CHOOSE x \in Units : TRUE
  BY HostsAssumption
<1>3. /\ Legacy(u) \in EntryType
      /\ Legacy(u).flowCache = None
  <2>1. Home[u] \in Hosts /\ LegacyId \in Uids /\ None \in FlowCaches /\ None \in DeviceCaches
    BY HostsAssumption DEF Uids, FlowCaches, DeviceCaches
  <2>2. QED
    BY <2>1 DEF Legacy, Blank, EntryType
<1>4. at \in [Hosts -> Units \cup {None}]
  BY DEF Init, Placed
<1>5. entries \in [EntryIds -> EntryType \cup {None}] /\ \A e \in EntryIds : Held(e) = None
  BY <1>1, <1>2, <1>3 DEF Held, Present
<1>6. ids \in [EntryIds -> SUBSET Seq(Units \cup {Unknown})]
  <2>1. <<>> \in Seq(Units \cup {Unknown})
    OBVIOUS
  <2>2. QED
    BY <1>1, <2>1
<1>7. StoreType
  BY <1>4, <1>5, <1>6, OffType, BoundsAssumption DEF Init, StoreType, Budgets
<1>8. OffUnlessStored
  BY <1>1, <1>2, <1>3, EntryIsSome DEF Init, OffUnlessStored, Present
<1>9. FlowsSound /\ OneHolder
  BY <1>5 DEF Init, FlowsSound, FlowSound, OneHolder, Carried
<1>10. UidUnique
  BY <1>1 DEF UidUnique, Present
<1>11. AllCurrent
  BY DEF Init, AllCurrent, Current, InSetup, Off
<1>12. QED
  BY <1>7, <1>8, <1>9, <1>10, <1>11 DEF Inv, TypeInv

LEMMA Inductive == Spec => []Inv
<1>1. Init => Inv
  BY InitInv
<1>2. Inv /\ [Next]_vars => Inv'
  <2> SUFFICES ASSUME Inv, [Next]_vars PROVE Inv'
    OBVIOUS
  <2>1. CASE Next
    BY <2>1, TypeStep, UidStep, CurrentStep DEF Inv
  <2>2. CASE UNCHANGED vars
    BY <2>2 DEF vars, Inv, TypeInv, StoreType, OffUnlessStored, FlowsSound, FlowSound, OneHolder, Held, Carried, Present,
       UidUnique, AllCurrent, Current, InSetup, Runs, Stored
  <2>3. QED
    BY <2>1, <2>2
<1>3. QED
  BY <1>1, <1>2, PTL DEF Spec

\* Types hold, and only stored entries have a coordinator: no flow, removal or
\* restart leaves one behind (TypeOK).
THEOREM EntriesTyped == Spec => []TypeOK
<1>1. Inv => TypeOK
  BY DEF Inv, TypeInv, StoreType, OffUnlessStored, TypeOK, Budgets
<1>2. QED
  BY <1>1, Inductive, PTL

\* No two entries claim one device, however flows, migrations and moves of units
\* interleave (UidUnique).
THEOREM OneOwner == Spec => []UidUnique
<1>1. Inv => UidUnique
  BY DEF Inv
<1>2. QED
  BY <1>1, Inductive, PTL

\* A one-time cache of the config flow that a set-up has applied is stored
\* nowhere any more (FlowCacheOnce).
THEOREM CacheUsedOnce == Spec => []FlowCacheOnce
<1>1. Inv => FlowCacheOnce
  BY DEF Inv, TypeInv, OneHolder, Held, Carried, FlowCacheOnce
<1>2. QED
  BY <1>1, Inductive, PTL

\* What a loaded entry runs with is what is stored, unless a reload waits or the
\* change came during the set-up (LoadedIsCurrent).
THEOREM RunsWhatIsStored == Spec => []LoadedIsCurrent
<1>1. Inv => LoadedIsCurrent
  BY DEF Inv, AllCurrent, Current, LoadedIsCurrent
<1>2. QED
  BY <1>1, Inductive, PTL
=============================================================================
