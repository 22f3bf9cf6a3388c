--------------------------- MODULE Scanner_proofs ---------------------------
(***************************************************************************)
(* Proofs that the scanner drops no register, writes none off because of   *)
(* its neighbours, keeps its memory of failures coherent and, when nothing *)
(* goes wrong, finds exactly what the unit has.                            *)
(***************************************************************************)
EXTENDS Scanner, ReadPlan_proofs, SequenceTheorems

Roles == {"block", "version", "batch", "probe", "full", "raw"}

-----------------------------------------------------------------------------
(* The requests of each phase                                              *)

LEMMA Tables ==
  /\ Words \subseteq Kinds /\ Bits \subseteq Kinds /\ Words \cap Bits = {}
  /\ \A k \in Kinds : Named[k] \in SUBSET Nat /\ IsFiniteSet(Named[k])
  /\ Tails \in SUBSET Nat /\ IsFiniteSet(Tails)
  /\ RawAddresses \in SUBSET Nat /\ IsFiniteSet(RawAddresses)
  /\ Version \in SUBSET Nat /\ IsFiniteSet(Version)
  /\ Batch \in Nat \ {0} /\ Retry \in Nat \ {0} /\ Runs \in Nat \ {0} /\ MaxFaults \in Nat
<1>1. Words \subseteq Kinds /\ Bits \subseteq Kinds /\ Words \cap Bits = {}
  BY DEF Words, Bits, Kinds
<1>2. QED
  BY <1>1, BoundsAssumption, AddressAssumption

LEMMA SweptIsFinite ==
  ASSUME NEW k \in Kinds
  PROVE  Swept(k) \in SUBSET Nat /\ IsFiniteSet(Swept(k)) /\ Named[k] \subseteq Swept(k)
<1>1. CASE Named[k] = {}
  BY <1>1, FS_EmptySet DEF Swept
<1>2. CASE Named[k] # {}
  <2>1. Named[k] \in SUBSET Int /\ IsFiniteSet(Named[k]) /\ Named[k] \in SUBSET Nat
    BY Tables
  <2>2. PICK m \in Named[k] : \A x \in Named[k] : x <= m
    BY <1>2, <2>1, Greatest
  <2>3. \A x \in Named[k] : m >= x
    BY <2>1, <2>2
  <2>4. Max(Named[k]) \in Named[k] /\ \A x \in Named[k] : Max(Named[k]) >= x
    BY <2>3 DEF Max
  <2>5. Swept(k) = 0 .. Max(Named[k]) /\ Max(Named[k]) \in Nat
    BY <1>2, <2>1, <2>4 DEF Swept
  <2>6. Named[k] \subseteq 0 .. Max(Named[k])
    BY <2>1, <2>4, <2>5
  <2>7. IsFiniteSet(0 .. Max(Named[k])) /\ 0 .. Max(Named[k]) \in SUBSET Nat
    BY <2>5, FS_Interval
  <2>8. QED
    BY <2>5, <2>6, <2>7
<1>3. QED
  BY <1>1, <1>2

LEMMA AddressesAreNatural == Addresses \in SUBSET Nat
<1>1. \A k \in Kinds : Named[k] \cup Swept(k) \in SUBSET Nat
  BY Tables, SweptIsFinite
<1>2. \A p \in Nat \X Nat : Span(p[1], p[2]) \subseteq Nat
  BY DEF Span
<1>3. Span(InfoBlock[1], InfoBlock[2]) \subseteq Nat /\ Span(NameBlock[1], NameBlock[2]) \subseteq Nat
  BY <1>2, AddressAssumption
<1>4. QED
  BY <1>1, <1>3, Tables, ZenonT(40) DEF Addresses

LEMMA RequestIs ==
  ASSUME NEW j \in RequestType
  PROVE  /\ j.kind \in Kinds /\ j.force \in BOOLEAN /\ j.role \in Roles
         /\ j.attempt \in 1 .. Retry /\ j.aborted \in BOOLEAN
         /\ j.first \in Addresses /\ j.first \in Nat /\ j.last \in Nat /\ j.first <= j.last
         /\ j.first .. j.last \subseteq Nat /\ j.first \in j.first .. j.last
<1>1. /\ j.kind \in Kinds /\ j.force \in BOOLEAN /\ j.role \in Roles
      /\ j.attempt \in 1 .. Retry /\ j.aborted \in BOOLEAN
      /\ j.first \in Addresses /\ j.last \in Nat /\ j.first <= j.last
  BY DEF RequestType, Roles
<1>2. j.first \in Nat
  BY <1>1, AddressesAreNatural
<1>3. \A x, y \in Nat : x <= y => x .. y \subseteq Nat /\ x \in x .. y
  OBVIOUS
<1>4. QED
  BY <1>1, <1>2, <1>3

\* What the requests R for pairs of an address and a length are.
Made(R, kind, pairs, force, role, A) ==
  /\ R \in Seq(RequestType)
  /\ Len(R) = Len(pairs)
  /\ \A i \in 1 .. Len(pairs) :
       /\ R[i].kind = kind /\ R[i].force = force /\ R[i].role = role
       /\ R[i].first = pairs[i][1] /\ R[i].last = pairs[i][1] + pairs[i][2] - 1
  /\ \A a \in A : \E i \in 1 .. Len(pairs) : a \in R[i].first .. R[i].last

LEMMA RequestsAre ==
  ASSUME NEW kind \in Kinds, NEW force \in BOOLEAN, NEW role \in Roles,
         NEW A \in SUBSET Addresses, NEW pairs, Exact(pairs, A)
  PROVE  Made(Requests(kind, pairs, force, role), kind, pairs, force, role, A)
<1> DEFINE R == Requests(kind, pairs, force, role)
<1>1. pairs \in Seq(A \X (Nat \ {0})) /\ DOMAIN pairs = 1 .. Len(pairs) /\ Len(pairs) \in Nat
  BY DEF Exact
<1>2. \A i \in 1 .. Len(pairs) : pairs[i][1] \in A /\ pairs[i][1] \in Nat /\ pairs[i][2] \in Nat \ {0}
  <2>1. \A i \in 1 .. Len(pairs) : pairs[i] \in A \X (Nat \ {0})
    BY <1>1
  <2>2. QED
    BY <2>1, AddressesAreNatural
<1>3. R = [i \in 1 .. Len(pairs) |->
             [kind |-> kind, first |-> pairs[i][1], last |-> pairs[i][1] + pairs[i][2] - 1,
              force |-> force, role |-> role, attempt |-> 1, aborted |-> FALSE]]
  BY <1>1 DEF Requests
<1>4. \A i \in 1 .. Len(pairs) :
        /\ R[i].kind = kind /\ R[i].force = force /\ R[i].role = role
        /\ R[i].first = pairs[i][1] /\ R[i].last = pairs[i][1] + pairs[i][2] - 1
  BY <1>3
<1>5. \A i \in 1 .. Len(pairs) : R[i] \in RequestType
  <2> TAKE i \in 1 .. Len(pairs)
  <2>1. pairs[i][1] + pairs[i][2] - 1 \in Nat /\ pairs[i][1] <= pairs[i][1] + pairs[i][2] - 1
    BY <1>2
  <2>2. 1 \in 1 .. Retry
    BY Tables
  <2>3. R[i] = [kind |-> kind, first |-> pairs[i][1], last |-> pairs[i][1] + pairs[i][2] - 1,
                force |-> force, role |-> role, attempt |-> 1, aborted |-> FALSE]
    BY <1>3
  <2> HIDE DEF R
  <2>4. QED
    BY <1>2, <2>1, <2>2, <2>3 DEF RequestType, Roles
<1>6. R \in Seq(RequestType) /\ Len(R) = Len(pairs)
  BY <1>1, <1>3, <1>5
<1>7. \A a \in A : \E i \in 1 .. Len(pairs) : a \in R[i].first .. R[i].last
  <2> TAKE a \in A
  <2>1. a \in Covered(pairs)
    BY DEF Exact
  <2>2. PICK i \in 1 .. Len(pairs) : a \in Span(pairs[i][1], pairs[i][2])
    BY <1>1, <2>1 DEF Covered
  <2>3. QED
    BY <1>4, <2>2 DEF Span
<1> HIDE DEF R
<1>8. QED
  BY <1>4, <1>6, <1>7 DEF Made, R

-----------------------------------------------------------------------------
(* What the requests of a phase are                                        *)

\* A request that may be made in phase p.
Suits(p, j) ==
  /\ p \in Kinds => j.kind = p /\ j.role \in (IF setup.full THEN {"full"} ELSE {"batch", "probe"})
  /\ p \notin Kinds => j.role \in {"block", "version", "raw"}
  /\ p = "raw" => j.role = "raw" /\ j.kind = "input"
  /\ j.role = "probe" => j.first = j.last /\ j.first \in Sought(j.kind) /\ j.force
  /\ j.role = "version" => j.first \in Version

\* The addresses of requests.
Asks(requests) == UNION {requests[i].first .. requests[i].last : i \in 1 .. Len(requests)}

\* The registers a scan has to account for: a full one those it does not look for too.
Owed(k) == IF setup.full THEN Listed(k) ELSE Sought(k)

LEMMA ProbesAre ==
  ASSUME NEW j \in RequestType, j.role = "batch"
  PROVE  /\ Probes(j) \in Seq(RequestType)
         /\ (j.first .. j.last) \cap Sought(j.kind) \subseteq Asks(Probes(j))
         /\ \A i \in 1 .. Len(Probes(j)) :
              /\ Probes(j)[i].kind = j.kind /\ Probes(j)[i].role = "probe" /\ Probes(j)[i].force
              /\ Probes(j)[i].first = Probes(j)[i].last /\ Probes(j)[i].first \in Sought(j.kind)
<1> DEFINE A == (j.first .. j.last) \cap Sought(j.kind)
           pairs == GroupReads(A, 1, {})
<1>1. j.kind \in Kinds
  BY DEF RequestType
<1>2. A \in SUBSET Nat /\ IsFiniteSet(A) /\ A \subseteq Addresses
  <2>1. A \in SUBSET Named[j.kind] /\ IsFiniteSet(Named[j.kind]) /\ Named[j.kind] \in SUBSET Nat
    BY <1>1, Tables DEF Sought, Listed
  <2>2. IsFiniteSet(A)
    BY <2>1, FS_Subset
  <2>3. Named[j.kind] \subseteq Addresses
    BY <1>1 DEF Addresses
  <2>4. QED
    BY <2>1, <2>2, <2>3
<1>3. A \subseteq Sought(j.kind) /\ Probes(j) = Requests(j.kind, pairs, TRUE, "probe")
  BY DEF Probes, Singles
<1> HIDE DEF A
<1>4. Exact(pairs, A) /\ Bounded(pairs, 1)
  BY <1>2, GroupReadsExact
<1> HIDE DEF pairs
<1>5. TRUE \in BOOLEAN /\ "probe" \in Roles
  BY DEF Roles
<1> DEFINE R == Requests(j.kind, pairs, TRUE, "probe")
<1>6. /\ R \in Seq(RequestType) /\ Len(R) = Len(pairs)
      /\ \A i \in 1 .. Len(pairs) : R[i].kind = j.kind /\ R[i].force = TRUE /\ R[i].role = "probe"
                                    /\ R[i].first = pairs[i][1] /\ R[i].last = pairs[i][1] + pairs[i][2] - 1
      /\ \A a \in A : \E i \in 1 .. Len(pairs) : a \in R[i].first .. R[i].last
  <2>1. A \in SUBSET Addresses
    BY <1>2
  <2>2. Made(R, j.kind, pairs, TRUE, "probe", A)
    BY <1>1, <1>4, <1>5, <2>1, RequestsAre
  <2>3. QED
    BY <2>2 DEF Made
<1> HIDE DEF R
<1>7. \A i \in 1 .. Len(pairs) : R[i].first = R[i].last /\ R[i].first \in A
  <2> TAKE i \in 1 .. Len(pairs)
  <2>1. pairs[i] \in A \X (Nat \ {0}) /\ pairs[i][2] <= 1
    BY <1>4 DEF Exact, Bounded
  <2>2. pairs[i][1] \in A /\ pairs[i][1] \in Nat /\ pairs[i][2] = 1
    BY <1>2, <2>1
  <2>3. QED
    BY <1>6, <2>2
<1>8. A \subseteq Asks(R)
  BY <1>6 DEF Asks
<1>9. QED
  BY <1>3, <1>6, <1>7, <1>8 DEF R, A

LEMMA BatchesAre ==
  ASSUME NEW A \in SUBSET Addresses, IsFiniteSet(A), NEW B, setup \in Setups
  PROVE  Exact(BatchesOf(A, B), A)
<1>1. A \in SUBSET Nat /\ Batch \in Nat \ {0} /\ setup.safe \in BOOLEAN
  BY AddressesAreNatural, Tables, SetupsAssumption DEF SetupType
<1>2. QED
  BY <1>1, BatchPlanExact DEF BatchesOf

LEMMA TypeScanIs ==
  ASSUME NEW k \in Kinds, setup \in Setups
  PROVE  /\ TypeScan(k) \in Seq(RequestType)
         /\ \A i \in 1 .. Len(TypeScan(k)) : Suits(k, TypeScan(k)[i])
         /\ Owed(k) \subseteq Asks(TypeScan(k))
<1>1. CASE setup.full
  <2> DEFINE pairs == GroupReads(Swept(k), Batch, {})
             force == k \in Words
             R == Requests(k, pairs, force, "full")
  <2>1. Swept(k) \in SUBSET Addresses
    BY DEF Addresses
  <2>2. Exact(pairs, Swept(k))
    BY SweptIsFinite, GroupReadsExact, Tables
  <2>3. force \in BOOLEAN /\ "full" \in Roles
    BY DEF Roles
  <2>4. TypeScan(k) = R
    BY <1>1 DEF TypeScan
  <2> HIDE DEF pairs, force
  <2>5. /\ R \in Seq(RequestType) /\ Len(R) = Len(pairs)
        /\ \A i \in 1 .. Len(pairs) : R[i].kind = k /\ R[i].role = "full"
        /\ \A a \in Swept(k) : \E i \in 1 .. Len(pairs) : a \in R[i].first .. R[i].last
    <3>1. Made(R, k, pairs, force, "full", Swept(k))
      BY <2>1, <2>2, <2>3, RequestsAre
    <3>2. QED
      BY <3>1 DEF Made
  <2> HIDE DEF R
  <2>6. Owed(k) \subseteq Swept(k)
    BY SweptIsFinite DEF Owed, Listed, Sought
  <2>7. Swept(k) \subseteq Asks(R)
    BY <2>5 DEF Asks
  <2>8. \A i \in 1 .. Len(R) : Suits(k, R[i])
    <3>1. k # "raw"
      BY DEF Kinds, Words, Bits
    <3>2. QED
      BY <1>1, <2>5, <3>1 DEF Suits
  <2>9. QED
    BY <2>4, <2>5, <2>6, <2>7, <2>8
<1>2. CASE ~setup.full
  <2> DEFINE B == IF k = "holding" THEN Boundaries ELSE {}
             pairs == BatchesOf(Wanted(k), B)
             R == Requests(k, pairs, FALSE, "batch")
  <2>1. Wanted(k) \in SUBSET Addresses /\ IsFiniteSet(Wanted(k)) /\ Sought(k) \subseteq Wanted(k)
    <3>1. IsFiniteSet(Sought(k)) /\ Sought(k) \subseteq Named[k]
      BY Tables, FS_Subset DEF Sought, Listed
    <3>2. IsFiniteSet(Sought(k) \cup Tails) /\ IsFiniteSet(Sought(k) \cup {})
      BY <3>1, Tables, FS_Union, FS_EmptySet
    <3>3. Named[k] \cup Tails \subseteq Addresses
      BY DEF Addresses
    <3>4. QED
      BY <3>1, <3>2, <3>3 DEF Wanted
  <2>2. Exact(pairs, Wanted(k))
    BY <2>1, BatchesAre
  <2>3. FALSE \in BOOLEAN /\ "batch" \in Roles
    BY DEF Roles
  <2>4. TypeScan(k) = R
    BY <1>2 DEF TypeScan
  <2> HIDE DEF pairs
  <2>5. /\ R \in Seq(RequestType) /\ Len(R) = Len(pairs)
        /\ \A i \in 1 .. Len(pairs) : R[i].kind = k /\ R[i].role = "batch"
        /\ \A a \in Wanted(k) : \E i \in 1 .. Len(pairs) : a \in R[i].first .. R[i].last
    <3>1. Made(R, k, pairs, FALSE, "batch", Wanted(k))
      BY <2>1, <2>2, <2>3, RequestsAre
    <3>2. QED
      BY <3>1 DEF Made
  <2> HIDE DEF R
  <2>6. Wanted(k) \subseteq Asks(R)
    BY <2>5 DEF Asks
  <2>7. \A i \in 1 .. Len(R) : Suits(k, R[i])
    <3>1. k # "raw"
      BY DEF Kinds, Words, Bits
    <3>2. QED
      BY <1>2, <2>5, <3>1 DEF Suits
  <2>8. Owed(k) = Sought(k)
    BY <1>2 DEF Owed
  <2>9. QED
    BY <2>1, <2>4, <2>5, <2>6, <2>7, <2>8
<1>3. QED
  BY <1>1, <1>2

LEMMA BlockIs ==
  ASSUME NEW kind \in Kinds, NEW force \in BOOLEAN, NEW role \in {"block", "version", "raw"},
         NEW p \in {"info", "firmware", "identity", "raw"}, p = "raw" => role = "raw" /\ kind = "input",
         NEW A \in SUBSET Addresses, role = "version" => A \subseteq Version, NEW pairs, Exact(pairs, A)
  PROVE  /\ Requests(kind, pairs, force, role) \in Seq(RequestType)
         /\ \A i \in 1 .. Len(Requests(kind, pairs, force, role)) :
              Suits(p, Requests(kind, pairs, force, role)[i])
<1> DEFINE R == Requests(kind, pairs, force, role)
<1>1. role \in Roles
  BY DEF Roles
<1>2. Made(R, kind, pairs, force, role, A)
  BY <1>1, RequestsAre
<1> HIDE DEF R
<1>3. /\ R \in Seq(RequestType)
      /\ \A i \in 1 .. Len(R) : R[i].kind = kind /\ R[i].role = role /\ R[i].first \in A
  <2>1. \A i \in 1 .. Len(pairs) : pairs[i] \in A \X (Nat \ {0})
    BY DEF Exact
  <2>2. \A i \in 1 .. Len(pairs) : pairs[i][1] \in A
    BY <2>1
  <2>3. QED
    BY <1>2, <2>2 DEF Made
<1>4. p \notin Kinds
  BY DEF Kinds, Words, Bits
<1>5. \A i \in 1 .. Len(R) : Suits(p, R[i])
  BY <1>3, <1>4 DEF Suits
<1>6. QED
  BY <1>3, <1>5 DEF R

LEMMA PhaseIs ==
  ASSUME NEW p \in Phases \ {"none"}, setup \in Setups, parts \subseteq Version
  PROVE  /\ PhaseRequests(p) \in Seq(RequestType)
         /\ \A i \in 1 .. Len(PhaseRequests(p)) : Suits(p, PhaseRequests(p)[i])
         /\ p \in Kinds => Owed(p) \subseteq Asks(PhaseRequests(p))
<1>1. "input" \in Kinds /\ "holding" \in Kinds /\ \A q \in {"info", "firmware", "identity", "raw"} : q \notin Kinds
  BY DEF Kinds, Words, Bits
<1>2. TRUE \in BOOLEAN /\ FALSE \in BOOLEAN
  OBVIOUS
<1>3. ASSUME NEW block \in {InfoBlock, NameBlock}
      PROVE  /\ Span(block[1], block[2]) \in SUBSET Addresses
             /\ Exact(ChunkRange(block[1], block[2], Batch), Span(block[1], block[2]))
  <2>1. block[1] \in Nat /\ block[2] \in Nat /\ Batch \in Int
    BY AddressAssumption, Tables
  <2>2. Span(block[1], block[2]) \in SUBSET Addresses
    BY DEF Addresses
  <2>3. QED
    BY <2>1, <2>2, ChunkRangeExact
<1>4. CASE p = "info"
  <2>1. PhaseRequests(p) = Requests("input", ChunkRange(InfoBlock[1], InfoBlock[2], Batch), FALSE, "block")
    BY <1>1, <1>4 DEF PhaseRequests
  <2>2. QED
    BY <1>1, <1>2, <1>3, <1>4, <2>1, BlockIs
<1>5. CASE p = "identity"
  <2>1. PhaseRequests(p) = Requests("holding", ChunkRange(NameBlock[1], NameBlock[2], Batch), FALSE, "block")
    BY <1>1, <1>5 DEF PhaseRequests
  <2>2. QED
    BY <1>1, <1>2, <1>3, <1>5, <2>1, BlockIs
<1>6. CASE p = "firmware"
  <2> DEFINE A == Version \ parts
  <2>1. PhaseRequests(p) = Requests("input", GroupReads(A, 1, {}), TRUE, "version")
    BY <1>1, <1>6 DEF PhaseRequests, Singles
  <2>2. A \in SUBSET Nat /\ A \in SUBSET Addresses /\ IsFiniteSet(A)
    <3>1. A \in SUBSET Version
      OBVIOUS
    <3>2. IsFiniteSet(A)
      BY <3>1, Tables, FS_Subset
    <3>3. QED
      BY <3>1, <3>2, Tables DEF Addresses
  <2> HIDE DEF A
  <2>3. Exact(GroupReads(A, 1, {}), A)
    BY <2>2, GroupReadsExact
  <2>4. QED
    <3>1. A \subseteq Version
      BY DEF A
    <3>2. QED
      BY <1>1, <1>2, <1>6, <2>1, <2>2, <2>3, <3>1, BlockIs
<1>7. CASE p \in Kinds
  <2>1. PhaseRequests(p) = TypeScan(p)
    BY <1>1, <1>7 DEF PhaseRequests
  <2>2. QED
    BY <1>7, <2>1, TypeScanIs
<1>8. CASE p = "raw"
  <2>1. CASE setup.deep
    <3>1. PhaseRequests(p) = Requests("input", BatchesOf(RawAddresses, {}), FALSE, "raw")
      BY <1>1, <1>8, <2>1 DEF PhaseRequests
    <3>2. RawAddresses \in SUBSET Addresses /\ IsFiniteSet(RawAddresses)
      BY Tables DEF Addresses
    <3>3. Exact(BatchesOf(RawAddresses, {}), RawAddresses)
      BY <3>2, BatchesAre
    <3>4. QED
      BY <1>1, <1>2, <1>8, <3>1, <3>2, <3>3, BlockIs
  <2>2. CASE ~setup.deep
    <3>1. PhaseRequests(p) = <<>>
      BY <1>1, <1>8, <2>2 DEF PhaseRequests
    <3>2. <<>> \in Seq(RequestType) /\ Len(<<>>) = 0 /\ 1 .. 0 = {}
      OBVIOUS
    <3>3. QED
      BY <1>1, <1>8, <3>1, <3>2
  <2>3. QED
    BY <2>1, <2>2
<1>9. QED
  BY <1>4, <1>5, <1>6, <1>7, <1>8 DEF Phases

-----------------------------------------------------------------------------
(* What a request does to the report                                       *)

LEMMA ExceptedIs ==
  ASSUME NEW rep \in ReportType, NEW k \in Kinds, NEW X \in SUBSET Nat
  PROVE  /\ Excepted(rep, k, X) \in ReportType
         /\ Excepted(rep, k, X).available = rep.available
         /\ Excepted(rep, k, X).invalid = rep.invalid
         /\ Excepted(rep, k, X).batch = rep.batch
         /\ Excepted(rep, k, X).raw = rep.raw
         /\ Excepted(rep, k, X).before = rep.before
         /\ Excepted(rep, k, X).exceptions[k] = rep.exceptions[k] \cup X
         /\ \A q \in Kinds \ {k} : Excepted(rep, k, X).exceptions[q] = rep.exceptions[q]
  BY DEF Excepted, ReportType

\* A report that has only lost sight of registers since rep.
Worse(r, rep, k) ==
  /\ r \in ReportType
  /\ r.available = rep.available /\ r.invalid = rep.invalid
  /\ r.raw = rep.raw /\ r.before = rep.before
  /\ \A q \in Kinds : rep.exceptions[q] \subseteq r.exceptions[q] /\ rep.batch[q] \subseteq r.batch[q]
  /\ \A q \in Kinds \ {k} : r.exceptions[q] = rep.exceptions[q]

LEMMA LostIs ==
  ASSUME NEW rep \in ReportType, NEW j \in RequestType
  PROVE  /\ Worse(Lost(j, rep), rep, j.kind)
         /\ j.role \in {"batch", "full"} => j.first .. j.last \subseteq Lost(j, rep).batch[j.kind]
         /\ j.role = "probe" => j.first \in Lost(j, rep).exceptions[j.kind]
<1>1. j.kind \in Kinds /\ j.first \in Nat /\ j.first .. j.last \subseteq Nat /\ j.first \in j.first .. j.last
  BY RequestIs
<1>2. CASE j.role \in {"batch", "full"}
  <2>1. Lost(j, rep) = [rep EXCEPT !.batch[j.kind] = @ \cup (j.first .. j.last)]
    BY <1>2 DEF Lost
  <2>2. Lost(j, rep) \in ReportType
    BY <1>1, <2>1 DEF ReportType
  <2>3. /\ Lost(j, rep).available = rep.available /\ Lost(j, rep).invalid = rep.invalid
        /\ Lost(j, rep).raw = rep.raw /\ Lost(j, rep).before = rep.before
        /\ Lost(j, rep).exceptions = rep.exceptions
    BY <2>1 DEF ReportType
  <2>4. /\ Lost(j, rep).batch[j.kind] = rep.batch[j.kind] \cup (j.first .. j.last)
        /\ \A q \in Kinds \ {j.kind} : Lost(j, rep).batch[q] = rep.batch[q]
    BY <1>1, <2>1 DEF ReportType
  <2>5. QED
    BY <1>2, <2>2, <2>3, <2>4 DEF Worse
<1>3. CASE j.role = "probe"
  <2>1. Lost(j, rep) = Excepted(rep, j.kind, {j.first})
    BY <1>3 DEF Lost
  <2>2. {j.first} \in SUBSET Nat
    BY <1>1
  <2>3. QED
    BY <1>1, <1>3, <2>1, <2>2, ExceptedIs DEF Worse
<1>4. CASE j.role \notin {"batch", "full", "probe"}
  <2>1. Lost(j, rep) = rep
    BY <1>4 DEF Lost
  <2>2. QED
    BY <1>4, <2>1 DEF Worse
<1>5. QED
  BY <1>2, <1>3, <1>4

\* The addresses at which an answer finds registers, and those with a value.
Names(j) == (j.first .. j.last) \cap (IF j.role = "full" THEN Named[j.kind] ELSE Sought(j.kind))
Good(j) == IF j.kind \in Words THEN Names(j) \cap setup.sane[j.kind] ELSE Names(j)

\* A report with the names of an answer sorted into it.
Better(r, rep, j) ==
  /\ r \in ReportType
  /\ r.batch = rep.batch /\ r.raw = rep.raw /\ r.before = rep.before
  /\ r.available[j.kind] = rep.available[j.kind] \cup Good(j)
  /\ r.invalid[j.kind] = rep.invalid[j.kind] \cup (Names(j) \ Good(j))
  /\ r.exceptions[j.kind] \subseteq rep.exceptions[j.kind]
  /\ rep.exceptions[j.kind] \subseteq r.exceptions[j.kind] \cup Names(j)
  /\ \A q \in Kinds \ {j.kind} :
       /\ r.available[q] = rep.available[q] /\ r.invalid[q] = rep.invalid[q]
       /\ r.exceptions[q] = rep.exceptions[q]

LEMMA FoundIs ==
  ASSUME NEW j \in RequestType, report \in ReportType,
         j.role = "probe" => j.first = j.last /\ j.first \in Sought(j.kind)
  PROVE  /\ j.role \notin {"batch", "probe", "full"} => Found(j, report) = report
         /\ j.role \in {"batch", "probe", "full"} => Better(Found(j, report), report, j)
<1> SUFFICES ASSUME j.role \in {"batch", "probe", "full"}
             PROVE  Better(Found(j, report), report, j)
  BY DEF Found
<1>1. j.kind \in Kinds /\ j.first \in Nat /\ j.first .. j.last \subseteq Nat /\ j.first \in j.first .. j.last
  BY RequestIs
<1> DEFINE good == Good(j)
           bad == Names(j) \ Good(j)
           gone == IF j.role = "probe" /\ j.kind \in Words THEN {j.first} ELSE {}
           r == Found(j, report)
<1>2. good \subseteq Nat /\ bad \subseteq Nat /\ gone \subseteq Names(j)
  <2>1. Names(j) \subseteq Nat /\ good \subseteq Names(j)
    BY <1>1 DEF Names, Good
  <2>2. gone \subseteq Names(j)
    <3>1. SUFFICES ASSUME j.role = "probe"
                   PROVE  j.first \in Names(j)
      OBVIOUS
    <3>2. j.first \in j.first .. j.last /\ j.role # "full"
      BY <1>1, <3>1
    <3>3. QED
      BY <3>1, <3>2 DEF Names
  <2>3. QED
    BY <2>1, <2>2
<1>3. r = [report EXCEPT
              !.available[j.kind] = @ \cup good,
              !.invalid[j.kind] = @ \cup bad,
              !.exceptions[j.kind] = IF j.role = "probe" /\ j.kind \in Words THEN @ \ {j.first} ELSE @]
  BY DEF Found, Good, Names
<1> HIDE DEF good, bad, r
<1>4. /\ r.available = [report.available EXCEPT ![j.kind] = @ \cup good]
      /\ r.invalid = [report.invalid EXCEPT ![j.kind] = @ \cup bad]
      /\ r.exceptions = [report.exceptions EXCEPT ![j.kind] = @ \ gone]
      /\ r.batch = report.batch /\ r.raw = report.raw /\ r.before = report.before
      /\ r = [available |-> r.available, exceptions |-> r.exceptions, invalid |-> r.invalid,
              batch |-> r.batch, raw |-> r.raw, before |-> r.before]
  BY <1>3 DEF ReportType
<1> HIDE DEF gone
<1>5. /\ report.available \in [Kinds -> SUBSET Nat] /\ report.invalid \in [Kinds -> SUBSET Nat]
      /\ report.exceptions \in [Kinds -> SUBSET Nat] /\ report.batch \in [Kinds -> SUBSET Nat]
      /\ report.raw \in SUBSET Nat /\ report.before \in SUBSET Nat
  BY DEF ReportType
<1>6. /\ r.available \in [Kinds -> SUBSET Nat] /\ r.invalid \in [Kinds -> SUBSET Nat]
      /\ r.exceptions \in [Kinds -> SUBSET Nat]
  BY <1>1, <1>2, <1>4, <1>5
<1>7. r \in ReportType
  BY <1>4, <1>5, <1>6 DEF ReportType
<1>8. /\ r.available[j.kind] = report.available[j.kind] \cup good
      /\ r.invalid[j.kind] = report.invalid[j.kind] \cup bad
      /\ r.exceptions[j.kind] = report.exceptions[j.kind] \ gone
      /\ \A q \in Kinds \ {j.kind} :
           /\ r.available[q] = report.available[q] /\ r.invalid[q] = report.invalid[q]
           /\ r.exceptions[q] = report.exceptions[q]
  BY <1>1, <1>4, <1>5
<1>9. QED
  BY <1>2, <1>4, <1>7, <1>8 DEF Better, good, bad, r

-----------------------------------------------------------------------------
(* The memory of failures                                                  *)

\* Ranges that are not empty, do not overlap and cover failed addresses only.
Coherent(failed, ranges) ==
  /\ \A r \in ranges : r.first <= r.last /\ r.first .. r.last \subseteq failed
  /\ \A r, s \in ranges : r # s => Apart(r, s)

\* t is what is left of r when first .. last is cut out.
Piece(t, r, first, last) ==
  /\ t.first <= t.last
  /\ \/ t = r /\ ~Meets(r, first, last)
     \/ t \in {Before(r, first), After(r, last)} /\ Meets(r, first, last)

IsCut(C, R, first, last) == \A t \in C : \E r \in R : Piece(t, r, first, last)

LEMMA PieceIs ==
  ASSUME NEW r \in CodedRanges, NEW first \in Nat, NEW last \in Nat, first <= last,
         NEW t, Piece(t, r, first, last)
  PROVE  /\ t \in CodedRanges /\ r.first <= t.first /\ t.last <= r.last
         /\ t.last < first \/ last < t.first
<1>1. r.first \in Nat /\ r.last \in Nat /\ r.code \in {2, 6}
  BY DEF CodedRanges
<1>2. CASE t = r /\ ~Meets(r, first, last)
  BY <1>1, <1>2 DEF Meets
<1>3. CASE t = Before(r, first) /\ Meets(r, first, last)
  <2>1. t = [first |-> r.first, last |-> first - 1, code |-> r.code]
    BY <1>3 DEF Before, CodedRange
  <2>2. first - 1 \in Nat /\ first - 1 < first /\ first - 1 <= r.last
    BY <1>1, <1>3, <2>1 DEF Meets, Piece
  <2>3. QED
    BY <1>1, <2>1, <2>2 DEF CodedRanges
<1>4. CASE t = After(r, last) /\ Meets(r, first, last)
  <2>1. t = [first |-> last + 1, last |-> r.last, code |-> r.code]
    BY <1>4 DEF After, CodedRange
  <2>2. last + 1 \in Nat /\ last < last + 1 /\ r.first <= last + 1
    BY <1>1, <1>4 DEF Meets
  <2>3. QED
    BY <1>1, <2>1, <2>2 DEF CodedRanges
<1>5. QED
  BY <1>2, <1>3, <1>4 DEF Piece

LEMMA PiecesLieApart ==
  ASSUME NEW r \in CodedRanges, NEW first \in Nat, NEW last \in Nat, first <= last,
         NEW t, Piece(t, r, first, last), NEW u, Piece(u, r, first, last), t # u
  PROVE  Apart(t, u)
<1>1. t \in {Before(r, first), After(r, last)} /\ u \in {Before(r, first), After(r, last)}
  BY DEF Piece
<1>2. Before(r, first).last = first - 1 /\ After(r, last).first = last + 1
  BY DEF Before, After, CodedRange
<1>3. Apart(Before(r, first), After(r, last)) /\ Apart(After(r, last), Before(r, first))
  <2>1. first - 1 < last + 1
    OBVIOUS
  <2>2. QED
    BY <1>2, <2>1 DEF Apart
<1>4. QED
  BY <1>1, <1>3

\* Cutting the ranges leaves them coherent.
LEMMA CutIsCoherent ==
  ASSUME NEW F, NEW R \in SUBSET CodedRanges, Coherent(F, R),
         NEW first \in Nat, NEW last \in Nat, first <= last,
         NEW C, IsCut(C, R, first, last)
  PROVE  /\ C \in SUBSET CodedRanges
         /\ Coherent(F \ (first .. last), C)
         /\ \A t \in C : t.last < first \/ last < t.first
<1>1. ASSUME NEW t \in C
      PROVE  /\ t \in CodedRanges
             /\ t.first <= t.last /\ t.first .. t.last \subseteq F \ (first .. last)
             /\ t.last < first \/ last < t.first
  <2>1. PICK r \in R : Piece(t, r, first, last)
    BY DEF IsCut
  <2>2. /\ t \in CodedRanges /\ r.first <= t.first /\ t.last <= r.last
        /\ t.last < first \/ last < t.first
    BY <2>1, PieceIs
  <2>3. /\ r.first \in Nat /\ r.last \in Nat /\ t.first \in Nat /\ t.last \in Nat
        /\ r.first .. r.last \subseteq F /\ t.first <= t.last
    BY <2>1, <2>2 DEF Coherent, Piece, CodedRanges
  <2>4. \A x \in t.first .. t.last : x \in r.first .. r.last /\ x \notin first .. last
    BY <2>2, <2>3
  <2>5. QED
    BY <2>2, <2>3, <2>4
<1>2. ASSUME NEW t \in C, NEW u \in C, t # u
      PROVE  Apart(t, u)
  <2>1. PICK r \in R : Piece(t, r, first, last)
    BY DEF IsCut
  <2>2. PICK q \in R : Piece(u, q, first, last)
    BY DEF IsCut
  <2>3. CASE r = q
    BY <1>2, <2>1, <2>2, <2>3, PiecesLieApart
  <2>4. CASE r # q
    <3>1. Apart(r, q)
      BY <2>4 DEF Coherent
    <3>2. /\ r.first <= t.first /\ t.last <= r.last /\ q.first <= u.first /\ u.last <= q.last
      BY <2>1, <2>2, PieceIs
    <3>3. \A x \in {t, u, r, q} : x.first \in Nat /\ x.last \in Nat
      BY <1>1 DEF CodedRanges
    <3>4. QED
      BY <3>1, <3>2, <3>3 DEF Apart
  <2>5. QED
    BY <2>3, <2>4
<1>3. QED
  BY <1>1, <1>2 DEF Coherent

\* A cleared address leaves its range.
LEMMA ClearingIsCoherent ==
  ASSUME NEW F, NEW R \in SUBSET CodedRanges, Coherent(F, R), NEW a \in Nat
  PROVE  Supported(R, a) \in SUBSET CodedRanges /\ Coherent(F \ {a}, Supported(R, a))
<1>1. ASSUME NEW t \in Supported(R, a)
      PROVE  \E r \in R : Piece(t, r, a, a)
  <2>1. CASE t \in R /\ ~Holds(t, a)
    <3>1. t.first <= t.last
      BY <2>1 DEF Coherent
    <3>2. QED
      BY <2>1, <3>1 DEF Piece, Holds, Meets
  <2>2. CASE ~(t \in R /\ ~Holds(t, a))
    <3>1. t.first <= t.last /\ \E r \in R : Holds(r, a) /\ t \in {Before(r, a), After(r, a)}
      BY <2>2 DEF Supported, Nonempty
    <3>2. QED
      BY <3>1 DEF Piece, Holds, Meets
  <2>3. QED
    BY <2>1, <2>2
<1>2. a <= a /\ a .. a = {a}
  OBVIOUS
<1> DEFINE C == Supported(R, a)
<1> HIDE DEF C
<1>3. IsCut(C, R, a, a)
  BY <1>1 DEF C, IsCut
<1>4. /\ C \in SUBSET CodedRanges
      /\ Coherent(F \ (a .. a), C)
      /\ \A t \in C : t.last < a \/ a < t.first
  BY <1>2, <1>3, CutIsCoherent
<1>5. QED
  BY <1>2, <1>4 DEF C

\* A refused holding request cuts the ranges and adds its own.
LEMMA HoldingIsCoherent ==
  ASSUME NEW F, NEW R \in SUBSET CodedRanges, Coherent(F, R),
         NEW first \in Nat, NEW last \in Nat, first <= last, NEW code \in {2, 6}
  PROVE  /\ HoldingUnsupported(R, first, last, code) \in SUBSET CodedRanges
         /\ Coherent(F \cup (first .. last), HoldingUnsupported(R, first, last, code))
<1> DEFINE met == {r \in R : Meets(r, first, last)}
           C == (R \ met) \cup Nonempty({Before(r, first) : r \in met} \cup {After(r, last) : r \in met})
           n == CodedRange(first, last, code)
<1>1. HoldingUnsupported(R, first, last, code) = C \cup {n}
  BY DEF HoldingUnsupported
<1>2. ASSUME NEW t \in C
      PROVE  \E r \in R : Piece(t, r, first, last)
  <2>1. CASE t \in R \ met
    <3>1. t.first <= t.last
      BY <2>1 DEF Coherent
    <3>2. QED
      BY <2>1, <3>1 DEF Piece
  <2>2. CASE t \notin R \ met
    <3>1. t.first <= t.last /\ \E r \in met : t \in {Before(r, first), After(r, last)}
      BY <2>2 DEF Nonempty
    <3>2. QED
      BY <3>1 DEF Piece
  <2>3. QED
    BY <2>1, <2>2
<1> HIDE DEF C
<1>3. /\ C \in SUBSET CodedRanges
      /\ Coherent(F \ (first .. last), C)
      /\ \A t \in C : t.last < first \/ last < t.first
  <2>1. IsCut(C, R, first, last)
    BY <1>2 DEF IsCut
  <2>2. QED
    BY <2>1, CutIsCoherent
<1>4. n \in CodedRanges /\ n.first = first /\ n.last = last
  BY DEF CodedRange, CodedRanges
<1> HIDE DEF n
<1>5. \A t \in C : Apart(t, n) /\ Apart(n, t)
  BY <1>3, <1>4 DEF Apart
<1>6. \A r \in C \cup {n} : r.first <= r.last /\ r.first .. r.last \subseteq F \cup (first .. last)
  BY <1>3, <1>4 DEF Coherent
<1>7. \A r, s \in C \cup {n} : r # s => Apart(r, s)
  BY <1>3, <1>5 DEF Coherent
<1>8. QED
  BY <1>1, <1>3, <1>4, <1>6, <1>7 DEF Coherent

\* A refused input request is merged with the ranges it meets.
LEMMA InputIsCoherent ==
  ASSUME NEW F, NEW R \in SUBSET CodedRanges, Coherent(F, R),
         NEW first \in Nat, NEW last \in Nat, first <= last, NEW code \in {2, 6}
  PROVE  /\ InputUnsupported(R, first, last, code) \in SUBSET CodedRanges
         /\ Coherent(F \cup (first .. last), InputUnsupported(R, first, last, code))
<1> DEFINE met == {r \in R : Meets(r, first, last)}
           earlier == {r \in met : r.first < first}
           later == {r \in met : r.last > last}
           start == IF earlier = {} THEN first ELSE (CHOOSE r \in earlier : TRUE).first
           end == IF later = {} THEN last ELSE (CHOOSE r \in later : TRUE).last
           n == CodedRange(start, end, code)
<1>1. InputUnsupported(R, first, last, code) = (R \ met) \cup {n}
  BY DEF InputUnsupported
<1>2. \A r \in R : r.first \in Nat /\ r.last \in Nat /\ r.first <= r.last /\ r.first .. r.last \subseteq F
  BY DEF CodedRanges, Coherent
<1>3. start = first \/ \E r \in met : start = r.first /\ r.first < first
  OBVIOUS
<1>4. end = last \/ \E r \in met : end = r.last /\ r.last > last
  OBVIOUS
<1>5. n.first = start /\ n.last = end /\ n = [first |-> start, last |-> end, code |-> code]
  BY DEF CodedRange
<1> HIDE DEF start, end, n
<1>6. start \in Nat /\ end \in Nat /\ start <= first /\ last <= end
  BY <1>2, <1>3, <1>4
<1>7. n \in CodedRanges
  BY <1>5, <1>6 DEF CodedRanges
<1>8. start .. end \subseteq F \cup (first .. last)
  <2> SUFFICES ASSUME NEW x \in start .. end, x \notin first .. last
               PROVE  x \in F
    OBVIOUS
  <2>1. x \in Nat /\ start <= x /\ x <= end
    BY <1>6
  <2>2. CASE x < first
    <3>1. PICK r \in met : start = r.first
      BY <1>3, <2>1, <2>2
    <3>2. first <= r.last
      BY DEF Meets
    <3>3. x \in r.first .. r.last
      BY <1>2, <2>1, <2>2, <3>1, <3>2
    <3>4. QED
      BY <1>2, <3>3
  <2>3. CASE last < x
    <3>1. PICK r \in met : end = r.last
      BY <1>4, <2>1, <2>3
    <3>2. r.first <= last
      BY DEF Meets
    <3>3. x \in r.first .. r.last
      BY <1>2, <2>1, <2>3, <3>1, <3>2
    <3>4. QED
      BY <1>2, <3>3
  <2>4. QED
    BY <2>1, <2>2, <2>3
<1>9. ASSUME NEW t \in R \ met
      PROVE  Apart(t, n) /\ Apart(n, t)
  <2>1. t.last < first \/ last < t.first
    BY <1>2 DEF Meets
  <2>2. ASSUME NEW r \in met
        PROVE  t.last < r.first \/ r.last < t.first
    BY DEF Coherent, Apart
  <2>3. \A r \in met : r.first <= last /\ first <= r.last
    BY DEF Meets
  <2>4. t.last < first => t.last < start
    BY <1>2, <1>3, <1>6, <2>2, <2>3
  <2>5. last < t.first => end < t.first
    BY <1>2, <1>4, <1>6, <2>2, <2>3
  <2>6. QED
    BY <1>5, <2>1, <2>4, <2>5 DEF Apart
<1>10. n.first <= n.last
  BY <1>5, <1>6
<1>11. \A r \in (R \ met) \cup {n} : r.first <= r.last /\ r.first .. r.last \subseteq F \cup (first .. last)
  BY <1>2, <1>5, <1>8, <1>10
<1>12. \A r, s \in (R \ met) \cup {n} : r # s => Apart(r, s)
  BY <1>9 DEF Coherent
<1>13. (R \ met) \cup {n} \in SUBSET CodedRanges
  BY <1>7
<1>14. QED
  BY <1>1, <1>11, <1>12, <1>13 DEF Coherent

\* A memory of failures that makes sense.
Sound(c) == c \in CacheType /\ \A k \in Words : Coherent(c.failed[k], c.ranges[k])

\* Only the count of a single request may have grown from d to c, and without a
\* request none has.
MoreFor(c, d, j) ==
  \A k \in Words, a \in Addresses :
    c.count[k][a] \in {d.count[k][a], 0} \/ (k = j.kind /\ a = j.first /\ j.first = j.last)
NoMore(c, d) == \A k \in Words, a \in Addresses : c.count[k][a] \in {d.count[k][a], 0}

LEMMA FieldsOf ==
  ASSUME NEW c \in CacheType
  PROVE  /\ c.failed \in [Words -> SUBSET Nat] /\ c.ranges \in [Words -> SUBSET CodedRanges]
         /\ c.count \in [Words -> [Addresses -> 0 .. Retry]]
  BY DEF CacheType

LEMMA TrackedIsSound ==
  ASSUME NEW c, Sound(c), NEW j \in RequestType, j.kind \in Words
  PROVE  /\ Sound(Tracked(c, j)) /\ MoreFor(Tracked(c, j), c, j)
         /\ \A k \in Words : c.failed[k] \subseteq Tracked(c, j).failed[k]
<1>1. c \in CacheType /\ \A k \in Words : Coherent(c.failed[k], c.ranges[k])
  BY DEF Sound
<1>2. CASE j.first # j.last
  <2>1. Tracked(c, j) = c
    BY <1>2 DEF Tracked
  <2>2. QED
    BY <1>1, <2>1 DEF MoreFor, Sound
<1>3. CASE j.first = j.last
  <2> DEFINE n == IF c.count[j.kind][j.first] < Retry THEN c.count[j.kind][j.first] + 1 ELSE Retry
             d == Tracked(c, j)
             F == IF n >= Retry THEN c.failed[j.kind] \cup {j.first} ELSE c.failed[j.kind]
  <2>1. n \in 0 .. Retry
    <3>1. c.count[j.kind][j.first] \in 0 .. Retry /\ Retry \in Nat
      BY <1>1, FieldsOf, RequestIs, Tables
    <3>2. QED
      BY <3>1
  <2>2. d = [c EXCEPT !.count[j.kind][j.first] = n, !.failed[j.kind] = F]
    BY <1>3 DEF Tracked
  <2> HIDE DEF n, d
  <2>3. F \in SUBSET Nat /\ c.failed[j.kind] \subseteq F
    BY <1>1, FieldsOf, RequestIs
  <2> HIDE DEF F
  <2>4. /\ d.count = [c.count EXCEPT ![j.kind] = [c.count[j.kind] EXCEPT ![j.first] = n]]
        /\ d.failed = [c.failed EXCEPT ![j.kind] = F]
        /\ d.ranges = c.ranges
        /\ d = [failed |-> d.failed, ranges |-> d.ranges, count |-> d.count]
    BY <1>1, <2>2 DEF CacheType
  <2>5. d.count \in [Words -> [Addresses -> 0 .. Retry]]
    <3>1. [c.count[j.kind] EXCEPT ![j.first] = n] \in [Addresses -> 0 .. Retry]
      BY <1>1, <2>1, FieldsOf
    <3>2. QED
      BY <1>1, <2>4, <3>1, FieldsOf
  <2>6. d.failed \in [Words -> SUBSET Nat]
    BY <1>1, <2>3, <2>4, FieldsOf
  <2>7. d \in CacheType
    BY <2>4, <2>5, <2>6, <1>1, FieldsOf DEF CacheType
  <2>8. \A k \in Words : c.failed[k] \subseteq d.failed[k]
    BY <1>1, <2>3, <2>4, FieldsOf
  <2>9. \A k \in Words : Coherent(d.failed[k], d.ranges[k])
    BY <1>1, <2>4, <2>8 DEF Coherent
  <2>10. MoreFor(d, c, j)
    <3>1. \A k \in Words, a \in Addresses : k # j.kind \/ a # j.first => d.count[k][a] = c.count[k][a]
      BY <1>1, <2>4, FieldsOf
    <3>2. QED
      BY <1>3, <3>1 DEF MoreFor
  <2>11. QED
    BY <2>7, <2>8, <2>9, <2>10 DEF Sound, d
<1>4. QED
  BY <1>2, <1>3

LEMMA RefusedIsSound ==
  ASSUME NEW c, Sound(c), NEW j \in RequestType, j.kind \in Words, NEW code \in {2, 6}
  PROVE  Sound(Refused(c, j, code)) /\ Refused(c, j, code).count = c.count
<1>1. c \in CacheType /\ \A k \in Words : Coherent(c.failed[k], c.ranges[k])
  BY DEF Sound
<1> DEFINE d == Refused(c, j, code)
           F == c.failed[j.kind] \cup (j.first .. j.last)
           R == IF j.kind = "input" THEN InputUnsupported(c.ranges[j.kind], j.first, j.last, code)
                ELSE HoldingUnsupported(c.ranges[j.kind], j.first, j.last, code)
<1>2. F \in SUBSET Nat /\ R \in SUBSET CodedRanges /\ Coherent(F, R)
  <2>1. /\ c.ranges[j.kind] \in SUBSET CodedRanges /\ Coherent(c.failed[j.kind], c.ranges[j.kind])
        /\ j.first \in Nat /\ j.last \in Nat /\ j.first <= j.last
    BY <1>1, FieldsOf, RequestIs
  <2>2. F \in SUBSET Nat
    BY <1>1, FieldsOf, RequestIs
  <2>3. /\ InputUnsupported(c.ranges[j.kind], j.first, j.last, code) \in SUBSET CodedRanges
        /\ Coherent(F, InputUnsupported(c.ranges[j.kind], j.first, j.last, code))
    BY <2>1, InputIsCoherent
  <2>4. /\ HoldingUnsupported(c.ranges[j.kind], j.first, j.last, code) \in SUBSET CodedRanges
        /\ Coherent(F, HoldingUnsupported(c.ranges[j.kind], j.first, j.last, code))
    BY <2>1, HoldingIsCoherent
  <2> HIDE DEF F
  <2>5. QED
    BY <2>2, <2>3, <2>4
<1>3. d = [c EXCEPT !.failed[j.kind] = F, !.ranges[j.kind] = R]
  BY DEF Refused
<1> HIDE DEF d, F, R
<1>4. /\ d.failed = [c.failed EXCEPT ![j.kind] = F]
      /\ d.ranges = [c.ranges EXCEPT ![j.kind] = R]
      /\ d.count = c.count
      /\ d = [failed |-> d.failed, ranges |-> d.ranges, count |-> d.count]
  BY <1>1, <1>3 DEF CacheType
<1>5. d.failed \in [Words -> SUBSET Nat] /\ d.ranges \in [Words -> SUBSET CodedRanges]
  BY <1>1, <1>2, <1>4, FieldsOf
<1>6. d \in CacheType
  BY <1>1, <1>4, <1>5, FieldsOf DEF CacheType
<1>7. \A k \in Words : Coherent(d.failed[k], d.ranges[k])
  <2> TAKE k \in Words
  <2>1. k = j.kind => d.failed[k] = F /\ d.ranges[k] = R
    BY <1>1, <1>4, FieldsOf
  <2>2. k # j.kind => d.failed[k] = c.failed[k] /\ d.ranges[k] = c.ranges[k]
    BY <1>1, <1>4, FieldsOf
  <2>3. QED
    BY <1>1, <1>2, <2>1, <2>2
<1>8. QED
  BY <1>4, <1>6, <1>7 DEF Sound, d

LEMMA ClearedIsSound ==
  ASSUME NEW c, Sound(c), NEW j \in RequestType, j.kind \in Words
  PROVE  Sound(Cleared(c, j)) /\ NoMore(Cleared(c, j), c)
<1>1. c \in CacheType /\ \A k \in Words : Coherent(c.failed[k], c.ranges[k])
  BY DEF Sound
<1> DEFINE d == Cleared(c, j)
           single == j.force /\ j.first = j.last
           F == IF single THEN c.failed[j.kind] \ {j.first} ELSE c.failed[j.kind]
           R == IF single THEN Supported(c.ranges[j.kind], j.first) ELSE c.ranges[j.kind]
           n == IF j.kind = "holding" THEN 0 ELSE c.count[j.kind][j.first]
<1>2. F \in SUBSET Nat /\ R \in SUBSET CodedRanges /\ Coherent(F, R)
  <2>1. /\ c.ranges[j.kind] \in SUBSET CodedRanges /\ Coherent(c.failed[j.kind], c.ranges[j.kind])
        /\ j.first \in Nat /\ c.failed[j.kind] \in SUBSET Nat
    BY <1>1, FieldsOf, RequestIs
  <2>2. /\ Supported(c.ranges[j.kind], j.first) \in SUBSET CodedRanges
        /\ Coherent(c.failed[j.kind] \ {j.first}, Supported(c.ranges[j.kind], j.first))
    BY <2>1, ClearingIsCoherent
  <2>3. QED
    BY <2>1, <2>2
<1>3. d = [c EXCEPT !.failed[j.kind] = F, !.ranges[j.kind] = R, !.count[j.kind][j.first] = n]
  BY DEF Cleared
<1>4. n \in 0 .. Retry /\ n \in {c.count[j.kind][j.first], 0}
  BY <1>1, FieldsOf, RequestIs, Tables
<1> HIDE DEF d, F, R, n, single
<1>5. /\ d.failed = [c.failed EXCEPT ![j.kind] = F]
      /\ d.ranges = [c.ranges EXCEPT ![j.kind] = R]
      /\ d.count = [c.count EXCEPT ![j.kind] = [c.count[j.kind] EXCEPT ![j.first] = n]]
      /\ d = [failed |-> d.failed, ranges |-> d.ranges, count |-> d.count]
  BY <1>1, <1>3 DEF CacheType
<1>6. d.failed \in [Words -> SUBSET Nat] /\ d.ranges \in [Words -> SUBSET CodedRanges]
  BY <1>1, <1>2, <1>5, FieldsOf
<1>7. d.count \in [Words -> [Addresses -> 0 .. Retry]]
  <2>1. [c.count[j.kind] EXCEPT ![j.first] = n] \in [Addresses -> 0 .. Retry]
    BY <1>1, <1>4, FieldsOf
  <2>2. QED
    BY <1>1, <1>5, <2>1, FieldsOf
<1>8. d \in CacheType
  BY <1>5, <1>6, <1>7 DEF CacheType
<1>9. \A k \in Words : Coherent(d.failed[k], d.ranges[k])
  <2> TAKE k \in Words
  <2>1. k = j.kind => d.failed[k] = F /\ d.ranges[k] = R
    BY <1>1, <1>5, FieldsOf
  <2>2. k # j.kind => d.failed[k] = c.failed[k] /\ d.ranges[k] = c.ranges[k]
    BY <1>1, <1>5, FieldsOf
  <2>3. QED
    BY <1>1, <1>2, <2>1, <2>2
<1>10. NoMore(d, c)
  <2>1. \A k \in Words, a \in Addresses : k # j.kind \/ a # j.first => d.count[k][a] = c.count[k][a]
    BY <1>1, <1>5, FieldsOf
  <2>2. \A a \in Addresses : a = j.first => d.count[j.kind][a] = n
    BY <1>1, <1>5, FieldsOf
  <2>3. QED
    BY <1>4, <2>1, <2>2 DEF NoMore
<1>11. QED
  BY <1>8, <1>9, <1>10 DEF Sound, d

-----------------------------------------------------------------------------
(* The invariant                                                           *)

PlanType ==
  /\ phase \in Phases /\ todo \in Seq(RequestType) /\ read \in RequestType \cup {Idle}
  /\ resetting \in BOOLEAN /\ parts \subseteq Version
  /\ report \in ReportType /\ asked \in [Words -> SUBSET Nat]
LinkType ==
  /\ setup \in Setups
  /\ stage \in {"verify", "probe", "prepare", "detect", "connect", "scan", "done"}
  /\ modes \in Seq(Modes) /\ runs \in 1 .. Runs
  /\ resolved \in Modes \cup {"none"} /\ transport \in Modes \cup {"none"}
  /\ client \in {"none", "live", "stale"} /\ open \subseteq Modes
  /\ faults \in 0 .. MaxFaults /\ outcome \in {"none", "scanned", "failed", "cancelled"}

\* The requests made and to be made suit the phase.
AllSuit(p, requests) == \A i \in 1 .. Len(requests) : Suits(p, requests[i])
PlanInv ==
  /\ stage = "scan" => phase # "none"
  /\ stage # "scan" => read = Idle
  /\ AllSuit(phase, todo)
  /\ read # Idle => Suits(phase, read)

\* What holds of the way to the link.  A flow closes what it has opened: at most
\* the connection of the mode it tries, or of the scan, is open.
Known == IF stage = "probe" THEN {Head(modes)} ELSE IF stage = "scan" THEN {transport} ELSE {}
Links ==
  /\ outcome # "none" <=> stage = "done"
  /\ stage = "probe" => modes # <<>>
  /\ resolved = "none" => setup.config = "auto"
  /\ stage \in {"connect", "scan"} => transport \in Modes /\ transport = resolved
  /\ setup.caller = "flow" =>
       /\ stage # "detect" /\ (stage = "prepare" => resolved # "none")
       /\ open \subseteq Known

-----------------------------------------------------------------------------
(* How a request ends                                                      *)

LEMMA JoinIs ==
  ASSUME NEW a \in Seq(RequestType), NEW b \in Seq(RequestType), NEW p, AllSuit(p, a), AllSuit(p, b)
  PROVE  /\ a \o b \in Seq(RequestType) /\ AllSuit(p, a \o b)
         /\ Asks(a) \cup Asks(b) \subseteq Asks(a \o b)
<1>1. /\ a \o b \in Seq(RequestType) /\ Len(a \o b) = Len(a) + Len(b)
      /\ \A i \in 1 .. Len(a) + Len(b) : (a \o b)[i] = IF i <= Len(a) THEN a[i] ELSE b[i - Len(a)]
      /\ Len(a) \in Nat /\ Len(b) \in Nat
  BY ConcatProperties, LenProperties
<1>2. \A m, n \in Nat : \A i \in 1 .. m + n : (i <= m => i \in 1 .. m) /\ (~(i <= m) => i - m \in 1 .. n)
  OBVIOUS
<1>3. \A m, n \in Nat : (\A i \in 1 .. m : i \in 1 .. m + n /\ i <= m)
                       /\ (\A i \in 1 .. n : i + m \in 1 .. m + n /\ ~(i + m <= m) /\ (i + m) - m = i)
  OBVIOUS
<1>4. AllSuit(p, a \o b)
  BY <1>1, <1>2 DEF AllSuit
<1>5. \A i \in 1 .. Len(a) : \E m \in 1 .. Len(a \o b) : (a \o b)[m] = a[i]
  BY <1>1, <1>3
<1>6. \A i \in 1 .. Len(b) : \E m \in 1 .. Len(a \o b) : (a \o b)[m] = b[i]
  <2> TAKE i \in 1 .. Len(b)
  <2>1. (a \o b)[i + Len(a)] = b[i] /\ i + Len(a) \in 1 .. Len(a \o b)
    BY <1>1, <1>3
  <2>2. QED
    BY <2>1
<1>7. QED
  BY <1>1, <1>4, <1>5, <1>6, ZenonT(40) DEF Asks

LEMMA HeadIs ==
  ASSUME NEW s \in Seq(RequestType), s # <<>>, NEW p, AllSuit(p, s)
  PROVE  /\ Head(s) \in RequestType /\ Suits(p, Head(s))
         /\ Tail(s) \in Seq(RequestType) /\ AllSuit(p, Tail(s))
         /\ Asks(s) \subseteq Asks(Tail(s)) \cup (Head(s).first .. Head(s).last)
<1>1. /\ Len(s) \in Nat /\ Len(s) # 0 /\ Len(Tail(s)) = Len(s) - 1
      /\ Head(s) = s[1] /\ \A i \in 1 .. Len(Tail(s)) : Tail(s)[i] = s[i + 1]
      /\ Tail(s) \in Seq(RequestType) /\ Head(s) \in RequestType
  OBVIOUS
<1>2. \A n \in Nat \ {0} : 1 \in 1 .. n /\ (\A i \in 1 .. n - 1 : i + 1 \in 1 .. n)
                          /\ (\A i \in 1 .. n : i = 1 \/ (i - 1 \in 1 .. n - 1 /\ (i - 1) + 1 = i))
  OBVIOUS
<1>3. \A i \in 1 .. Len(s) : s[i] = Head(s) \/ \E m \in 1 .. Len(Tail(s)) : s[i] = Tail(s)[m]
  BY <1>1, <1>2
<1>4. Suits(p, Head(s)) /\ AllSuit(p, Tail(s))
  <2>1. Len(s) \in Nat \ {0}
    BY <1>1
  <2>2. 1 \in 1 .. Len(s) /\ \A i \in 1 .. Len(Tail(s)) : i + 1 \in 1 .. Len(s)
    BY <1>1, <1>2, <2>1
  <2>3. QED
    BY <1>1, <2>2 DEF AllSuit
<1>5. Asks(s) \subseteq Asks(Tail(s)) \cup (Head(s).first .. Head(s).last)
  BY <1>3 DEF Asks
<1>6. QED
  BY <1>1, <1>4, <1>5

LEMMA LosingIs ==
  ASSUME PlanType, NEW j \in RequestType, Suits(phase, j),
         NEW rest \in Seq(RequestType), AllSuit(phase, rest), NEW c, NEW rep,
         Deliver(j, FALSE, c, rep, rest)
  PROVE  /\ phase' = phase /\ read' = Idle /\ cache' = c /\ report' = Lost(j, rep)
         /\ resetting' \in BOOLEAN /\ parts' \subseteq Version
         /\ todo' \in Seq(RequestType) /\ AllSuit(phase, todo')
         /\ phase \in Kinds => Asks(rest) \subseteq Asks(todo')
         /\ j.role = "batch" => (j.first .. j.last) \cap Sought(j.kind) \subseteq Asks(todo')
<1>1. /\ phase' = phase /\ read' = Idle /\ cache' = c /\ report' = Lost(j, rep)
      /\ resetting' \in BOOLEAN /\ parts' \subseteq Version
  BY DEF Deliver, PlanType
<1>2. CASE j.role = "block"
  <2>1. todo' = <<>> /\ phase \notin Kinds
    BY <1>2 DEF Deliver, Suits
  <2>2. <<>> \in Seq(RequestType) /\ Len(<<>>) = 0 /\ 1 .. 0 = {}
    OBVIOUS
  <2>3. QED
    BY <1>1, <1>2, <2>1, <2>2 DEF AllSuit
<1>3. CASE j.role = "batch"
  <2>1. todo' = Probes(j) \o rest /\ phase \in Kinds /\ ~setup.full
    BY <1>3 DEF Deliver, Suits
  <2>2. /\ Probes(j) \in Seq(RequestType)
        /\ (j.first .. j.last) \cap Sought(j.kind) \subseteq Asks(Probes(j))
        /\ \A i \in 1 .. Len(Probes(j)) :
              /\ Probes(j)[i].kind = j.kind /\ Probes(j)[i].role = "probe" /\ Probes(j)[i].force
              /\ Probes(j)[i].first = Probes(j)[i].last /\ Probes(j)[i].first \in Sought(j.kind)
    BY <1>3, ProbesAre
  <2>3. AllSuit(phase, Probes(j))
    <3>1. phase # "raw" /\ j.kind = phase
      BY <2>1 DEF Suits, Kinds, Words, Bits
    <3>2. QED
      BY <2>1, <2>2, <3>1 DEF AllSuit, Suits
  <2>4. QED
    BY <1>1, <2>1, <2>2, <2>3, JoinIs
<1>4. CASE j.role \notin {"block", "batch"}
  <2>1. todo' = rest
    BY <1>4 DEF Deliver
  <2>2. QED
    BY <1>1, <1>4, <2>1
<1>5. QED
  BY <1>2, <1>3, <1>4

LEMMA GainingIs ==
  ASSUME PlanType, NEW j \in RequestType, Suits(phase, j),
         NEW rest \in Seq(RequestType), AllSuit(phase, rest), NEW c, NEW rep,
         Deliver(j, TRUE, c, rep, rest)
  PROVE  /\ phase' = phase /\ read' = Idle /\ cache' = c /\ report' = Found(j, rep)
         /\ resetting' \in BOOLEAN /\ parts' \subseteq Version /\ todo' = rest
  BY DEF Deliver, PlanType, Suits

-----------------------------------------------------------------------------
(* What a step of a request does                                           *)

Base == LinkType /\ Links /\ PlanType /\ PlanInv /\ Sound(cache)

\* Something went wrong that is not the unit's own refusal.
Trouble == faults' < faults \/ ~Reachable
Refusal(j) == ~(j.first .. j.last \subseteq setup.has[j.kind])

\* What is remembered after j: without trouble no count has grown.
Remembers(c, j) ==
  /\ Sound(c) /\ MoreFor(c, cache, j)
  /\ j.kind \notin Words \/ ~Trouble => NoMore(c, cache)

Gains == /\ ~Refusal(read)
         /\ \E c : Remembers(c, read) /\ Deliver(read, TRUE, c, report, todo)
Loses(j, rest) ==
  \E c, rep : Remembers(c, j) /\ Worse(rep, report, j.kind) /\ Deliver(j, FALSE, c, rep, rest)
Again ==
  /\ Remembers(cache', read) /\ Worse(report', report, read.kind)
  /\ read' \in RequestType
  /\ read'.kind = read.kind /\ read'.first = read.first /\ read'.last = read.last
  /\ read'.force = read.force /\ read'.role = read.role
  /\ UNCHANGED <<phase, todo, resetting, parts>>

SameScan == UNCHANGED <<setup, stage, modes, runs, resolved, transport, outcome>>
LinkKept == /\ open' \subseteq open \cup {transport}
            /\ client' \in {"none", "live", "stale"} /\ (client' = client \/ Trouble)
            /\ faults' \in 0 .. MaxFaults /\ faults' <= faults
ReadEffect ==
  /\ stage = "scan" /\ read \in RequestType /\ Suits(phase, read)
  /\ SameScan /\ UNCHANGED asked /\ LinkKept
  /\ Gains \/ ((Trouble \/ Refusal(read)) /\ (Loses(read, todo) \/ Again))

LEMMA WorseIs ==
  ASSUME NEW rep, NEW k \in Kinds, Worse(rep, report, k), NEW X \in SUBSET Nat
  PROVE  Worse(Excepted(rep, k, X), report, k)
  BY ExceptedIs DEF Worse

LEMMA SameIsWorse ==
  ASSUME report \in ReportType, NEW k
  PROVE  Worse(report, report, k)
  BY DEF Worse

\* A request that is given up, and one that may be tried again.
LEMMA GivingUp ==
  ASSUME Base, read \in RequestType, NEW aborted \in BOOLEAN,
         NEW c, Remembers(c, read), NEW rep, Worse(rep, report, read.kind),
         GiveUp(aborted, c, rep)
  PROVE  Loses(read, todo)
<1>1. read.kind \in Kinds /\ read.first .. read.last \in SUBSET Nat
  BY RequestIs
<1>2. Worse(Excepted(rep, read.kind, read.first .. read.last), report, read.kind)
  BY <1>1, WorseIs
<1>3. QED
  BY <1>2 DEF GiveUp, Loses

LEMMA TryingAgain ==
  ASSUME Base, read \in RequestType, NEW aborted \in BOOLEAN,
         NEW c, Remembers(c, read), NEW rep, Worse(rep, report, read.kind),
         NextAttempt(aborted, c, rep)
  PROVE  Loses(read, todo) \/ Again
<1>1. CASE read.attempt < Retry
  <2>1. /\ read' = [read EXCEPT !.attempt = @ + 1, !.aborted = aborted]
        /\ cache' = c /\ report' = rep /\ UNCHANGED <<phase, todo, resetting, parts>>
    BY <1>1 DEF NextAttempt
  <2>2. read.attempt + 1 \in 1 .. Retry
    BY <1>1, RequestIs, Tables
  <2>3. /\ read'.kind = read.kind /\ read'.first = read.first /\ read'.last = read.last
        /\ read'.force = read.force /\ read'.role = read.role
        /\ read' \in RequestType
    BY <2>1, <2>2 DEF RequestType
  <2>4. QED
    BY <2>1, <2>3 DEF Again
<1>2. CASE ~(read.attempt < Retry)
  BY <1>2, GivingUp DEF NextAttempt
<1>3. QED
  BY <1>1, <1>2

LEMMA Remembered ==
  ASSUME Base, NEW j \in RequestType
  PROVE  /\ Remembers(cache, j)
         /\ j.kind \in Words => Remembers(Cleared(cache, j), j) /\ Remembers(Refused(cache, j, 2), j)
         /\ j.kind \in Words /\ Trouble =>
              /\ Remembers(Tracked(cache, j), j)
              /\ Remembers(Refused(cache, j, 6), j)
              /\ Remembers(Refused(Tracked(cache, j), j, 6), j)
<1>1. Sound(cache) /\ 2 \in {2, 6} /\ 6 \in {2, 6}
  BY DEF Base
<1>2. \A c, d : NoMore(c, d) => MoreFor(c, d, j)
  BY DEF NoMore, MoreFor
<1>3. \A c : c.count = cache.count => NoMore(c, cache)
  BY DEF NoMore
<1>4. ASSUME j.kind \in Words
      PROVE  /\ Sound(Tracked(cache, j)) /\ MoreFor(Tracked(cache, j), cache, j)
             /\ Sound(Cleared(cache, j)) /\ NoMore(Cleared(cache, j), cache)
             /\ Sound(Refused(cache, j, 2)) /\ Refused(cache, j, 2).count = cache.count
             /\ Sound(Refused(cache, j, 6)) /\ Refused(cache, j, 6).count = cache.count
             /\ Sound(Refused(Tracked(cache, j), j, 6))
             /\ Refused(Tracked(cache, j), j, 6).count = Tracked(cache, j).count
  BY <1>1, <1>4, TrackedIsSound, ClearedIsSound, RefusedIsSound
<1>5. j.kind \in Words => MoreFor(Refused(Tracked(cache, j), j, 6), cache, j)
  BY <1>4 DEF MoreFor
<1>6. QED
  BY <1>1, <1>2, <1>3, <1>4, <1>5 DEF Remembers

LEMMA TrackedReportIsWorse ==
  ASSUME Base, NEW j \in RequestType, j.kind \in Words
  PROVE  Worse(TrackedReport(j), report, j.kind)
<1>1. Tracked(cache, j) \in CacheType /\ j.kind \in Kinds /\ report \in ReportType
  BY TrackedIsSound, RequestIs DEF Base, Sound, PlanType
<1>2. Tracked(cache, j).failed[j.kind] \ cache.failed[j.kind] \in SUBSET Nat
  BY <1>1, FieldsOf
<1>3. QED
  BY <1>1, <1>2, SameIsWorse, WorseIs DEF TrackedReport

LEMMA Spending ==
  ASSUME LinkType, NEW free \in BOOLEAN, Spend(free)
  PROVE  /\ faults' \in 0 .. MaxFaults /\ faults' <= faults
         /\ free \/ faults' < faults
         /\ faults' # faults => faults' < faults
<1>1. faults \in 0 .. MaxFaults /\ MaxFaults \in Nat
  BY Tables DEF LinkType
<1>2. CASE free /\ faults' = faults
  BY <1>1, <1>2
<1>3. CASE ~free /\ faults > 0 /\ faults' = faults - 1
  BY <1>1, <1>3
<1>4. QED
  BY <1>2, <1>3 DEF Spend, CanFault

LEMMA ReadingIs ==
  ASSUME Base, NEW kinds \in {Words, Bits, Kinds}, Reading(kinds)
  PROVE  /\ stage = "scan" /\ read \in RequestType /\ Suits(phase, read)
         /\ read.kind \in kinds /\ read.kind \in Kinds
         /\ (Dialled => open' \subseteq open \cup {transport})
         /\ (client' = client => client' \in {"none", "live", "stale"})
         /\ UNCHANGED faults => faults' \in 0 .. MaxFaults /\ faults' <= faults
<1>1. faults \in 0 .. MaxFaults /\ MaxFaults \in Nat /\ client \in {"none", "live", "stale"}
  BY Tables DEF Base, LinkType
<1>2. UNCHANGED faults => faults' \in 0 .. MaxFaults /\ faults' <= faults
  BY <1>1
<1>3. read \in RequestType
  BY DEF Base, PlanType, Reading
<1>4. QED
  BY <1>1, <1>2, <1>3, RequestIs DEF Base, PlanInv, Reading, Scanning, Dialled

LEMMA AnsweredIs == ASSUME Base, Answered PROVE ReadEffect
<1>1. /\ stage = "scan" /\ read \in RequestType /\ Suits(phase, read) /\ read.kind \in Kinds
      /\ SameScan /\ UNCHANGED asked /\ LinkKept
  <2>1. Reading(Kinds)
    BY DEF Answered
  <2>2. Dialled /\ SameLink /\ UNCHANGED faults
    BY DEF Answered
  <2>3. QED
    BY <2>1, <2>2, ReadingIs DEF LinkKept, SameLink, SameScan
<1>2. ~Refusal(read)
  BY DEF Answered, Refusal
<1>3. CASE read.kind \in Words
  BY <1>1, <1>2, <1>3, Remembered DEF Answered, ReadEffect, Gains
<1>4. CASE read.kind \notin Words
  BY <1>1, <1>2, <1>4, Remembered DEF Answered, ReadEffect, Gains
<1>5. QED
  BY <1>3, <1>4

\* The steps that ask for the same word request again or lose it.
LEMMA WordIs ==
  ASSUME Base,
         WordRejected \/ WordRefusedOtherwise \/ WordTimesOut \/ WordCancelled \/ WordModbusError
  PROVE  ReadEffect
<1>1. /\ stage = "scan" /\ read \in RequestType /\ Suits(phase, read)
      /\ read.kind \in Words /\ read.kind \in Kinds
      /\ SameScan /\ UNCHANGED asked
      /\ open' \subseteq open \cup {transport}
      /\ client' \in {"none", "live", "stale"} /\ client' = client
      /\ UNCHANGED faults => faults' \in 0 .. MaxFaults /\ faults' <= faults
  <2>1. Reading(Words) /\ Dialled /\ SameLink
    BY DEF WordRejected, WordRefusedOtherwise, WordTimesOut, WordCancelled, WordModbusError
  <2>2. QED
    BY <2>1, ReadingIs DEF SameLink, SameScan
<1>2. /\ read.aborted \in BOOLEAN /\ TRUE \in BOOLEAN
      /\ read.first .. read.last \in SUBSET Nat /\ {read.first} \in SUBSET Nat
  BY <1>1, RequestIs
<1>3. LinkType /\ report \in ReportType
  BY DEF Base, PlanType
<1>4. /\ Worse(report, report, read.kind) /\ Worse(TrackedReport(read), report, read.kind)
      /\ \A X \in SUBSET Nat : Worse(Excepted(report, read.kind, X), report, read.kind)
  BY <1>1, <1>3, SameIsWorse, TrackedReportIsWorse, WorseIs
<1>5. Remembers(cache, read) /\ Remembers(Refused(cache, read, 2), read)
  BY <1>1, Remembered
<1>6. CASE WordRejected
  <2>1. Refusal(read) /\ UNCHANGED faults
    BY <1>6 DEF WordRejected, Refusal
  <2>2. Loses(read, todo)
    BY <1>2, <1>4, <1>5, <1>6 DEF WordRejected, Loses
  <2>3. QED
    BY <1>1, <2>1, <2>2 DEF ReadEffect, LinkKept
<1>7. ASSUME NEW free \in BOOLEAN, Spend(free), free => ~Reachable
      PROVE  Trouble /\ LinkKept
  BY <1>1, <1>3, <1>7, Spending DEF Trouble, LinkKept
<1>8. CASE WordRefusedOtherwise
  <2>1. Trouble /\ LinkKept
    BY <1>7, <1>8 DEF WordRefusedOtherwise
  <2>2. /\ Remembers(Tracked(cache, read), read) /\ Remembers(Refused(cache, read, 6), read)
        /\ Remembers(Refused(Tracked(cache, read), read, 6), read)
    BY <1>1, <2>1, Remembered
  <2>3. CASE read.kind = "input"
    BY <1>1, <1>2, <1>4, <1>8, <2>1, <2>2, <2>3 DEF WordRefusedOtherwise, ReadEffect, Loses
  <2>4. CASE read.kind = "holding"
    <3> DEFINE c == Tracked(cache, read)
    <3>1. CASE read.first = read.last /\ read.first \in c.failed["holding"]
      <4>1. Deliver(read, FALSE, Refused(c, read, 6), Excepted(report, read.kind, {read.first}), todo)
        BY <1>8, <2>4, <3>1 DEF WordRefusedOtherwise
      <4> HIDE DEF c
      <4>2. QED
        BY <1>1, <1>2, <1>4, <2>1, <2>2, <4>1 DEF ReadEffect, Loses, c
    <3>2. CASE ~(read.first = read.last /\ read.first \in c.failed["holding"])
      <4>1. NextAttempt(read.aborted, c, TrackedReport(read))
        BY <1>8, <2>4, <3>2 DEF WordRefusedOtherwise
      <4> HIDE DEF c
      <4>2. Remembers(c, read)
        BY <2>2 DEF c
      <4>3. Loses(read, todo) \/ Again
        BY <1>1, <1>2, <1>4, <4>1, <4>2, TryingAgain
      <4>4. QED
        BY <1>1, <2>1, <4>3 DEF ReadEffect
    <3>3. QED
      BY <3>1, <3>2
  <2>5. QED
    BY <1>1, <2>3, <2>4 DEF Words
<1>9. CASE WordTimesOut
  <2>1. Trouble /\ LinkKept
    <3>1. transport # setup.speaks => ~Reachable
      BY DEF Reachable
    <3>2. QED
      BY <1>7, <1>9, <3>1 DEF WordTimesOut, Timeout
  <2>2. Remembers(Tracked(cache, read), read)
    BY <1>1, <2>1, Remembered
  <2>3. CASE read.kind = "input"
    <3>1. Loses(read, todo)
      BY <1>1, <1>2, <1>4, <1>5, <1>9, <2>3, GivingUp DEF WordTimesOut
    <3>2. QED
      BY <1>1, <2>1, <3>1 DEF ReadEffect
  <2>4. CASE read.kind # "input"
    <3>1. Loses(read, todo) \/ Again
      BY <1>1, <1>2, <1>4, <1>9, <2>2, <2>4, TryingAgain DEF WordTimesOut
    <3>2. QED
      BY <1>1, <2>1, <3>1 DEF ReadEffect
  <2>5. QED
    BY <2>3, <2>4
<1>10. CASE WordCancelled
  <2>1. Trouble /\ LinkKept
    BY <1>7, <1>10 DEF WordCancelled
  <2>2. Loses(read, todo)
    BY <1>1, <1>2, <1>4, <1>5, <1>10, GivingUp DEF WordCancelled
  <2>3. QED
    BY <1>1, <2>1, <2>2 DEF ReadEffect
<1>11. CASE WordModbusError
  <2>1. Trouble /\ LinkKept
    BY <1>7, <1>11 DEF WordModbusError, LinkError
  <2>2. Remembers(Tracked(cache, read), read)
    BY <1>1, <2>1, Remembered
  <2>3. Loses(read, todo) \/ Again
    BY <1>1, <1>2, <1>4, <1>11, <2>2, TryingAgain DEF WordModbusError
  <2>4. QED
    BY <1>1, <2>1, <2>3 DEF ReadEffect
<1>12. QED
  BY <1>6, <1>8, <1>9, <1>10, <1>11

\* The same for bit requests, and for an OSError.
LEMMA BitIs ==
  ASSUME Base, OsError \/ BitUnanswered \/ BitModbusError
  PROVE  ReadEffect
<1>1. /\ stage = "scan" /\ read \in RequestType /\ Suits(phase, read) /\ read.kind \in Kinds
      /\ SameScan /\ UNCHANGED asked
      /\ open' \subseteq open \cup {transport}
      /\ client' \in {"none", "live", "stale"}
      /\ UNCHANGED faults => faults' \in 0 .. MaxFaults /\ faults' <= faults
  <2>1. Reading(Kinds) \/ Reading(Bits)
    BY DEF OsError, BitUnanswered, BitModbusError
  <2>2. OsError \/ BitUnanswered => SameLink /\ open' = open
    BY DEF OsError, BitUnanswered
  <2>3. BitModbusError => SameScan /\ UNCHANGED asked /\ open' \subseteq open \cup {transport}
                          /\ client' \in {"none", "live", "stale"}
    BY DEF BitModbusError, SameScan
  <2>4. /\ stage = "scan" /\ read \in RequestType /\ Suits(phase, read) /\ read.kind \in Kinds
        /\ (client' = client => client' \in {"none", "live", "stale"})
        /\ UNCHANGED faults => faults' \in 0 .. MaxFaults /\ faults' <= faults
    BY <2>1, ReadingIs
  <2>5. QED
    BY <2>2, <2>3, <2>4 DEF SameLink, SameScan
<1>2. LinkType /\ report \in ReportType /\ TRUE \in BOOLEAN /\ FALSE \in BOOLEAN
  BY DEF Base, PlanType
<1>3. Worse(report, report, read.kind) /\ Remembers(cache, read)
  BY <1>1, <1>2, SameIsWorse, Remembered
<1>4. ASSUME NEW free \in BOOLEAN, Spend(free), free => ~Reachable
      PROVE  Trouble /\ LinkKept
  BY <1>1, <1>2, <1>4, Spending DEF Trouble, LinkKept
<1>5. CASE OsError
  <2>1. Trouble /\ LinkKept
    BY <1>4, <1>5 DEF OsError
  <2>2. read.aborted \in BOOLEAN
    BY <1>1 DEF RequestType
  <2>3. Loses(read, todo)
    BY <1>1, <1>2, <1>3, <1>5, <2>2, GivingUp DEF OsError
  <2>4. QED
    BY <1>1, <2>1, <2>3 DEF ReadEffect
<1>6. CASE BitUnanswered
  <2>1. Loses(read, todo) \/ Again
    BY <1>1, <1>2, <1>3, <1>6, TryingAgain DEF BitUnanswered
  <2>2. client' = client
    BY <1>6 DEF BitUnanswered, SameLink
  <2>3. CASE Reachable /\ Refusal(read)
    <3>1. UNCHANGED faults
      BY <1>6, <2>3 DEF BitUnanswered, Refusal
    <3>2. QED
      BY <1>1, <2>1, <2>2, <2>3, <3>1 DEF ReadEffect, LinkKept
  <2>4. CASE ~(Reachable /\ Refusal(read))
    <3>1. Timeout
      BY <1>6, <2>4 DEF BitUnanswered, Refusal
    <3>2. transport # setup.speaks => ~Reachable
      BY DEF Reachable
    <3>3. Trouble /\ LinkKept
      BY <1>4, <3>1, <3>2 DEF Timeout
    <3>4. QED
      BY <1>1, <2>1, <3>3 DEF ReadEffect
  <2>5. QED
    BY <2>3, <2>4
<1>7. CASE BitModbusError
  <2>1. Trouble /\ LinkKept
    BY <1>4, <1>7 DEF BitModbusError, LinkError
  <2>2. Loses(read, todo) \/ Again
    BY <1>1, <1>2, <1>3, <1>7, TryingAgain DEF BitModbusError
  <2>3. QED
    BY <1>1, <2>1, <2>2 DEF ReadEffect
<1>8. QED
  BY <1>5, <1>6, <1>7

\* The next request is made, or answered from the memory of failures.
Takes ==
  /\ read' = Head(todo) /\ todo' = Tail(todo)
  /\ UNCHANGED <<phase, resetting, parts, cache, report>>
  /\ asked' \in [Words -> SUBSET Nat] /\ \A k \in Words : asked[k] \subseteq asked'[k]
  /\ Head(todo).kind \in Words /\ Head(todo).first = Head(todo).last =>
       Head(todo).first \in asked'[Head(todo).kind]
Skips ==
  /\ Loses(Head(todo), Tail(todo)) /\ UNCHANGED <<cache, asked>>
  /\ Head(todo).kind \in Words
  /\ Head(todo).force => /\ Head(todo).kind = "holding"
                         /\ cache.count["holding"][Head(todo).first] >= Retry
BeginEffect ==
  /\ stage = "scan" /\ read = Idle /\ todo # <<>>
  /\ SameScan /\ UNCHANGED <<client, open, faults>>
  /\ Takes \/ Skips

LEMMA SkippedIs ==
  ASSUME Base, NEW j \in RequestType, j.kind \in Words
  PROVE  /\ Skipped(j) \in SUBSET Nat
         /\ j.force /\ Skipped(j) # {} => j.kind = "holding" /\ cache.count["holding"][j.first] >= Retry
<1>1. cache.failed[j.kind] \in SUBSET Nat
  BY FieldsOf DEF Base, Sound
<1>2. FailedAround(cache.failed[j.kind], j) \subseteq cache.failed[j.kind]
  BY DEF FailedAround
<1>3. SkipRange(j) \in SUBSET Nat
  BY <1>1, <1>2, RequestIs DEF SkipRange
<1>4. j.force => SkipRange(j) = {}
  BY DEF SkipRange
<1>5. {j.first} \in SUBSET Nat
  BY RequestIs
<1>6. QED
  BY <1>3, <1>4, <1>5 DEF Skipped, GivenUp

LEMMA BeginIs == ASSUME Base, BeginRequest PROVE BeginEffect
<1> DEFINE j == Head(todo)
           rest == Tail(todo)
<1>1. /\ stage = "scan" /\ read = Idle /\ todo # <<>>
      /\ SameScan /\ UNCHANGED <<client, open, faults>>
  BY DEF BeginRequest, Scanning, SameScan, link
<1>2. j \in RequestType /\ j.kind \in Kinds /\ j.first \in Nat
  <2>1. j \in RequestType
    BY <1>1, HeadIs DEF Base, PlanType, PlanInv
  <2> HIDE DEF j
  <2>2. QED
    BY <2>1, RequestIs
<1>3. CASE j.kind \in Words /\ Skipped(j) # {}
  <2>1. Deliver(j, FALSE, cache, Excepted(report, j.kind, Skipped(j)), rest) /\ asked' = asked
    BY <1>3 DEF BeginRequest
  <2> HIDE DEF j, rest
  <2>2. /\ Skipped(j) \in SUBSET Nat
        /\ j.force => j.kind = "holding" /\ cache.count["holding"][j.first] >= Retry
    BY <1>2, <1>3, SkippedIs
  <2>3. Worse(Excepted(report, j.kind, Skipped(j)), report, j.kind) /\ Remembers(cache, j)
    BY <1>2, <2>2, SameIsWorse, WorseIs, Remembered DEF Base, PlanType
  <2>4. Loses(j, rest) /\ cache' = cache
    BY <2>1, <2>3 DEF Loses, Deliver
  <2>5. Skips
    BY <1>3, <2>1, <2>2, <2>4 DEF Skips, j, rest
  <2>6. QED
    BY <1>1, <2>5 DEF BeginEffect
<1>4. CASE ~(j.kind \in Words /\ Skipped(j) # {})
  <2>1. /\ read' = j /\ todo' = rest /\ UNCHANGED <<phase, resetting, parts, cache, report>>
        /\ asked' = IF j.kind \in Words /\ j.first = j.last
                    THEN [asked EXCEPT ![j.kind] = @ \cup {j.first}] ELSE asked
    BY <1>4 DEF BeginRequest
  <2>2. asked \in [Words -> SUBSET Nat]
    BY DEF Base, PlanType
  <2> HIDE DEF j, rest
  <2>3. /\ asked' \in [Words -> SUBSET Nat] /\ \A k \in Words : asked[k] \subseteq asked'[k]
        /\ j.kind \in Words /\ j.first = j.last => j.first \in asked'[j.kind]
    BY <1>2, <2>1, <2>2
  <2>4. Takes
    BY <2>1, <2>3 DEF Takes, j, rest
  <2>5. QED
    BY <1>1, <2>4 DEF BeginEffect
<1>5. QED
  BY <1>3, <1>4

-----------------------------------------------------------------------------
(* Every step keeps the plan and the way to the link                       *)

\* What is kept of a plan when the unit and the configuration are the same.
LEMMA SuitedStill ==
  ASSUME setup' = setup, AllSuit(phase', todo'), stage' = "scan" => phase' # "none",
         stage' # "scan" => read' = Idle, read' # Idle => Suits(phase', read')
  PROVE  PlanInv'
BY DEF PlanInv, AllSuit, Suits, Sought, LeftOut

LEMMA SoundStill == ASSUME Sound(cache') PROVE Sound(cache)'
BY DEF Sound, Coherent

\* The link after a step of the scan that stays in it.
LEMMA LinkInScan ==
  ASSUME LinkType, Links, stage = "scan", SameScan,
         open' \subseteq open \cup {transport}, client' \in {"none", "live", "stale"},
         faults' \in 0 .. MaxFaults
  PROVE  LinkType' /\ Links'
<1>1. transport \in Modes /\ transport = resolved
  BY DEF Links
<1>2. LinkType'
  BY <1>1 DEF LinkType, SameScan
<1>3. setup.caller = "flow" => open' \subseteq {transport}
  BY DEF Links, Known
<1>4. QED
  BY <1>1, <1>2, <1>3 DEF Links, Known, SameScan

LEMMA ReadKeepsBase == ASSUME Base, ReadEffect PROVE Base'
<1>1. LinkType' /\ Links'
  BY LinkInScan DEF Base, ReadEffect, LinkKept
<1>2. /\ setup' = setup /\ stage' = stage /\ stage = "scan" /\ asked' = asked
      /\ read \in RequestType /\ Suits(phase, read)
      /\ PlanType /\ PlanInv /\ phase \in Phases
  BY DEF Base, ReadEffect, SameScan, PlanType
<1>3. todo \in Seq(RequestType) /\ AllSuit(phase, todo) /\ phase # "none"
  BY <1>2 DEF PlanType, PlanInv
<1>4. CASE Gains
  <2>1. PICK c : Remembers(c, read) /\ Deliver(read, TRUE, c, report, todo)
    BY <1>4 DEF Gains
  <2>2. /\ phase' = phase /\ read' = Idle /\ cache' = c /\ report' = Found(read, report)
        /\ resetting' \in BOOLEAN /\ parts' \subseteq Version /\ todo' = todo
    BY <1>2, <1>3, <2>1, GainingIs
  <2>3. Found(read, report) \in ReportType
    <3>1. read.role = "probe" => read.first = read.last /\ read.first \in Sought(read.kind)
      BY <1>2 DEF Suits
    <3>2. report \in ReportType
      BY <1>2 DEF PlanType
    <3>3. QED
      BY <1>2, <3>1, <3>2, FoundIs DEF Better
  <2>4. PlanType'
    BY <1>2, <1>3, <2>2, <2>3 DEF PlanType
  <2>5. PlanInv'
    BY <1>2, <1>3, <2>2, SuitedStill
  <2>6. Sound(cache)'
    BY <2>1, <2>2, SoundStill DEF Remembers
  <2>7. QED
    BY <1>1, <2>4, <2>5, <2>6 DEF Base
<1>5. CASE Loses(read, todo)
  <2>1. PICK c, rep : Remembers(c, read) /\ Worse(rep, report, read.kind) /\ Deliver(read, FALSE, c, rep, todo)
    BY <1>5 DEF Loses
  <2>2. /\ phase' = phase /\ read' = Idle /\ cache' = c /\ report' = Lost(read, rep)
        /\ resetting' \in BOOLEAN /\ parts' \subseteq Version
        /\ todo' \in Seq(RequestType) /\ AllSuit(phase, todo')
    BY <1>2, <1>3, <2>1, LosingIs
  <2>3. Lost(read, rep) \in ReportType
    BY <1>2, <2>1, LostIs DEF Worse
  <2>4. PlanType'
    BY <1>2, <1>3, <2>2, <2>3 DEF PlanType
  <2>5. PlanInv'
    BY <1>2, <1>3, <2>2, SuitedStill
  <2>6. Sound(cache)'
    BY <2>1, <2>2, SoundStill DEF Remembers
  <2>7. QED
    BY <1>1, <2>4, <2>5, <2>6 DEF Base
<1>6. CASE Again
  <2>1. PlanType'
    BY <1>2, <1>6 DEF Again, Worse, PlanType
  <2>2. PlanInv'
    <3>1. Suits(phase', read')
      BY <1>2, <1>6 DEF Again, Suits
    <3>2. QED
      BY <1>2, <1>3, <1>6, <3>1, SuitedStill DEF Again
  <2>3. Sound(cache)'
    BY <1>6, SoundStill DEF Again, Remembers
  <2>4. QED
    BY <1>1, <2>1, <2>2, <2>3 DEF Base
<1>7. QED
  BY <1>4, <1>5, <1>6 DEF ReadEffect

LEMMA BeginKeepsBase == ASSUME Base, BeginEffect PROVE Base'
<1>1. /\ stage = "scan" /\ SameScan /\ UNCHANGED <<client, open, faults>>
      /\ LinkType /\ Links /\ PlanType /\ PlanInv /\ Sound(cache) /\ todo # <<>>
  BY DEF Base, BeginEffect
<1>2. faults' \in 0 .. MaxFaults /\ client' \in {"none", "live", "stale"} /\ open' = open
  BY <1>1 DEF LinkType
<1>3. LinkType' /\ Links'
  BY <1>1, <1>2, LinkInScan
<1>4. /\ setup' = setup /\ stage' = stage /\ phase \in Phases /\ phase # "none"
      /\ todo \in Seq(RequestType) /\ AllSuit(phase, todo)
  BY <1>1 DEF SameScan, PlanType, PlanInv
<1>5. /\ Head(todo) \in RequestType /\ Suits(phase, Head(todo))
      /\ Tail(todo) \in Seq(RequestType) /\ AllSuit(phase, Tail(todo))
  BY <1>1, <1>4, HeadIs
<1>6. CASE Takes
  <2>1. PlanType'
    BY <1>1, <1>5, <1>6 DEF Takes, PlanType
  <2>2. PlanInv'
    BY <1>1, <1>4, <1>5, <1>6, SuitedStill DEF Takes
  <2>3. Sound(cache)'
    BY <1>1, <1>6, SoundStill DEF Takes
  <2>4. QED
    BY <1>3, <2>1, <2>2, <2>3 DEF Base
<1>7. CASE Skips
  <2> DEFINE j == Head(todo)
             rest == Tail(todo)
  <2> HIDE DEF j, rest
  <2>1. /\ j \in RequestType /\ Suits(phase, j) /\ rest \in Seq(RequestType) /\ AllSuit(phase, rest)
        /\ Loses(j, rest) /\ cache' = cache /\ asked' = asked
    BY <1>5, <1>7 DEF Skips, j, rest
  <2>2. PICK c, rep : Remembers(c, j) /\ Worse(rep, report, j.kind) /\ Deliver(j, FALSE, c, rep, rest)
    BY <2>1 DEF Loses
  <2>3. /\ phase' = phase /\ read' = Idle /\ cache' = c /\ report' = Lost(j, rep)
        /\ resetting' \in BOOLEAN /\ parts' \subseteq Version
        /\ todo' \in Seq(RequestType) /\ AllSuit(phase, todo')
    BY <1>1, <2>1, <2>2, LosingIs
  <2>4. Lost(j, rep) \in ReportType
    BY <2>1, <2>2, LostIs DEF Worse
  <2>5. PlanType'
    BY <1>1, <1>4, <2>1, <2>3, <2>4 DEF PlanType
  <2>6. PlanInv'
    BY <1>1, <1>4, <2>3, SuitedStill
  <2>7. Sound(cache)'
    BY <1>1, <2>1, SoundStill
  <2>8. QED
    BY <1>3, <2>5, <2>6, <2>7 DEF Base
<1>8. QED
  BY <1>6, <1>7 DEF BeginEffect

LEMMA ResetKeepsBase == ASSUME Base, ResetTransport PROVE Base'
<1>1. /\ stage = "scan" /\ SameScan /\ UNCHANGED <<phase, todo, read, parts, cache, report, asked>>
      /\ resetting' = FALSE
      /\ LinkType /\ Links /\ PlanType /\ PlanInv /\ Sound(cache)
  BY DEF Base, ResetTransport, SameScan
<1>2. /\ open' \subseteq open \cup {transport} /\ client' \in {"none", "live", "stale"}
      /\ faults' = faults \/ Spend(FALSE)
  BY DEF ResetTransport
<1>3. faults' \in 0 .. MaxFaults
  BY <1>1, <1>2, Spending DEF LinkType
<1>4. LinkType' /\ Links'
  BY <1>1, <1>2, <1>3, LinkInScan
<1>5. PlanType' /\ Sound(cache)'
  BY <1>1, SoundStill DEF PlanType
<1>6. PlanInv'
  BY <1>1, SuitedStill DEF PlanInv, SameScan
<1>7. QED
  BY <1>4, <1>5, <1>6 DEF Base

LEMMA FollowingIs ==
  ASSUME NEW p \in Phases \ {"none", "raw"}
  PROVE  Following(p) \in Phases \ {"none", "info"}
BY DEF Following, Phases, Kinds, Words, Bits

LEMMA AlarmsFoundIs ==
  ASSUME report \in ReportType
  PROVE  /\ AlarmsFound(report) \in ReportType
         /\ AlarmsFound(report).exceptions = report.exceptions
         /\ AlarmsFound(report).invalid = report.invalid
         /\ AlarmsFound(report).batch = report.batch
         /\ AlarmsFound(report).before = report.before
         /\ \A k \in Kinds :
              AlarmsFound(report).available[k] =
                report.available[k] \cup
                (IF k = "holding" /\ phase = "holding" /\ ~setup.full
                 THEN Alarms \ report.exceptions["holding"] ELSE {})
<1>1. "holding" \in Kinds /\ Alarms \ report.exceptions["holding"] \in SUBSET Nat
  BY AddressAssumption DEF Kinds, Words
<1>2. CASE phase = "holding" /\ ~setup.full
  <2> DEFINE X == Alarms \ report.exceptions["holding"]
             r == AlarmsFound(report)
  <2>1. r = [report EXCEPT !.available["holding"] = @ \cup X]
    BY <1>2 DEF AlarmsFound
  <2> HIDE DEF r
  <2>2. X \in SUBSET Nat
    BY <1>1
  <2> HIDE DEF X
  <2>3. /\ r.available = [report.available EXCEPT !["holding"] = @ \cup X]
        /\ r.exceptions = report.exceptions /\ r.invalid = report.invalid
        /\ r.batch = report.batch /\ r.before = report.before /\ r.raw = report.raw
        /\ r = [available |-> r.available, exceptions |-> r.exceptions, invalid |-> r.invalid,
                batch |-> r.batch, raw |-> r.raw, before |-> r.before]
    BY <2>1 DEF ReportType
  <2>4. report.available \in [Kinds -> SUBSET Nat]
    BY DEF ReportType
  <2>5. r.available \in [Kinds -> SUBSET Nat]
    BY <1>1, <2>2, <2>3, <2>4
  <2>6. r \in ReportType
    BY <2>3, <2>5 DEF ReportType
  <2>7. \A k \in Kinds : r.available[k] = report.available[k] \cup (IF k = "holding" THEN X ELSE {})
    BY <2>3, <2>4
  <2>8. QED
    BY <1>2, <2>3, <2>6, <2>7 DEF r, X
<1>3. CASE ~(phase = "holding" /\ ~setup.full)
  BY <1>3 DEF AlarmsFound
<1>4. QED
  BY <1>2, <1>3

\* The report of the next phase, and the report of the result.
LEMMA BeforeIs ==
  ASSUME report \in ReportType, NEW r, r = [report EXCEPT !.before = report.exceptions["input"]]
  PROVE  /\ r \in ReportType /\ r.available = report.available /\ r.exceptions = report.exceptions
         /\ r.invalid = report.invalid /\ r.batch = report.batch
         /\ r.before = report.exceptions["input"]
<1>1. "input" \in Kinds
  BY DEF Kinds, Words
<1>2. report.exceptions["input"] \in SUBSET Nat
  BY <1>1 DEF ReportType
<1>3. QED
  BY <1>2 DEF ReportType

LEMMA ResultIs ==
  ASSUME report \in ReportType,
         NEW r, r = [report EXCEPT !.raw = @ \cup (report.exceptions["input"] \ report.before),
                                   !.exceptions["input"] = report.before]
  PROVE  /\ r \in ReportType /\ r.available = report.available /\ r.invalid = report.invalid
         /\ r.batch = report.batch /\ r.exceptions["input"] = report.before
         /\ \A k \in Kinds \ {"input"} : r.exceptions[k] = report.exceptions[k]
<1>1. "input" \in Kinds
  BY DEF Kinds, Words
<1>2. /\ report.exceptions["input"] \ report.before \in SUBSET Nat /\ report.before \in SUBSET Nat
      /\ report.exceptions \in [Kinds -> SUBSET Nat] /\ report.raw \in SUBSET Nat
  BY <1>1 DEF ReportType
<1>3. /\ r.raw = report.raw \cup (report.exceptions["input"] \ report.before)
      /\ r.exceptions = [report.exceptions EXCEPT !["input"] = report.before]
      /\ r.available = report.available /\ r.invalid = report.invalid
      /\ r.batch = report.batch /\ r.before = report.before
      /\ r = [available |-> r.available, exceptions |-> r.exceptions, invalid |-> r.invalid,
              batch |-> r.batch, raw |-> r.raw, before |-> r.before]
  BY DEF ReportType
<1>4. r.exceptions \in [Kinds -> SUBSET Nat] /\ r.raw \in SUBSET Nat
  BY <1>2, <1>3
<1>5. r \in ReportType
  BY <1>3, <1>4 DEF ReportType
<1>6. QED
  BY <1>1, <1>2, <1>3, <1>5

\* What NextPhase does to the plan.
LEMMA NextPhaseIs ==
  ASSUME Base, NextPhase
  PROVE  /\ stage = "scan" /\ SameScan /\ UNCHANGED <<client, open, faults, read, resetting, parts, cache, asked>>
         /\ read = Idle /\ todo = <<>>
         /\ phase \in Phases \ {"none", "raw"} /\ phase' = Following(phase)
         /\ phase' \in Phases \ {"none", "info"}
         /\ todo' \in Seq(RequestType) /\ AllSuit(phase', todo')
         /\ phase' \in Kinds => Owed(phase') \subseteq Asks(todo')
<1>1. /\ stage = "scan" /\ SameScan /\ UNCHANGED <<client, open, faults, read, resetting, parts, cache, asked>>
      /\ read = Idle /\ todo = <<>> /\ phase # "raw" /\ phase' = Following(phase)
      /\ todo' = PhaseRequests(phase')
  BY DEF NextPhase, PhaseDone, Scanning, SameScan, link
<1>2. phase \in Phases \ {"none", "raw"} /\ setup \in Setups /\ parts \subseteq Version
  BY <1>1 DEF Base, PlanType, PlanInv, LinkType
<1>3. Following(phase) \in Phases \ {"none", "info"}
  BY <1>2, FollowingIs
<1>4. PICK p \in Phases \ {"none", "info"} : p = Following(phase)
  BY <1>3
<1>5. /\ PhaseRequests(p) \in Seq(RequestType)
      /\ \A i \in 1 .. Len(PhaseRequests(p)) : Suits(p, PhaseRequests(p)[i])
      /\ p \in Kinds => Owed(p) \subseteq Asks(PhaseRequests(p))
  BY <1>2, PhaseIs
<1>6. phase' = p /\ todo' = PhaseRequests(p)
  BY <1>1, <1>4
<1>7. AllSuit(p, todo')
  BY <1>5, <1>6 DEF AllSuit
<1>8. QED
  BY <1>1, <1>2, <1>5, <1>6, <1>7

LEMMA NextPhaseKeepsBase == ASSUME Base, NextPhase PROVE Base'
<1>1. /\ stage = "scan" /\ SameScan /\ UNCHANGED <<client, open, faults, read, resetting, parts, cache, asked>>
      /\ read = Idle /\ phase' \in Phases \ {"none", "info"}
      /\ todo' \in Seq(RequestType) /\ AllSuit(phase', todo')
  BY NextPhaseIs
<1>2. LinkType /\ Links /\ PlanType /\ Sound(cache) /\ report \in ReportType
  BY DEF Base, PlanType
<1>3. report' \in ReportType
  BY <1>2, AlarmsFoundIs, BeforeIs DEF NextPhase
<1>4. faults' \in 0 .. MaxFaults /\ client' \in {"none", "live", "stale"} /\ open' = open
  BY <1>1, <1>2 DEF LinkType
<1>5. LinkType' /\ Links'
  BY <1>1, <1>2, <1>4, LinkInScan
<1>6. PlanType' /\ Sound(cache)'
  BY <1>1, <1>2, <1>3, SoundStill DEF PlanType
<1>7. PlanInv'
  BY <1>1, SuitedStill DEF SameScan
<1>8. QED
  BY <1>5, <1>6, <1>7 DEF Base

\* A step that ends the requests of the scan, and one that has none.
LEMMA PlanIsDropped ==
  ASSUME Base, setup' = setup, stage' # "scan", NoRequests,
         cache' = cache, asked' = asked, report' \in ReportType
  PROVE  PlanType' /\ PlanInv' /\ Sound(cache)'
<1>1. <<>> \in Seq(RequestType) /\ Len(<<>>) = 0 /\ 1 .. 0 = {}
  OBVIOUS
<1>2. phase' = "none" /\ todo' = <<>> /\ read' = Idle /\ resetting' = FALSE /\ parts' = {}
  BY DEF NoRequests
<1>3. PlanType'
  BY <1>1, <1>2 DEF Base, PlanType, Phases
<1>4. PlanInv'
  BY <1>1, <1>2, SuitedStill DEF AllSuit
<1>5. QED
  BY <1>3, <1>4, SoundStill DEF Base

LEMMA PlanIsKept ==
  ASSUME Base, setup' = setup, stage # "scan", stage' # "scan", SamePlan
  PROVE  PlanType' /\ PlanInv' /\ Sound(cache)'
<1>1. UNCHANGED <<phase, todo, read, resetting, parts, cache, report, asked>>
  BY DEF SamePlan, plan
<1>2. PlanType' /\ Sound(cache)'
  BY <1>1, SoundStill DEF Base, PlanType
<1>3. AllSuit(phase', todo') /\ read' = Idle
  BY <1>1 DEF Base, PlanInv
<1>4. QED
  BY <1>2, <1>3, SuitedStill

\* A call that fails ends the validation or starts it again from the transport.
LEMMA FailingIs ==
  ASSUME Base, stage \in {"connect", "scan"}, CallFails("prepare"),
         faults' \in 0 .. MaxFaults, asked' = asked
  PROVE  /\ Base' /\ NoRequests /\ UNCHANGED <<setup, cache, report>>
         /\ \/ stage' = "done" /\ outcome' = "failed"
            \/ stage' = "prepare" /\ outcome' = outcome /\ runs' # Runs
<1>1. /\ NoRequests /\ UNCHANGED <<setup, modes, resolved, cache, report>>
      /\ transport' = "none" /\ client' = "none" /\ open' = open \ {transport}
      /\ \/ stage' = "done" /\ outcome' = "failed" /\ runs' = runs
         \/ stage' = "prepare" /\ outcome' = outcome /\ runs' = runs - 1 /\ runs > 1
  BY DEF CallFails, CloseAnd
<1>2. LinkType /\ Links /\ report \in ReportType
  BY DEF Base, PlanType
<1>3. runs \in 1 .. Runs /\ Runs \in Nat
  BY <1>2, Tables DEF LinkType
<1>4. runs > 1 => runs - 1 \in 1 .. Runs /\ runs - 1 # Runs
  BY <1>3
<1>5. LinkType'
  BY <1>1, <1>2, <1>3, <1>4 DEF LinkType
<1>6. /\ resolved # "none"
      /\ setup.caller = "flow" => open' = {}
      /\ outcome = "none"
  BY <1>1, <1>2 DEF Links, Known, Modes
<1>7. Links'
  BY <1>1, <1>2, <1>6 DEF Links
<1>8. PlanType' /\ PlanInv' /\ Sound(cache)'
  BY <1>1, <1>2, PlanIsDropped
<1>9. QED
  BY <1>1, <1>4, <1>5, <1>7, <1>8 DEF Base

LEMMA FinishKeepsBase ==
  ASSUME Base, FinishScan
  PROVE  Base'
<1>1. /\ NoRequests /\ stage' = "done" /\ outcome' = "scanned" /\ stage = "scan"
      /\ transport' = "none" /\ client' = "none" /\ open' = open \ {transport}
      /\ UNCHANGED <<setup, modes, runs, resolved, cache, asked, faults>>
  BY DEF FinishScan, PhaseDone, Scanning
<1>2. LinkType /\ Links /\ report \in ReportType
  BY DEF Base, PlanType
<1>3. report' \in ReportType
  BY <1>2, ResultIs DEF FinishScan
<1>4. LinkType'
  BY <1>1, <1>2 DEF LinkType
<1>5. Links'
  BY <1>1, <1>2 DEF Links, Known
<1>6. PlanType' /\ PlanInv' /\ Sound(cache)'
  BY <1>1, <1>3, PlanIsDropped
<1>7. QED
  BY <1>4, <1>5, <1>6 DEF Base

LEMMA CancelKeepsBase == ASSUME Base, Cancel PROVE Base'
<1>1. /\ NoRequests /\ stage' = "done" /\ outcome' = "cancelled"
      /\ stage \in {"probe", "detect", "connect", "scan"}
      /\ transport' = "none" /\ client' = "none" /\ Spend(FALSE)
      /\ open' = open \ (IF stage = "probe" THEN {Head(modes)} ELSE {transport})
      /\ UNCHANGED <<setup, modes, runs, resolved, cache, report, asked>>
  BY DEF Cancel
<1>2. LinkType /\ Links /\ report \in ReportType
  BY DEF Base, PlanType
<1>3. faults' \in 0 .. MaxFaults
  BY <1>1, <1>2, Spending
<1>4. LinkType'
  BY <1>1, <1>2, <1>3 DEF LinkType
<1>5. Links'
  BY <1>1, <1>2 DEF Links, Known
<1>6. PlanType' /\ PlanInv' /\ Sound(cache)'
  BY <1>1, <1>2, PlanIsDropped
<1>7. QED
  BY <1>4, <1>5, <1>6 DEF Base

\* The lists of modes.
LEMMA ModesAre ==
  ASSUME LinkType
  PROVE  /\ AutoOrder \in Seq(Modes) /\ AutoOrder # <<>>
         /\ ModesToVerify \in Seq(Modes) /\ ModesToVerify # <<>>
         /\ modes # <<>> => Head(modes) \in Modes /\ Tail(modes) \in Seq(Modes)
         /\ Len(modes) > 1 => Tail(modes) # <<>>
         /\ setup.config \in Modes \cup {"auto"}
<1>1. setup.config \in Modes \cup {"auto"} /\ modes \in Seq(Modes)
  BY SetupsAssumption DEF LinkType, SetupType
<1>2. AutoOrder \in Seq(Modes) /\ AutoOrder # <<>>
  BY DEF AutoOrder, Modes
<1>3. setup.config # "auto" => <<setup.config>> \in Seq(Modes) /\ <<setup.config>> # <<>>
  BY <1>1
<1>4. ModesToVerify \in Seq(Modes) /\ ModesToVerify # <<>>
  BY <1>2, <1>3 DEF ModesToVerify
<1>5. modes # <<>> => Head(modes) \in Modes /\ Tail(modes) \in Seq(Modes)
  BY <1>1
<1>6. Len(modes) > 1 => Tail(modes) # <<>>
  <2> SUFFICES ASSUME Len(modes) > 1
               PROVE  Tail(modes) # <<>>
    OBVIOUS
  <2>1. Len(Tail(modes)) = Len(modes) - 1 /\ Len(modes) \in Nat /\ Tail(modes) \in Seq(Modes)
    BY <1>1
  <2>2. \A n \in Nat : n > 1 => n - 1 # 0
    OBVIOUS
  <2>3. Len(Tail(modes)) # 0
    BY <2>1, <2>2
  <2>4. Len(Tail(modes)) = 0 <=> Tail(modes) = <<>>
    BY <2>1, EmptySeq
  <2>5. QED
    BY <2>3, <2>4
<1>7. QED
  BY <1>1, <1>2, <1>4, <1>5, <1>6

\* A verification that fails, in any of its ways.
VerifyEnds == VerifyFails \/ VerifyCancelledRequest \/ VerifyTimesOut

LEMMA VerifyKeepsBase ==
  ASSUME Base, VerifyConnect \/ VerifySucceeds \/ VerifyEnds
  PROVE  Base' /\ stage # "scan" /\ stage' # "scan" /\ setup' = setup /\ SamePlan
<1>1. LinkType /\ Links
  BY DEF Base
<1>2. /\ ModesToVerify \in Seq(Modes) /\ ModesToVerify # <<>>
      /\ modes # <<>> => Head(modes) \in Modes /\ Tail(modes) \in Seq(Modes)
      /\ Len(modes) > 1 => Tail(modes) # <<>>
  BY <1>1, ModesAre
<1>3. runs \in 1 .. Runs /\ Runs \in 1 .. Runs /\ (runs > 1 => runs - 1 \in 1 .. Runs)
  BY <1>1, Tables DEF LinkType
<1>4. CASE VerifyConnect
  <2>1. LinkType'
    BY <1>1, <1>2, <1>4 DEF VerifyConnect, LinkType
  <2>2. Links'
    BY <1>1, <1>4 DEF VerifyConnect, Links, Known
  <2>3. PlanType' /\ PlanInv' /\ Sound(cache)'
    BY <1>4, PlanIsKept DEF VerifyConnect
  <2>4. QED
    BY <1>4, <2>1, <2>2, <2>3 DEF Base, VerifyConnect
<1>5. CASE VerifySucceeds
  <2>1. modes # <<>>
    BY <1>1, <1>5 DEF VerifySucceeds, Links
  <2>2. LinkType'
    BY <1>1, <1>2, <1>3, <1>5, <2>1 DEF VerifySucceeds, LinkType
  <2>3. Links'
    BY <1>1, <1>2, <1>5, <2>1 DEF VerifySucceeds, Links, Known, Modes
  <2>4. PlanType' /\ PlanInv' /\ Sound(cache)'
    BY <1>5, PlanIsKept DEF VerifySucceeds
  <2>5. QED
    BY <1>5, <2>2, <2>3, <2>4 DEF Base, VerifySucceeds
<1>6. CASE VerifyEnds
  <2>1. /\ stage = "probe" /\ open' = open \ {Head(modes)} /\ faults' \in 0 .. MaxFaults
        /\ modes' \in Seq(Modes) /\ modes' # <<>> /\ runs' \in 1 .. Runs
        /\ \/ stage' = "verify" /\ outcome' = outcome
           \/ stage' = "done" /\ outcome' = "failed"
        /\ UNCHANGED <<setup, resolved, transport, client>> /\ SamePlan
    <3>1. stage = "probe" /\ modes # <<>>
      BY <1>1, <1>6 DEF VerifyEnds, VerifyFails, VerifyCancelledRequest, VerifyTimesOut, Links
    <3>2. faults' \in 0 .. MaxFaults
      BY <1>1, <1>6, Spending DEF VerifyEnds, VerifyFails, VerifyCancelledRequest, VerifyTimesOut
    <3>3. modes' \in Seq(Modes) /\ modes' # <<>>
      BY <1>2, <1>6, <3>1 DEF VerifyEnds, VerifyFails, VerifyCancelledRequest, VerifyTimesOut
    <3>4. runs' \in 1 .. Runs
      BY <1>3, <1>6 DEF VerifyEnds, VerifyFails, VerifyCancelledRequest, VerifyTimesOut
    <3>5. QED
      BY <1>6, <3>1, <3>2, <3>3, <3>4
      DEF VerifyEnds, VerifyFails, VerifyCancelledRequest, VerifyTimesOut
  <2>2. LinkType'
    BY <1>1, <2>1 DEF LinkType
  <2>3. Links'
    BY <1>1, <2>1 DEF Links, Known
  <2>4. PlanType' /\ PlanInv' /\ Sound(cache)'
    BY <2>1, PlanIsKept
  <2>5. QED
    BY <2>1, <2>2, <2>3, <2>4 DEF Base
<1>7. QED
  BY <1>4, <1>5, <1>6

LEMMA DetectKeepsBase ==
  ASSUME Base, PrepareTransport \/ DetectConnect \/ DetectFails
  PROVE  Base' /\ stage # "scan" /\ stage' # "scan" /\ setup' = setup /\ SamePlan
<1>1. LinkType /\ Links
  BY DEF Base
<1>2. /\ AutoOrder \in Seq(Modes)
      /\ modes # <<>> => Head(modes) \in Modes /\ Tail(modes) \in Seq(Modes)
      /\ setup.config \in Modes \cup {"auto"}
  BY <1>1, ModesAre
<1>3. CASE PrepareTransport
  <2>1. LinkType'
    BY <1>1, <1>2, <1>3 DEF PrepareTransport, LinkType
  <2>2. Links'
    BY <1>1, <1>2, <1>3 DEF PrepareTransport, Links, Known, LinkType
  <2>3. PlanType' /\ PlanInv' /\ Sound(cache)'
    BY <1>3, PlanIsKept DEF PrepareTransport
  <2>4. QED
    BY <1>3, <2>1, <2>2, <2>3 DEF Base, PrepareTransport
<1>4. CASE DetectConnect
  <2>1. LinkType'
    BY <1>1, <1>2, <1>4 DEF DetectConnect, LinkType
  <2>2. Links'
    BY <1>1, <1>4 DEF DetectConnect, Links, Known
  <2>3. PlanType' /\ PlanInv' /\ Sound(cache)'
    BY <1>4, PlanIsKept DEF DetectConnect
  <2>4. QED
    BY <1>4, <2>1, <2>2, <2>3 DEF Base, DetectConnect
<1>5. CASE DetectFails
  <2>1. faults' \in 0 .. MaxFaults
    BY <1>1, <1>5, Spending DEF DetectFails
  <2>2. LinkType'
    BY <1>1, <1>2, <1>5, <2>1 DEF DetectFails, LinkType
  <2>3. Links'
    BY <1>1, <1>5 DEF DetectFails, Links, Known
  <2>4. PlanType' /\ PlanInv' /\ Sound(cache)'
    BY <1>5, PlanIsKept DEF DetectFails
  <2>5. QED
    BY <1>5, <2>2, <2>3, <2>4 DEF Base, DetectFails
<1>6. QED
  BY <1>3, <1>4, <1>5

\* The scan starts, over the mode found or over the mode known.
ScanBegins(mode) == stage \in {"detect", "connect"} /\ StartScan(mode) /\ resolved' = mode
                /\ mode \in Modes /\ UNCHANGED <<modes, faults>>

LEMMA StartIs ==
  ASSUME Base, DetectSucceeds \/ Connect
  PROVE  (\E mode \in Modes : ScanBegins(mode))
         \/ /\ stage = "connect" /\ CallFails("prepare") /\ faults' \in 0 .. MaxFaults /\ asked' = asked
<1>1. LinkType /\ Links
  BY DEF Base
<1>2. CASE DetectSucceeds
  <2>1. Head(modes) \in Modes
    BY <1>1, <1>2, ModesAre DEF DetectSucceeds
  <2>2. QED
    BY <1>2, <2>1 DEF DetectSucceeds, ScanBegins
<1>3. CASE Connect /\ StartScan(transport) /\ UNCHANGED <<modes, resolved, faults>>
  BY <1>1, <1>3 DEF Connect, ScanBegins, Links
<1>4. CASE Connect /\ Spend(FALSE) /\ CallFails("prepare") /\ UNCHANGED asked
  BY <1>1, <1>4, Spending DEF Connect
<1>5. QED
  BY <1>2, <1>3, <1>4 DEF Connect

LEMMA StartKeepsBase ==
  ASSUME Base, NEW mode \in Modes, ScanBegins(mode)
  PROVE  Base'
<1>1. /\ stage' = "scan" /\ transport' = mode /\ open' = open \cup {mode} /\ resolved' = mode
      /\ client' = (IF mode = "tcp" THEN "live" ELSE "none")
      /\ phase' = "info" /\ todo' = PhaseRequests("info") /\ parts' = Version
      /\ asked' = [k \in Words |-> {}]
      /\ UNCHANGED <<setup, runs, read, resetting, cache, report, outcome, modes, faults>>
      /\ stage \in {"detect", "connect"}
  BY DEF ScanBegins, StartScan
<1>2. LinkType /\ Links /\ PlanType /\ PlanInv
  BY DEF Base
<1>3. LinkType'
  BY <1>1, <1>2 DEF LinkType
<1>4. Links'
  BY <1>1, <1>2 DEF Links, Known, Modes
<1>5. "info" \in Phases \ {"none"} /\ setup \in Setups /\ parts \subseteq Version
  BY <1>2 DEF Phases, Kinds, Words, Bits, LinkType, PlanType
<1>6. /\ PhaseRequests("info") \in Seq(RequestType)
      /\ \A i \in 1 .. Len(PhaseRequests("info")) : Suits("info", PhaseRequests("info")[i])
  BY <1>5, PhaseIs
<1>7. PlanType'
  <2>1. [k \in Words |-> {}] \in [Words -> SUBSET Nat]
    OBVIOUS
  <2>2. QED
    BY <1>1, <1>2, <1>5, <1>6, <2>1 DEF PlanType
<1>8. PlanInv'
  <2>1. read = Idle
    BY <1>1, <1>2 DEF PlanInv
  <2>2. AllSuit(phase', todo')
    BY <1>1, <1>6 DEF AllSuit
  <2>3. QED
    BY <1>1, <2>1, <2>2, SuitedStill
<1>9. QED
  BY <1>1, <1>3, <1>4, <1>7, <1>8, SoundStill DEF Base

\* The kinds of steps there are.
ReadEnds == Answered \/ WordRejected \/ WordRefusedOtherwise \/ WordTimesOut \/ WordCancelled
         \/ WordModbusError \/ OsError \/ BitUnanswered \/ BitModbusError
Fails == /\ stage \in {"connect", "scan"} /\ CallFails("prepare")
         /\ faults' \in 0 .. MaxFaults /\ asked' = asked
FindsMode == \/ VerifyConnect \/ VerifySucceeds \/ VerifyEnds
             \/ PrepareTransport \/ DetectConnect \/ DetectFails
Step == \/ ReadEffect \/ BeginEffect \/ ResetTransport \/ NextPhase \/ FinishScan
        \/ Fails \/ Cancel \/ FindsMode \/ \E mode \in Modes : ScanBegins(mode)

LEMMA StepIs == ASSUME Base, Next PROVE Step
<1>1. CASE ReadEnds
  BY <1>1, AnsweredIs, WordIs, BitIs DEF ReadEnds, Step
<1>2. CASE BeginRequest
  BY <1>2, BeginIs DEF Step
<1>3. CASE NoBitClient \/ ScanTimesOut
  <2>1. faults' \in 0 .. MaxFaults
    BY <1>3, Spending DEF NoBitClient, ScanTimesOut, Base, LinkType
  <2>2. QED
    BY <1>3, <2>1 DEF NoBitClient, ScanTimesOut, Scanning, Fails, Step
<1>4. CASE DetectSucceeds \/ Connect
  BY <1>4, StartIs DEF Fails, Step
<1>5. CASE FindsMode \/ ResetTransport \/ NextPhase \/ FinishScan \/ Cancel
  BY <1>5 DEF Step
<1>6. QED
  BY <1>1, <1>2, <1>3, <1>4, <1>5 DEF Next, Request, FindMode, ReadEnds, FindsMode, VerifyEnds

LEMMA StepKeepsBase == ASSUME Base, Step PROVE Base'
BY ReadKeepsBase, BeginKeepsBase, ResetKeepsBase, NextPhaseKeepsBase, FinishKeepsBase,
   FailingIs, CancelKeepsBase, VerifyKeepsBase, DetectKeepsBase, StartKeepsBase
DEF Step, Fails, FindsMode

LEMMA StutterKeepsBase == ASSUME Base, UNCHANGED vars PROVE Base'
<1>1. /\ UNCHANGED <<setup, stage, modes, runs, resolved, transport, client, open>>
      /\ UNCHANGED <<phase, todo, read, resetting, parts>>
      /\ UNCHANGED <<cache, report, asked, faults, outcome>>
  BY DEF vars, link, plan
<1>2. LinkType' /\ Links' /\ PlanType'
  BY <1>1 DEF Base, LinkType, Links, Known, PlanType
<1>3. PlanInv' /\ Sound(cache)'
  BY <1>1, SuitedStill, SoundStill DEF Base, PlanInv
<1>4. QED
  BY <1>2, <1>3 DEF Base

LEMMA InitIsBase == ASSUME Init PROVE Base
<1>1. /\ setup \in Setups
      /\ stage = (IF setup.caller = "flow" THEN "verify" ELSE "prepare")
      /\ modes = (IF setup.caller = "flow" THEN ModesToVerify ELSE <<>>)
      /\ runs = Runs
      /\ resolved = (IF setup.config = "auto" THEN "none" ELSE setup.config)
      /\ transport = "none" /\ client = "none" /\ open = {}
      /\ phase = "none" /\ todo = <<>> /\ read = Idle /\ resetting = FALSE /\ parts = {}
      /\ faults = MaxFaults /\ outcome = "none"
      /\ asked = [k \in Words |-> {}]
      /\ report = [available |-> [k \in Kinds |-> {}], exceptions |-> [k \in Kinds |-> {}],
                   invalid |-> [k \in Kinds |-> {}], batch |-> [k \in Kinds |-> {}],
                   raw |-> {}, before |-> {}]
      /\ cache = [failed |-> [k \in Words |-> {}], ranges |-> [k \in Words |-> {}],
                  count |-> [k \in Words |-> [a \in Addresses |-> 0]]]
  BY DEF Init
<1>2. setup.config \in Modes \cup {"auto"} /\ setup.caller \in {"flow", "setup"}
  BY <1>1, SetupsAssumption DEF SetupType
<1>3. AutoOrder \in Seq(Modes) /\ (setup.config # "auto" => <<setup.config>> \in Seq(Modes))
  BY <1>2 DEF AutoOrder, Modes
<1>4. ModesToVerify \in Seq(Modes) /\ modes \in Seq(Modes)
  BY <1>1, <1>3 DEF ModesToVerify
<1>5. Runs \in 1 .. Runs /\ MaxFaults \in 0 .. MaxFaults /\ Retry \in Nat
  BY Tables
<1>6. LinkType
  BY <1>1, <1>2, <1>4, <1>5 DEF LinkType
<1>7. Links
  BY <1>1, <1>2 DEF Links, Known, Modes
<1>8. PlanType
  <2>1. report \in ReportType
    BY <1>1 DEF ReportType
  <2>2. asked \in [Words -> SUBSET Nat]
    BY <1>1
  <2>3. <<>> \in Seq(RequestType)
    OBVIOUS
  <2>4. QED
    BY <1>1, <2>1, <2>2, <2>3 DEF PlanType, Phases
<1>9. PlanInv
  BY <1>1, <1>2 DEF PlanInv, AllSuit
<1>10. Sound(cache)
  <2>1. /\ cache.failed \in [Words -> SUBSET Nat] /\ cache.ranges = [k \in Words |-> {}]
        /\ cache.count \in [Words -> [Addresses -> 0 .. Retry]]
        /\ cache = [failed |-> cache.failed, ranges |-> cache.ranges, count |-> cache.count]
    BY <1>1, <1>5
  <2>2. cache \in CacheType
    BY <2>1 DEF CacheType
  <2>3. QED
    BY <2>1, <2>2 DEF Sound, Coherent
<1>11. QED
  BY <1>6, <1>7, <1>8, <1>9, <1>10 DEF Base

LEMMA BaseIsInvariant == Spec => []Base
<1>1. Init => Base
  BY InitIsBase
<1>2. Base /\ [Next]_vars => Base'
  BY StepIs, StepKeepsBase, StutterKeepsBase
<1>3. QED
  BY <1>1, <1>2, PTL DEF Spec

\* Every variable keeps its type, for every unit, table of registers and number
\* of attempts: the counts of failures stay at most Retry, and the requests made
\* are for addresses the scanner knows.
THEOREM ScannerTyped == Spec => []TypeOK
<1>1. Base => TypeOK
  BY DEF Base, LinkType, PlanType, Sound, TypeOK
<1>2. QED
  BY <1>1, BaseIsInvariant, PTL

\* The memory of failures stays coherent through every sequence of refusals,
\* cleared addresses and retried scans (mark_input_unsupported,
\* mark_holding_unsupported, mark_input_supported and mark_holding_supported).
THEOREM MemoryCoherent == Spec => []CacheCoherent
<1>1. Base => CacheCoherent
  BY DEF Base, Sound, Coherent, CacheCoherent
<1>2. QED
  BY <1>1, BaseIsInvariant, PTL

\* A validation of the config flow has closed every connection it opened when
\* the flow gets its answer, whatever failed and wherever it was cancelled.
THEOREM FlowClosesAll == Spec => []ValidationClosesAll
<1>1. Base => ValidationClosesAll
  BY DEF Base, Links, Known, ValidationClosesAll
<1>2. QED
  BY <1>1, BaseIsInvariant, PTL

-----------------------------------------------------------------------------
(* What is left to ask                                                     *)

\* The phases in which register type k is being scanned or has been.
Onward(k) == CASE k = "input" -> {"input", "holding", "coil", "discrete", "raw"}
               [] k = "holding" -> {"holding", "coil", "discrete", "raw"}
               [] k = "coil" -> {"coil", "discrete", "raw"}
               [] k = "discrete" -> {"discrete", "raw"}

\* The addresses the phase p still asks for, when p is the scan of k.
Left(p, requests, r, k) ==
  IF p # k THEN {} ELSE Asks(requests) \cup (IF r = Idle THEN {} ELSE r.first .. r.last)

LEMMA OnwardIs ==
  /\ \A k \in Kinds : k \in Onward(k) /\ "raw" \in Onward(k) /\ "info" \notin Onward(k)
  /\ \A k \in Kinds, p \in Phases \ {"none", "raw"} :
       Following(p) \in Onward(k) => Following(p) = k \/ p \in Onward(k)
  /\ Following("holding") = "coil" /\ "coil" \in Kinds /\ "holding" \notin Onward("coil")
  /\ \A p \in Phases \ {"none", "raw"} :
       Following(p) \in Onward("coil") => p = "holding" \/ p \in Onward("coil")
  /\ \A p \in Phases \ {"none", "raw"} : Following(p) = "raw" => p = "discrete"
  /\ \A p \in Onward("coil") : p \in {"coil", "discrete"} \/ p = "raw"
BY DEF Onward, Following, Phases, Kinds, Words, Bits

\* A request that is lost.
Loss(j, rest) ==
  /\ report' \in ReportType /\ phase' = phase /\ read' = Idle
  /\ report'.available = report.available /\ report'.invalid = report.invalid
  /\ report'.before = report.before
  /\ \A q \in Kinds : /\ report.exceptions[q] \subseteq report'.exceptions[q]
                       /\ report.batch[q] \subseteq report'.batch[q]
  /\ \A q \in Kinds \ {j.kind} : report'.exceptions[q] = report.exceptions[q]
  /\ phase \in Kinds =>
       /\ j.kind = phase /\ Asks(rest) \subseteq Asks(todo')
       /\ \/ /\ j.role = "batch" /\ ~setup.full
             /\ (j.first .. j.last) \cap Sought(phase) \subseteq Asks(todo')
          \/ /\ j.role = "probe" /\ ~setup.full /\ j.first = j.last /\ j.force
             /\ j.first .. j.last = {j.first}
             /\ j.first \in report'.exceptions[phase]
          \/ /\ j.role = "full" /\ setup.full
             /\ j.first .. j.last \subseteq report'.batch[phase]
  /\ phase = "raw" => j.kind = "input"

LEMMA LossIs ==
  ASSUME Base, NEW j \in RequestType, Suits(phase, j),
         NEW rest \in Seq(RequestType), AllSuit(phase, rest), Loses(j, rest)
  PROVE  Loss(j, rest)
<1>1. PICK c, rep : Remembers(c, j) /\ Worse(rep, report, j.kind) /\ Deliver(j, FALSE, c, rep, rest)
  BY DEF Loses
<1>2. /\ phase' = phase /\ read' = Idle /\ report' = Lost(j, rep)
      /\ phase \in Kinds => Asks(rest) \subseteq Asks(todo')
      /\ j.role = "batch" => (j.first .. j.last) \cap Sought(j.kind) \subseteq Asks(todo')
  BY <1>1, LosingIs DEF Base
<1>3. rep \in ReportType /\ j.kind \in Kinds
  BY <1>1, RequestIs DEF Worse
<1>4. /\ Worse(report', rep, j.kind)
      /\ j.role \in {"batch", "full"} => j.first .. j.last \subseteq report'.batch[j.kind]
      /\ j.role = "probe" => j.first \in report'.exceptions[j.kind]
  BY <1>2, <1>3, LostIs
<1>5. /\ report' \in ReportType
      /\ report'.available = report.available /\ report'.invalid = report.invalid
      /\ report'.before = report.before
      /\ \A q \in Kinds : /\ report.exceptions[q] \subseteq report'.exceptions[q]
                           /\ report.batch[q] \subseteq report'.batch[q]
      /\ \A q \in Kinds \ {j.kind} : report'.exceptions[q] = report.exceptions[q]
  BY <1>1, <1>4 DEF Worse
<1>6. phase = "raw" => j.kind = "input"
  BY DEF Suits
<1>7. j.role = "probe" => j.first = j.last /\ j.force /\ j.first .. j.last = {j.first}
  <2>1. \A x \in Nat : x .. x = {x}
    OBVIOUS
  <2>2. QED
    BY <2>1, RequestIs DEF Suits
<1>8. phase \in Kinds => /\ j.kind = phase
                        /\ \/ j.role \in {"batch", "probe"} /\ ~setup.full
                           \/ j.role = "full" /\ setup.full
  BY DEF Suits
<1>9. QED
  BY <1>2, <1>4, <1>5, <1>6, <1>7, <1>8 DEF Loss

\* A request that is answered.
Gain(j) ==
  /\ report' \in ReportType /\ phase' = phase /\ read' = Idle /\ todo' = todo
  /\ phase \in Kinds => j.kind = phase /\ Better(report', report, j)
  /\ phase \notin Kinds => report' = report
  /\ ~Refusal(j) /\ \E c : Remembers(c, j) /\ cache' = c

LEMMA GainIs ==
  ASSUME Base, read \in RequestType, Suits(phase, read), Gains
  PROVE  Gain(read)
<1>1. PICK c : Remembers(c, read) /\ Deliver(read, TRUE, c, report, todo)
  BY DEF Gains
<1>2. todo \in Seq(RequestType) /\ AllSuit(phase, todo) /\ report \in ReportType
  BY DEF Base, PlanType, PlanInv
<1>3. /\ phase' = phase /\ read' = Idle /\ cache' = c /\ report' = Found(read, report)
      /\ todo' = todo
  BY <1>1, <1>2, GainingIs DEF Base
<1>4. /\ read.role \notin {"batch", "probe", "full"} => report' = report
      /\ read.role \in {"batch", "probe", "full"} => Better(report', report, read)
  <2>1. read.role = "probe" => read.first = read.last /\ read.first \in Sought(read.kind)
    BY DEF Suits
  <2>2. QED
    BY <1>2, <1>3, <2>1, FoundIs
<1>5. report' \in ReportType
  BY <1>2, <1>4 DEF Better
<1>6. /\ phase \in Kinds => read.kind = phase /\ read.role \in {"batch", "probe", "full"}
      /\ phase \notin Kinds => read.role \notin {"batch", "probe", "full"}
  BY DEF Suits
<1>7. QED
  BY <1>1, <1>3, <1>4, <1>5, <1>6 DEF Gain, Gains

\* The registers an answer names are those the scan seeks there.
LEMMA NamesAre ==
  ASSUME NEW j \in RequestType
  PROVE  /\ (j.first .. j.last) \cap Sought(j.kind) \subseteq Names(j)
         /\ j.role # "full" => Names(j) = (j.first .. j.last) \cap Sought(j.kind)
         /\ Good(j) \subseteq Names(j)
         /\ (j.role = "full" <=> setup.full) => (j.first .. j.last) \cap Owed(j.kind) \subseteq Names(j)
BY DEF Names, Good, Owed, Sought, Listed

\* Steps that neither scan nor finish a scan.
Elsewhere == Fails \/ Cancel \/ FindsMode

LEMMA ElsewhereIs ==
  ASSUME Base, Elsewhere
  PROVE  stage' # "scan" /\ outcome' # "scanned"
<1>1. CASE Fails
  BY <1>1, FailingIs DEF Fails, Base, Links
<1>2. CASE Cancel
  BY <1>2 DEF Cancel
<1>3. CASE FindsMode
  <2>1. stage' # "scan" /\ stage # "scan"
    BY <1>3, VerifyKeepsBase, DetectKeepsBase DEF FindsMode
  <2>2. outcome' \in {outcome, "failed"} /\ stage # "done"
    BY <1>3 DEF FindsMode, VerifyConnect, VerifySucceeds, VerifyEnds, VerifyFails,
       VerifyCancelledRequest, VerifyTimesOut, PrepareTransport, DetectConnect, DetectFails
  <2>3. QED
    BY <2>1, <2>2 DEF Base, Links
<1>4. QED
  BY <1>1, <1>2, <1>3 DEF Elsewhere

LEMMA ScanningIs ==
  ASSUME Base, stage = "scan"
  PROVE  /\ outcome = "none" /\ setup \in Setups /\ phase \in Phases \ {"none"}
         /\ todo \in Seq(RequestType) /\ AllSuit(phase, todo) /\ report \in ReportType
         /\ transport = resolved
         /\ todo # <<>> => /\ Head(todo) \in RequestType /\ Suits(phase, Head(todo))
                           /\ Tail(todo) \in Seq(RequestType) /\ AllSuit(phase, Tail(todo))
                           /\ Asks(todo) \subseteq Asks(Tail(todo)) \cup (Head(todo).first .. Head(todo).last)
<1>1. /\ outcome = "none" /\ setup \in Setups /\ phase \in Phases \ {"none"}
      /\ todo \in Seq(RequestType) /\ AllSuit(phase, todo) /\ report \in ReportType
      /\ transport = resolved
  BY DEF Base, Links, LinkType, PlanType, PlanInv
<1>2. QED
  BY <1>1, HeadIs

-----------------------------------------------------------------------------
(* No register is dropped without a trace                                  *)

\* Where the report accounts for addresses of type k in phase p.  The failures
\* of the raw reads are not counted: the result sets them apart.
Told(rep, p, k) ==
  rep.available[k] \cup rep.invalid[k]
  \cup (IF k = "input" /\ p = "raw" THEN rep.before ELSE rep.exceptions[k])
  \cup (IF setup.full THEN rep.batch[k] ELSE {})

Accounted ==
  /\ stage = "scan" =>
       /\ \A k \in Kinds : phase \in Onward(k) =>
            Owed(k) \subseteq Told(report, phase, k) \cup Left(phase, todo, read, k)
       /\ phase = "raw" => report.before \subseteq report.exceptions["input"]
  /\ MissingIsExplained

\* What has to hold after a step of the scan.
AccountedAt(p, rep, requests, r) ==
  /\ \A k \in Kinds : p \in Onward(k) =>
       Owed(k) \subseteq Told(rep, p, k) \cup Left(p, requests, r, k)
  /\ p = "raw" => rep.before \subseteq rep.exceptions["input"]

LEMMA AccountedStill ==
  ASSUME setup' = setup, stage' = "scan", outcome' = "none",
         AccountedAt(phase', report', todo', read')
  PROVE  Accounted'
BY DEF AccountedAt, Accounted, Told, Left, Asks, MissingIsExplained, Owed, Listed, Sought, LeftOut

LEMMA AccountedElsewhere ==
  ASSUME stage' # "scan", outcome' # "scanned"
  PROVE  Accounted'
BY DEF Accounted, MissingIsExplained

LEMMA LossIsAccounted ==
  ASSUME report \in ReportType, NEW j \in RequestType, j # Idle, NEW rest,
         AccountedAt(phase, report, rest, j), Loss(j, rest)
  PROVE  AccountedAt(phase', report', todo', read')
<1>1. /\ phase' = phase /\ read' = Idle
      /\ report'.available = report.available /\ report'.invalid = report.invalid
      /\ report'.before = report.before
      /\ \A q \in Kinds : /\ report.exceptions[q] \subseteq report'.exceptions[q]
                           /\ report.batch[q] \subseteq report'.batch[q]
  BY DEF Loss
<1>2. ASSUME NEW k \in Kinds
      PROVE  Told(report, phase, k) \subseteq Told(report', phase, k)
  BY <1>1 DEF Told
<1>3. ASSUME NEW k \in Kinds, phase \in Onward(k)
      PROVE  Owed(k) \subseteq Told(report', phase, k) \cup Left(phase, todo', Idle, k)
  <2>1. Owed(k) \subseteq Told(report, phase, k) \cup Left(phase, rest, j, k)
    BY <1>3 DEF AccountedAt
  <2>2. CASE phase # k
    BY <1>2, <2>1, <2>2 DEF Left
  <2>3. CASE phase = k
    <3>1. Left(phase, rest, j, k) = Asks(rest) \cup (j.first .. j.last) /\ Left(phase, todo', Idle, k) = Asks(todo')
      BY <2>3 DEF Left
    <3>2. phase # "raw"
      BY <2>3 DEF Kinds, Words, Bits
    <3>3. Asks(rest) \subseteq Asks(todo')
      BY <2>3 DEF Loss
    <3>4. (j.first .. j.last) \cap Owed(k) \subseteq Told(report', phase, k) \cup Asks(todo')
      BY <2>3, <3>2 DEF Loss, Told, Owed
    <3>5. QED
      BY <1>2, <2>1, <3>1, <3>3, <3>4
  <2>4. QED
    BY <2>2, <2>3
<1>4. phase = "raw" => report'.before \subseteq report'.exceptions["input"]
  <2>1. "input" \in Kinds
    BY DEF Kinds, Words
  <2>2. QED
    BY <1>1, <2>1 DEF AccountedAt
<1>5. QED
  BY <1>1, <1>3, <1>4 DEF AccountedAt

LEMMA GainIsAccounted ==
  ASSUME AccountedAt(phase, report, todo, read), read # Idle, read \in RequestType,
         Suits(phase, read), Gain(read)
  PROVE  AccountedAt(phase', report', todo', read')
<1>1. /\ phase' = phase /\ read' = Idle /\ todo' = todo
      /\ phase \in Kinds => read.kind = phase /\ Better(report', report, read)
      /\ phase \notin Kinds => report' = report
  BY DEF Gain
<1>2. CASE phase \notin Kinds
  <2>1. \A k \in Kinds : Left(phase, todo, read, k) = Left(phase, todo, Idle, k)
    BY <1>2 DEF Left
  <2>2. QED
    BY <1>1, <1>2, <2>1 DEF AccountedAt
<1>3. CASE phase \in Kinds
  <2>1. phase # "raw" /\ read.kind = phase
    BY <1>1, <1>3 DEF Kinds, Words, Bits
  <2>2. /\ (read.first .. read.last) \cap Owed(phase) \subseteq Names(read) /\ Good(read) \subseteq Names(read)
    <3>1. read.role = "full" <=> setup.full
      BY <1>3 DEF Suits
    <3>2. QED
      BY <2>1, <3>1, NamesAre
  <2>3. ASSUME NEW k \in Kinds, k # phase
        PROVE  /\ Told(report', phase, k) = Told(report, phase, k)
               /\ Left(phase, todo, read, k) = {}
    BY <1>1, <1>3, <2>1, <2>3 DEF Better, Told, Left
  <2>4. /\ report'.available[phase] = report.available[phase] \cup Good(read)
        /\ report'.invalid[phase] = report.invalid[phase] \cup (Names(read) \ Good(read))
        /\ report.exceptions[phase] \subseteq report'.exceptions[phase] \cup Names(read)
        /\ report'.batch = report.batch
    BY <1>1, <1>3 DEF Better
  <2>5. Told(report, phase, phase) \cup Names(read) \subseteq Told(report', phase, phase)
    BY <2>1, <2>2, <2>4 DEF Told
  <2>6. Left(phase, todo, read, phase) = Asks(todo) \cup (read.first .. read.last)
        /\ Left(phase, todo, Idle, phase) = Asks(todo)
    BY DEF Left
  <2>7. phase \in Onward(phase)
    BY <1>3, OnwardIs
  <2>8. Owed(phase) \subseteq Told(report', phase, phase) \cup Left(phase, todo, Idle, phase)
    <3>1. Owed(phase) \subseteq Told(report, phase, phase) \cup Left(phase, todo, read, phase)
      BY <1>3, <2>7 DEF AccountedAt
    <3>2. QED
      BY <3>1, <2>2, <2>5, <2>6
  <2>9. QED
    BY <1>1, <2>1, <2>3, <2>8 DEF AccountedAt
<1>4. QED
  BY <1>2, <1>3

LEMMA AgainIsAccounted ==
  ASSUME AccountedAt(phase, report, todo, read), read # Idle, read' # Idle, Again
  PROVE  AccountedAt(phase', report', todo', read')
<1>1. /\ Worse(report', report, read.kind) /\ phase' = phase /\ todo' = todo
      /\ read'.first = read.first /\ read'.last = read.last
  BY DEF Again
<1>2. \A k \in Kinds : /\ Told(report, phase, k) \subseteq Told(report', phase, k)
                       /\ Left(phase, todo', read', k) = Left(phase, todo, read, k)
  BY <1>1 DEF Worse, Told, Left
<1>3. phase = "raw" => report'.before \subseteq report'.exceptions["input"]
  <2>1. "input" \in Kinds
    BY DEF Kinds, Words
  <2>2. QED
    BY <1>1, <2>1 DEF AccountedAt, Worse
<1>4. QED
  BY <1>1, <1>2, <1>3 DEF AccountedAt

\* Taking a request moves its addresses from the list to the read.
LEMMA TakingIsAccounted ==
  ASSUME AccountedAt(phase, report, todo, read), Base, stage = "scan", todo # <<>>, read = Idle
  PROVE  AccountedAt(phase, report, Tail(todo), Head(todo)) /\ Head(todo) # Idle
<1>1. /\ Head(todo) \in RequestType
      /\ Asks(todo) \subseteq Asks(Tail(todo)) \cup (Head(todo).first .. Head(todo).last)
  BY ScanningIs
<1>2. Head(todo) # Idle
  BY <1>1, RequestIs DEF Idle, Roles
<1>3. \A k \in Kinds : Left(phase, todo, read, k) \subseteq Left(phase, Tail(todo), Head(todo), k)
  BY <1>1, <1>2 DEF Left
<1>4. QED
  BY <1>2, <1>3 DEF AccountedAt

LEMMA NextPhaseIsAccounted ==
  ASSUME Base, AccountedAt(phase, report, todo, read), NextPhase
  PROVE  AccountedAt(phase', report', todo', read')
<1>1. /\ stage = "scan" /\ read = Idle /\ read' = Idle /\ todo = <<>>
      /\ phase \in Phases \ {"none", "raw"} /\ phase' = Following(phase)
      /\ phase' \in Kinds => Owed(phase') \subseteq Asks(todo')
  BY NextPhaseIs
<1>2. Asks(todo) = {} /\ \A k \in Kinds : Left(phase, todo, read, k) = {}
  <2>1. Len(todo) = 0 /\ 1 .. 0 = {}
    BY <1>1
  <2>2. QED
    BY <1>1, <2>1 DEF Asks, Left
<1>3. report \in ReportType /\ "input" \in Kinds
  BY DEF Base, PlanType, Kinds, Words
<1>4. /\ \A k \in Kinds : report.available[k] \subseteq report'.available[k]
      /\ report'.exceptions = report.exceptions /\ report'.invalid = report.invalid
      /\ report'.batch = report.batch
      /\ phase = "discrete" => report'.before = report.exceptions["input"]
  BY <1>3, AlarmsFoundIs, BeforeIs DEF NextPhase
<1>5. phase' = "raw" => phase = "discrete"
  BY <1>1, OnwardIs
<1>6. ASSUME NEW k \in Kinds, phase' \in Onward(k), phase' # k
      PROVE  Owed(k) \subseteq Told(report', phase', k)
  <2>1. phase \in Onward(k)
    BY <1>1, <1>6, OnwardIs
  <2>2. Owed(k) \subseteq Told(report, phase, k)
    BY <1>2, <2>1 DEF AccountedAt
  <2>3. phase # "raw"
    BY <1>1
  <2>4. QED
    BY <1>4, <1>5, <2>2, <2>3 DEF Told
<1>7. phase' = "raw" => report'.before \subseteq report'.exceptions["input"]
  BY <1>4, <1>5
<1>8. \A k \in Kinds : phase' \in Onward(k) =>
         Owed(k) \subseteq Told(report', phase', k) \cup Left(phase', todo', read', k)
  BY <1>1, <1>6 DEF Left
<1>9. QED
  BY <1>7, <1>8 DEF AccountedAt

LEMMA FinishIsAccounted ==
  ASSUME Base, AccountedAt(phase, report, todo, read), FinishScan
  PROVE  Accounted'
<1>1. /\ phase = "raw" /\ read = Idle /\ todo = <<>> /\ stage' = "done" /\ setup' = setup
  BY DEF FinishScan, PhaseDone
<1>2. report \in ReportType /\ "input" \in Kinds
  BY DEF Base, PlanType, Kinds, Words
<1>3. /\ report'.available = report.available /\ report'.invalid = report.invalid
      /\ report'.batch = report.batch
      /\ report.before \subseteq report'.exceptions["input"]
      /\ \A k \in Kinds \ {"input"} : report'.exceptions[k] = report.exceptions[k]
  BY <1>1, <1>2, ResultIs DEF FinishScan, AccountedAt
<1>4. ASSUME NEW k \in Kinds
      PROVE  Owed(k) \subseteq report'.available[k] \cup report'.invalid[k] \cup report'.exceptions[k]
                                \cup (IF setup.full THEN report'.batch[k] ELSE {})
  <2>1. phase \in Onward(k) /\ k # "raw"
    BY <1>1, OnwardIs DEF Kinds, Words, Bits
  <2>2. Left(phase, todo, read, k) = {}
    BY <1>1, <2>1 DEF Left
  <2>3. Owed(k) \subseteq Told(report, phase, k)
    BY <2>1, <2>2 DEF AccountedAt
  <2>4. QED
    BY <1>1, <1>3, <2>3 DEF Told
<1>5. MissingIsExplained'
  BY <1>1, <1>4 DEF MissingIsExplained, MissingRegisters, Recovered, Owed, Sought, LeftOut
<1>6. QED
  BY <1>1, <1>5 DEF Accounted

LEMMA StepIsAccounted ==
  ASSUME Base, Accounted, Step
  PROVE  Accounted'
<1>1. stage = "scan" => AccountedAt(phase, report, todo, read)
  BY DEF Accounted, AccountedAt
<1>2. ASSUME stage = "scan", SameScan, AccountedAt(phase', report', todo', read')
      PROVE  Accounted'
  BY <1>2, ScanningIs, AccountedStill DEF SameScan
<1>3. CASE ReadEffect
  <2>1. /\ stage = "scan" /\ read \in RequestType /\ Suits(phase, read) /\ SameScan
        /\ Gains \/ Loses(read, todo) \/ Again
    BY <1>3 DEF ReadEffect
  <2>2. read # Idle /\ todo \in Seq(RequestType) /\ AllSuit(phase, todo) /\ report \in ReportType
    BY <2>1, ScanningIs, RequestIs DEF Idle, Roles
  <2>3. CASE Gains
    BY <1>1, <1>2, <2>1, <2>2, <2>3, GainIs, GainIsAccounted
  <2>4. CASE Loses(read, todo)
    BY <1>1, <1>2, <2>1, <2>2, <2>4, LossIs, LossIsAccounted
  <2>5. CASE Again
    <3>1. read' # Idle
      BY <2>5, RequestIs DEF Again, Idle, Roles
    <3>2. QED
      BY <1>1, <1>2, <2>1, <2>2, <2>5, <3>1, AgainIsAccounted
  <2>6. QED
    BY <2>1, <2>3, <2>4, <2>5
<1>4. CASE BeginEffect
  <2>1. stage = "scan" /\ read = Idle /\ todo # <<>> /\ SameScan /\ (Takes \/ Skips)
    BY <1>4 DEF BeginEffect
  <2>2. AccountedAt(phase, report, Tail(todo), Head(todo)) /\ Head(todo) # Idle
    BY <1>1, <2>1, TakingIsAccounted
  <2>3. /\ Head(todo) \in RequestType /\ Suits(phase, Head(todo)) /\ report \in ReportType
        /\ Tail(todo) \in Seq(RequestType) /\ AllSuit(phase, Tail(todo))
    BY <2>1, ScanningIs
  <2>4. CASE Takes
    BY <1>2, <2>1, <2>2, <2>4 DEF Takes
  <2>5. CASE Skips
    <3>1. Loss(Head(todo), Tail(todo))
      BY <2>3, <2>5, LossIs DEF Skips
    <3>2. QED
      BY <1>2, <2>1, <2>2, <2>3, <3>1, LossIsAccounted
  <2>6. QED
    BY <2>1, <2>4, <2>5
<1>5. CASE ResetTransport
  <2>1. stage = "scan" /\ SameScan /\ UNCHANGED <<phase, report, todo, read>>
    BY <1>5 DEF ResetTransport, SameScan
  <2>2. QED
    BY <1>1, <1>2, <2>1
<1>6. CASE NextPhase
  BY <1>1, <1>2, <1>6, NextPhaseIs, NextPhaseIsAccounted
<1>7. CASE FinishScan
  <2>1. stage = "scan"
    BY <1>7 DEF FinishScan, PhaseDone, Scanning
  <2>2. QED
    BY <1>1, <1>7, <2>1, FinishIsAccounted
<1>8. CASE Elsewhere
  BY <1>8, ElsewhereIs, AccountedElsewhere
<1>9. ASSUME NEW mode \in Modes, ScanBegins(mode)
      PROVE  Accounted'
  <2>1. setup' = setup /\ stage' = "scan" /\ phase' = "info" /\ outcome' = outcome /\ outcome = "none"
    BY <1>9 DEF ScanBegins, StartScan, Base, Links
  <2>2. AccountedAt(phase', report', todo', read')
    BY <2>1, OnwardIs DEF AccountedAt
  <2>3. QED
    BY <2>1, <2>2, AccountedStill
<1>10. QED
  BY <1>3, <1>4, <1>5, <1>6, <1>7, <1>8, <1>9 DEF Step, Elsewhere

\* A register the result lists as missing was refused, held an invalid value or
\* was lost with its batch of a full scan, whatever the unit, the batches, the
\* faults and the retries: run_named_scan and run_full_scan drop no address.
THEOREM NoneIsDropped == Spec => []MissingIsExplained
<1>1. Init => Base /\ Accounted
  BY InitIsBase DEF Init, Accounted, MissingIsExplained
<1>2. Base /\ Accounted /\ [Next]_vars => (Base /\ Accounted)'
  <2>1. Base /\ Accounted /\ Next => (Base /\ Accounted)'
    BY StepIs, StepKeepsBase, StepIsAccounted
  <2>2. Base /\ Accounted /\ UNCHANGED vars => (Base /\ Accounted)'
    BY StutterKeepsBase
    DEF vars, link, plan, Accounted, MissingIsExplained, MissingRegisters, Recovered, Told, Left, Asks,
       Owed, Listed, Sought, LeftOut
  <2>3. QED
    BY <2>1, <2>2
<1>3. Accounted => MissingIsExplained
  BY DEF Accounted
<1>4. QED
  BY <1>1, <1>2, <1>3, PTL DEF Spec

-----------------------------------------------------------------------------
(* The first scan starts with an empty memory                              *)

NoneCounted(c) == \A k \in Words, a \in Addresses : c.count[k][a] = 0

\* No scan has been made: the connection is verified, or the transport of the
\* first scan is prepared.
First == stage \in {"verify", "probe"} \/ (stage \in {"prepare", "detect", "connect"} /\ runs = Runs)
Fresh == First => NoneCounted(cache) /\ \A k \in Kinds : report.available[k] = {}

LEMMA FreshIsInductive ==
  /\ Init => Fresh
  /\ Base /\ Fresh /\ Step => Fresh'
  /\ Fresh /\ UNCHANGED vars => Fresh'
<1>1. Init => Fresh
  BY DEF Init, Fresh, NoneCounted
<1>2. ASSUME Base, Fresh, Step
      PROVE  Fresh'
  <2>1. CASE FindsMode
    <3>1. cache' = cache /\ report' = report
      BY <1>2, <2>1, VerifyKeepsBase, DetectKeepsBase DEF FindsMode, SamePlan
    <3>2. First' => First
      BY <2>1 DEF FindsMode, VerifyConnect, VerifySucceeds, VerifyEnds, VerifyFails,
         VerifyCancelledRequest, VerifyTimesOut, PrepareTransport, DetectConnect, DetectFails, First
    <3>3. QED
      BY <1>2, <3>1, <3>2 DEF Fresh, NoneCounted
  <2>2. CASE Fails
    <3>1. stage' = "done" \/ (stage' = "prepare" /\ runs' # Runs)
      BY <1>2, <2>2, FailingIs DEF Fails
    <3>2. QED
      BY <3>1 DEF Fresh, First
  <2>3. CASE stage' \in {"scan", "done"}
    BY <2>3 DEF Fresh, First
  <2>4. ReadEffect \/ BeginEffect \/ NextPhase => stage' = "scan"
    BY <1>2, NextPhaseIs DEF ReadEffect, BeginEffect, SameScan
  <2>5. ResetTransport => stage' = "scan"
    BY DEF ResetTransport
  <2>6. FinishScan \/ Cancel => stage' = "done"
    BY DEF FinishScan, Cancel
  <2>7. \A mode \in Modes : ScanBegins(mode) => stage' = "scan"
    BY DEF ScanBegins, StartScan
  <2>8. QED
    BY <1>2, <2>1, <2>2, <2>3, <2>4, <2>5, <2>6, <2>7 DEF Step
<1>3. Fresh /\ UNCHANGED vars => Fresh'
  BY DEF vars, link, plan, Fresh, First, NoneCounted
<1>4. QED
  BY <1>1, <1>2, <1>3

-----------------------------------------------------------------------------
(* No word register is written off because of its neighbours               *)

\* In the first scan an address is sought until it is found or asked for alone.
ProbedAt(p, rep, c, requests, r, asks) ==
  /\ \A k \in Words, a \in Addresses : c.count[k][a] = 0 \/ a \in asks[k]
  /\ r # Idle /\ r.kind \in Words /\ r.first = r.last => r.first \in asks[r.kind]
  /\ ~setup.full => \A k \in Words : p \in Onward(k) =>
       Sought(k) \subseteq rep.available[k] \cup rep.invalid[k] \cup asks[k] \cup Left(p, requests, r, k)

Probed ==
  /\ stage = "scan" /\ runs = Runs => ProbedAt(phase, report, cache, todo, read, asked)
  /\ FailedWereProbed

LEMMA ProbedStill ==
  ASSUME setup' = setup, stage' = "scan", outcome' = "none",
         runs' = Runs => ProbedAt(phase', report', cache', todo', read', asked')
  PROVE  Probed'
BY DEF ProbedAt, Probed, Left, Asks, FailedWereProbed, FirstScanDone, Sought, LeftOut

LEMMA ProbedElsewhere ==
  ASSUME stage' # "scan", outcome' # "scanned"
  PROVE  Probed'
BY DEF Probed, FailedWereProbed, FirstScanDone

\* The counts after a request: only an address asked for alone has one.
LEMMA CountsStayAsked ==
  ASSUME NEW j \in RequestType, NEW c, Remembers(c, j), NEW asks,
         \A k \in Words, a \in Addresses : cache.count[k][a] = 0 \/ a \in asks[k],
         j.kind \in Words /\ j.first = j.last => j.first \in asks[j.kind]
  PROVE  \A k \in Words, a \in Addresses : c.count[k][a] = 0 \/ a \in asks[k]
BY DEF Remembers, MoreFor

\* A lost request: its addresses are probed, unless it was a probe itself and
\* has been asked.
LEMMA LossIsProbed ==
  ASSUME NEW j \in RequestType, j # Idle, NEW rest, Loss(j, rest), NEW asks, NEW c,
         ProbedAt(phase, report, c, rest, j, asks)
  PROVE  ProbedAt(phase', report', c, todo', read', asks)
<1>1. phase' = phase /\ read' = Idle /\ report'.available = report.available /\ report'.invalid = report.invalid
  BY DEF Loss
<1>2. ASSUME ~setup.full, NEW k \in Words, phase \in Onward(k)
      PROVE  Sought(k) \subseteq report'.available[k] \cup report'.invalid[k] \cup asks[k]
                                \cup Left(phase, todo', Idle, k)
  <2>1. Sought(k) \subseteq report.available[k] \cup report.invalid[k] \cup asks[k] \cup Left(phase, rest, j, k)
    BY <1>2 DEF ProbedAt
  <2>2. CASE phase # k
    BY <1>1, <2>1, <2>2 DEF Left
  <2>3. CASE phase = k
    <3>1. phase \in Kinds /\ j.kind = k /\ Asks(rest) \subseteq Asks(todo')
      BY <1>2, <2>3, Tables DEF Loss
    <3>2. (j.first .. j.last) \cap Sought(k) \subseteq asks[k] \cup Asks(todo')
      BY <1>2, <2>3, <3>1 DEF Loss, ProbedAt
    <3>3. /\ Left(phase, rest, j, k) = Asks(rest) \cup (j.first .. j.last)
          /\ Left(phase, todo', Idle, k) = Asks(todo')
      BY <2>3 DEF Left
    <3>4. QED
      BY <1>1, <2>1, <3>1, <3>2, <3>3
  <2>4. QED
    BY <2>2, <2>3
<1>3. QED
  BY <1>1, <1>2 DEF ProbedAt

LEMMA GainIsProbed ==
  ASSUME read \in RequestType, read # Idle, Gain(read),
         ProbedAt(phase, report, cache, todo, read, asked)
  PROVE  ProbedAt(phase', report', cache', todo', read', asked)
<1>1. /\ phase' = phase /\ read' = Idle /\ todo' = todo
      /\ phase \in Kinds => read.kind = phase /\ Better(report', report, read)
      /\ phase \notin Kinds => report' = report
  BY DEF Gain
<1>2. PICK c : Remembers(c, read) /\ cache' = c
  BY DEF Gain
<1>3. \A k \in Words, a \in Addresses : cache'.count[k][a] = 0 \/ a \in asked[k]
  BY <1>2, CountsStayAsked DEF ProbedAt
<1>4. ASSUME ~setup.full, NEW k \in Words, phase \in Onward(k)
      PROVE  Sought(k) \subseteq report'.available[k] \cup report'.invalid[k] \cup asked[k]
                                \cup Left(phase, todo, Idle, k)
  <2>1. Sought(k) \subseteq report.available[k] \cup report.invalid[k] \cup asked[k] \cup Left(phase, todo, read, k)
    BY <1>4 DEF ProbedAt
  <2>2. k \in Kinds
    BY Tables
  <2>3. CASE phase \notin Kinds
    BY <1>1, <2>1, <2>2, <2>3 DEF Left
  <2>4. CASE phase \in Kinds /\ phase # k
    BY <1>1, <2>1, <2>2, <2>4 DEF Left, Better
  <2>5. CASE phase = k
    <3>1. /\ report'.available[k] = report.available[k] \cup Good(read)
          /\ report'.invalid[k] = report.invalid[k] \cup (Names(read) \ Good(read))
      BY <1>1, <2>2, <2>5 DEF Better
    <3>2. (read.first .. read.last) \cap Sought(k) \subseteq Names(read)
      BY <1>1, <2>2, <2>5, NamesAre
    <3>3. /\ Left(phase, todo, read, k) = Asks(todo) \cup (read.first .. read.last)
          /\ Left(phase, todo, Idle, k) = Asks(todo)
      BY <2>5 DEF Left
    <3>4. QED
      BY <2>1, <3>1, <3>2, <3>3
  <2>6. QED
    BY <2>3, <2>4, <2>5
<1>5. QED
  BY <1>1, <1>3, <1>4 DEF ProbedAt

LEMMA AgainIsProbed ==
  ASSUME read \in RequestType, read # Idle, read' # Idle, Again,
         ProbedAt(phase, report, cache, todo, read, asked)
  PROVE  ProbedAt(phase', report', cache', todo', read', asked)
<1>1. /\ phase' = phase /\ todo' = todo /\ Remembers(cache', read)
      /\ read'.first = read.first /\ read'.last = read.last /\ read'.kind = read.kind
      /\ report'.available = report.available /\ report'.invalid = report.invalid
  BY DEF Again, Worse
<1>2. PICK c : c = cache'
  OBVIOUS
<1>3. \A k \in Words, a \in Addresses : c.count[k][a] = 0 \/ a \in asked[k]
  <2>1. Remembers(c, read)
    BY <1>1, <1>2
  <2>2. QED
    BY <2>1, CountsStayAsked DEF ProbedAt
<1>4. \A k \in Words : Left(phase, todo', read', k) = Left(phase, todo, read, k)
  BY <1>1 DEF Left
<1>5. QED
  BY <1>1, <1>2, <1>3, <1>4 DEF ProbedAt

LEMMA StepIsProbed ==
  ASSUME Base, Fresh, Probed, Step
  PROVE  Probed'
<1>1. ASSUME stage = "scan", SameScan,
             runs = Runs => ProbedAt(phase', report', cache', todo', read', asked')
      PROVE  Probed'
  BY <1>1, ScanningIs, ProbedStill DEF SameScan
<1>2. stage = "scan" /\ runs = Runs => ProbedAt(phase, report, cache, todo, read, asked)
  BY DEF Probed
<1>3. CASE ReadEffect
  <2>1. /\ stage = "scan" /\ read \in RequestType /\ Suits(phase, read) /\ SameScan /\ asked' = asked
        /\ Gains \/ Loses(read, todo) \/ Again
    BY <1>3 DEF ReadEffect
  <2>2. read # Idle /\ todo \in Seq(RequestType) /\ AllSuit(phase, todo)
    BY <2>1, ScanningIs, RequestIs DEF Idle, Roles
  <2>3. CASE Gains
    BY <1>1, <1>2, <2>1, <2>2, <2>3, GainIs, GainIsProbed
  <2>4. CASE Loses(read, todo)
    <3>1. Loss(read, todo)
      BY <2>1, <2>2, <2>4, LossIs
    <3>2. PICK c : Remembers(c, read) /\ cache' = c
      BY <2>4 DEF Loses, Deliver
    <3>3. ASSUME runs = Runs
          PROVE  ProbedAt(phase, report, c, todo, read, asked)
      <4>1. ProbedAt(phase, report, cache, todo, read, asked)
        BY <1>2, <2>1, <3>3
      <4>2. \A k \in Words, a \in Addresses : c.count[k][a] = 0 \/ a \in asked[k]
        BY <2>1, <2>2, <3>2, <4>1, CountsStayAsked DEF ProbedAt
      <4>3. QED
        BY <4>1, <4>2 DEF ProbedAt
    <3>4. ASSUME runs = Runs
          PROVE  ProbedAt(phase', report', cache', todo', read', asked')
      BY <2>1, <2>2, <3>1, <3>2, <3>3, <3>4, LossIsProbed
    <3>5. QED
      BY <1>1, <2>1, <3>4
  <2>5. CASE Again
    <3>1. read' # Idle
      BY <2>5, RequestIs DEF Again, Idle, Roles
    <3>2. QED
      BY <1>1, <1>2, <2>1, <2>2, <2>5, <3>1, AgainIsProbed
  <2>6. QED
    BY <2>1, <2>3, <2>4, <2>5
<1>4. CASE BeginEffect
  <2>1. stage = "scan" /\ read = Idle /\ todo # <<>> /\ SameScan /\ (Takes \/ Skips)
    BY <1>4 DEF BeginEffect
  <2> DEFINE j == Head(todo)
             rest == Tail(todo)
  <2>2. /\ j \in RequestType /\ Suits(phase, j) /\ rest \in Seq(RequestType) /\ AllSuit(phase, rest)
        /\ Asks(todo) \subseteq Asks(rest) \cup (j.first .. j.last)
    BY <2>1, ScanningIs
  <2> HIDE DEF j, rest
  <2>3. j # Idle /\ j.first \in Addresses
    BY <2>2, RequestIs DEF Idle, Roles
  <2>4. \A k \in Words : Left(phase, todo, read, k) \subseteq Left(phase, rest, j, k)
    BY <2>1, <2>2, <2>3 DEF Left
  <2>5. CASE Takes
    <3>1. /\ read' = j /\ todo' = rest /\ phase' = phase /\ report' = report /\ cache' = cache
          /\ \A k \in Words : asked[k] \subseteq asked'[k]
          /\ j.kind \in Words /\ j.first = j.last => j.first \in asked'[j.kind]
      BY <2>5 DEF Takes, j, rest
    <3>2. ASSUME runs = Runs
          PROVE  ProbedAt(phase', report', cache', todo', read', asked')
      <4>1. ProbedAt(phase, report, cache, todo, read, asked)
        BY <1>2, <2>1, <3>2
      <4>2. QED
        BY <2>4, <3>1, <4>1 DEF ProbedAt
    <3>3. QED
      BY <1>1, <2>1, <3>2
  <2>6. CASE Skips
    <3>1. /\ Loses(j, rest) /\ cache' = cache /\ asked' = asked /\ j.kind \in Words
          /\ j.force => j.kind = "holding" /\ cache.count["holding"][j.first] >= Retry
      BY <2>6 DEF Skips, j, rest
    <3>2. Loss(j, rest)
      BY <2>2, <3>1, LossIs
    <3>3. ASSUME runs = Runs
          PROVE  ProbedAt(phase', report', cache', todo', read', asked')
      <4>1. ProbedAt(phase, report, cache, todo, read, asked)
        BY <1>2, <2>1, <3>3
      <4>2. CASE j.force
        <5>1. j.first \in asked[j.kind]
          <6>1. cache.count["holding"][j.first] # 0 /\ j.kind = "holding"
            BY <3>1, <4>2, Tables
          <6>2. QED
            BY <2>3, <3>1, <4>1, <6>1 DEF ProbedAt
        <5>2. ProbedAt(phase, report, cache, rest, j, asked)
          BY <2>4, <4>1, <5>1 DEF ProbedAt
        <5>3. QED
          BY <2>2, <2>3, <3>1, <3>2, <5>2, LossIsProbed
      <4>3. CASE ~j.force
        <5>1. ASSUME ~setup.full, NEW k \in Words, phase \in Onward(k)
              PROVE  Sought(k) \subseteq report'.available[k] \cup report'.invalid[k] \cup asked[k]
                                        \cup Left(phase, todo', Idle, k)
          <6>1. Sought(k) \subseteq report.available[k] \cup report.invalid[k] \cup asked[k] \cup Left(phase, rest, j, k)
            BY <2>4, <4>1, <5>1 DEF ProbedAt
          <6>2. report'.available = report.available /\ report'.invalid = report.invalid
            BY <3>2 DEF Loss
          <6>3. phase # k => Left(phase, rest, j, k) = {}
            BY DEF Left
          <6>4. ASSUME phase = k
                PROVE  /\ Left(phase, rest, j, k) = Asks(rest) \cup (j.first .. j.last)
                       /\ Left(phase, todo', Idle, k) = Asks(todo')
                       /\ Asks(rest) \subseteq Asks(todo')
                       /\ (j.first .. j.last) \cap Sought(k) \subseteq Asks(todo')
            <7>1. phase \in Kinds
              BY <6>4, Tables
            <7>2. Left(phase, rest, j, k) = Asks(rest) \cup (j.first .. j.last) /\ Left(phase, todo', Idle, k) = Asks(todo')
              BY <2>3, <6>4 DEF Left
            <7>3. QED
              BY <3>2, <4>3, <5>1, <6>4, <7>1, <7>2 DEF Loss
          <6>5. QED
            BY <6>1, <6>2, <6>3, <6>4
        <5>2. phase' = phase /\ read' = Idle
          BY <3>2 DEF Loss
        <5>3. QED
          BY <3>1, <4>1, <5>1, <5>2 DEF ProbedAt
      <4>4. QED
        BY <4>2, <4>3
    <3>4. QED
      BY <1>1, <2>1, <3>3
  <2>7. QED
    BY <2>1, <2>5, <2>6
<1>5. CASE ResetTransport
  <2>1. stage = "scan" /\ SameScan /\ UNCHANGED <<phase, report, cache, todo, read, asked>>
    BY <1>5 DEF ResetTransport, SameScan
  <2>2. QED
    BY <1>1, <1>2, <2>1
<1>6. CASE NextPhase
  <2>1. /\ stage = "scan" /\ SameScan /\ UNCHANGED <<read, cache, asked>>
        /\ read = Idle /\ todo = <<>>
        /\ phase \in Phases \ {"none", "raw"} /\ phase' = Following(phase)
        /\ phase' \in Kinds => Sought(phase') \subseteq Asks(todo')
    BY <1>6, NextPhaseIs DEF Owed, Sought
  <2>2. Asks(todo) = {} /\ \A k \in Kinds : Left(phase, todo, read, k) = {}
    <3>1. Len(todo) = 0 /\ 1 .. 0 = {}
      BY <2>1
    <3>2. QED
      BY <2>1, <3>1 DEF Asks, Left
  <2>3. \A k \in Kinds : report.available[k] \subseteq report'.available[k] /\ report'.invalid[k] = report.invalid[k]
    BY <1>6, AlarmsFoundIs, BeforeIs DEF NextPhase, Base, PlanType
  <2>4. ASSUME runs = Runs
        PROVE  ProbedAt(phase', report', cache', todo', read', asked')
    <3>1. ProbedAt(phase, report, cache, todo, read, asked)
      BY <1>2, <2>1, <2>4
    <3>2. ASSUME ~setup.full, NEW k \in Words, phase' \in Onward(k)
          PROVE  Sought(k) \subseteq report'.available[k] \cup report'.invalid[k] \cup asked[k]
                                    \cup Left(phase', todo', read', k)
      <4>1. k \in Kinds
        BY Tables
      <4>2. CASE phase' = k
        BY <2>1, <4>1, <4>2 DEF Left
      <4>3. CASE phase' # k
        <5>1. phase \in Onward(k)
          BY <2>1, <3>2, <4>1, <4>3, OnwardIs
        <5>2. Sought(k) \subseteq report.available[k] \cup report.invalid[k] \cup asked[k]
          BY <2>2, <3>1, <3>2, <4>1, <5>1 DEF ProbedAt
        <5>3. QED
          BY <2>3, <4>1, <5>2
      <4>4. QED
        BY <4>2, <4>3
    <3>3. QED
      BY <2>1, <3>1, <3>2 DEF ProbedAt
  <2>5. QED
    BY <1>1, <2>1, <2>4
<1>7. CASE FinishScan
  <2>1. /\ stage = "scan" /\ phase = "raw" /\ read = Idle /\ todo = <<>> /\ stage' = "done"
        /\ UNCHANGED <<setup, runs, asked>>
    BY <1>7 DEF FinishScan, PhaseDone, Scanning
  <2>2. report'.available = report.available /\ report'.invalid = report.invalid
    BY <1>7, ResultIs DEF FinishScan, Base, PlanType
  <2>3. ASSUME runs = Runs, ~setup.full, NEW k \in Words
        PROVE  Sought(k) \subseteq report.available[k] \cup report.invalid[k] \cup asked[k]
    <3>1. phase \in Onward(k) /\ k # "raw"
      BY <2>1, OnwardIs, Tables DEF Words
    <3>2. Left(phase, todo, read, k) = {}
      BY <2>1, <3>1 DEF Left
    <3>3. QED
      BY <1>2, <2>1, <2>3, <3>1, <3>2 DEF ProbedAt
  <2>4. FailedWereProbed'
    BY <2>1, <2>2, <2>3 DEF FailedWereProbed, FirstScanDone, Sought, LeftOut
  <2>5. QED
    BY <2>1, <2>4 DEF Probed
<1>8. CASE Elsewhere
  BY <1>8, ElsewhereIs, ProbedElsewhere
<1>9. ASSUME NEW mode \in Modes, ScanBegins(mode)
      PROVE  Probed'
  <2>1. /\ setup' = setup /\ stage' = "scan" /\ phase' = "info" /\ outcome' = outcome /\ outcome = "none"
        /\ runs' = runs /\ cache' = cache /\ read' = read /\ read = Idle
        /\ stage \in {"detect", "connect"}
    BY <1>9 DEF ScanBegins, StartScan, Base, Links, PlanInv
  <2>2. runs' = Runs => NoneCounted(cache)
    BY <2>1 DEF Fresh, First
  <2>3. runs' = Runs => ProbedAt(phase', report', cache', todo', read', asked')
    BY <2>1, <2>2, OnwardIs, Tables DEF ProbedAt, NoneCounted
  <2>4. QED
    BY <2>1, <2>3, ProbedStill
<1>10. QED
  BY <1>3, <1>4, <1>5, <1>6, <1>7, <1>8, <1>9 DEF Step, Elsewhere

\* In the first scan a word register is not written off because of its
\* neighbours: found, invalid, or asked for on its own, whatever the batches,
\* the ranges of the memory of failures and the faults were.
THEOREM FailuresAreProbed == Spec => []FailedWereProbed
<1> DEFINE I == Base /\ Fresh /\ Probed
<1>1. Init => I
  BY InitIsBase, FreshIsInductive DEF Init, Probed, FailedWereProbed, FirstScanDone
<1>2. I /\ [Next]_vars => I'
  <2>1. I /\ Next => I'
    BY StepIs, StepKeepsBase, FreshIsInductive, StepIsProbed
  <2>2. I /\ UNCHANGED vars => I'
    <3>1. Probed /\ UNCHANGED vars => Probed'
      BY DEF vars, link, plan, Probed, ProbedAt, FailedWereProbed, FirstScanDone, Left, Asks, Sought, LeftOut
    <3>2. QED
      BY <3>1, StutterKeepsBase, FreshIsInductive
  <2>3. QED
    BY <2>1, <2>2
<1>3. I => FailedWereProbed
  BY DEF Probed
<1>4. QED
  BY <1>1, <1>2, <1>3, PTL DEF Spec

-----------------------------------------------------------------------------
(* A quiet scan finds exactly what the unit has                            *)

\* The registers of type k the unit answers with a valid value.
Real(k) == Sought(k) \cap setup.has[k] \cap (IF k \in Words THEN setup.sane[k] ELSE Nat)

\* The alarm registers the holding scan declares when it ends.
Declared(p, rep, k) ==
  IF k = "holding" /\ p \in Onward("coil") THEN Alarms \ rep.exceptions[k] ELSE {}

QuietAt(p, rep, requests, r) ==
  \A k \in Kinds :
    /\ rep.available[k] \subseteq Real(k) \cup Declared(p, rep, k)
    /\ p \in Onward(k) => Real(k) \subseteq rep.available[k] \cup Left(p, requests, r, k)
    /\ Declared(p, rep, k) \subseteq rep.available[k]

\* The first named scan, over the framing the unit speaks, without a fault yet.
Calm == runs = Runs /\ ~setup.full /\ faults = MaxFaults /\ resolved = setup.speaks
Quiet ==
  /\ stage = "scan" /\ Calm =>
       /\ client # "stale" /\ NoneCounted(cache)
       /\ QuietAt(phase, report, todo, read)
  /\ QuietScanIsExact

LEMMA QuietStill ==
  ASSUME setup' = setup, stage' = "scan", outcome' = "none",
         Calm' => client' # "stale" /\ NoneCounted(cache') /\ QuietAt(phase', report', todo', read')
  PROVE  Quiet'
BY DEF Quiet, QuietAt, Real, Declared, Left, Asks, NoneCounted, QuietScanIsExact, FirstScanDone, Sought, LeftOut

LEMMA QuietElsewhere ==
  ASSUME stage' # "scan", outcome' # "scanned"
  PROVE  Quiet'
BY DEF Quiet, QuietScanIsExact, FirstScanDone

\* A step after which no fault has happened is one without trouble.
LEMMA CalmIs ==
  ASSUME Base, stage = "scan", SameScan, faults' \in 0 .. MaxFaults, faults' <= faults, Calm'
  PROVE  /\ Calm /\ faults' = faults
         /\ client # "stale" => ~Trouble
<1>1. faults \in 0 .. MaxFaults /\ MaxFaults \in Nat /\ client \in {"none", "live", "stale"}
  BY Tables DEF Base, LinkType
<1>2. faults' = MaxFaults /\ runs' = Runs /\ ~setup'.full /\ resolved' = setup'.speaks
  BY DEF Calm
<1>3. faults = MaxFaults
  BY <1>1, <1>2
<1>4. Calm
  BY <1>2, <1>3 DEF Calm, SameScan
<1>5. ~(faults' < faults)
  BY <1>1, <1>2, <1>3
<1>6. client # "stale" => Reachable
  BY <1>1, <1>4, ScanningIs DEF Calm, Reachable, UsesTransport
<1>7. QED
  BY <1>2, <1>3, <1>4, <1>5, <1>6 DEF Trouble

LEMMA NoneCountedStill ==
  ASSUME NoneCounted(cache), NEW j, NEW c, Remembers(c, j), ~Trouble
  PROVE  NoneCounted(c)
<1>1. NoMore(c, cache)
  BY DEF Remembers
<1>2. QED
  BY <1>1 DEF NoMore, NoneCounted

\* A lost request: its addresses are probed, or the unit does not have it.
LEMMA LossIsQuiet ==
  ASSUME NEW j \in RequestType, j # Idle, NEW rest, Loss(j, rest), ~setup.full,
         QuietAt(phase, report, rest, j), j.role = "probe" => Refusal(j)
  PROVE  QuietAt(phase', report', todo', read')
<1>1. /\ phase' = phase /\ read' = Idle /\ report'.available = report.available
      /\ \A q \in Kinds \ {j.kind} : report'.exceptions[q] = report.exceptions[q]
  BY DEF Loss
<1>2. ASSUME NEW k \in Kinds
      PROVE  Declared(phase, report', k) = Declared(phase, report, k)
  <2>1. CASE k = "holding" /\ phase \in Onward("coil")
    <3>1. j.kind # "holding"
      BY <2>1, OnwardIs DEF Loss, Kinds, Words, Bits
    <3>2. QED
      BY <1>1, <1>2, <2>1, <3>1 DEF Declared
  <2>2. CASE ~(k = "holding" /\ phase \in Onward("coil"))
    BY <2>2 DEF Declared
  <2>3. QED
    BY <2>1, <2>2
<1>3. ASSUME NEW k \in Kinds, phase \in Onward(k)
      PROVE  Real(k) \subseteq report'.available[k] \cup Left(phase, todo', Idle, k)
  <2>1. Real(k) \subseteq report.available[k] \cup Left(phase, rest, j, k)
    BY <1>3 DEF QuietAt
  <2>2. CASE phase # k
    BY <1>1, <2>1, <2>2 DEF Left
  <2>3. CASE phase = k
    <3>1. j.kind = k /\ Asks(rest) \subseteq Asks(todo')
      BY <2>3 DEF Loss
    <3>2. CASE j.role = "batch"
      <4>1. (j.first .. j.last) \cap Sought(k) \subseteq Asks(todo')
        BY <2>3, <3>2 DEF Loss
      <4>2. (j.first .. j.last) \cap Real(k) \subseteq Asks(todo')
        BY <4>1 DEF Real
      <4>3. QED
        BY <1>1, <2>1, <2>3, <3>1, <4>2 DEF Left
    <3>3. CASE j.role = "probe"
      <4>1. j.first .. j.last = {j.first} /\ j.first \notin setup.has[k]
        BY <2>3, <3>1, <3>3 DEF Loss, Refusal
      <4>2. (j.first .. j.last) \cap Real(k) = {}
        BY <4>1 DEF Real
      <4>3. QED
        BY <1>1, <2>1, <2>3, <3>1, <4>2 DEF Left
    <3>4. QED
      BY <2>3, <3>2, <3>3 DEF Loss
  <2>4. QED
    BY <2>2, <2>3
<1>4. QED
  BY <1>1, <1>2, <1>3 DEF QuietAt

LEMMA GainIsQuiet ==
  ASSUME Base, read \in RequestType, Suits(phase, read), read # Idle, Gain(read), ~setup.full,
         QuietAt(phase, report, todo, read)
  PROVE  QuietAt(phase', report', todo', read')
<1>1. /\ phase' = phase /\ read' = Idle /\ todo' = todo /\ ~Refusal(read)
      /\ phase \in Kinds => read.kind = phase /\ Better(report', report, read)
      /\ phase \notin Kinds => report' = report
  BY DEF Gain
<1>2. CASE phase \notin Kinds
  <2>1. \A k \in Kinds : Left(phase, todo, read, k) = Left(phase, todo, Idle, k)
    BY <1>2 DEF Left
  <2>2. QED
    BY <1>1, <1>2, <2>1 DEF QuietAt
<1>3. CASE phase \in Kinds
  <2>1. read.kind = phase /\ Better(report', report, read) /\ read.role # "full"
    BY <1>1, <1>3 DEF Suits
  <2>2. /\ Names(read) = (read.first .. read.last) \cap Sought(phase)
        /\ read.first .. read.last \subseteq setup.has[phase] /\ read.first .. read.last \subseteq Nat
    BY <1>1, <2>1, NamesAre, RequestIs DEF Refusal
  <2>3. Good(read) = (read.first .. read.last) \cap Real(phase)
    <3>1. Good(read) = IF phase \in Words THEN Names(read) \cap setup.sane[phase] ELSE Names(read)
      BY <2>1 DEF Good
    <3>2. QED
      BY <2>2, <3>1 DEF Real
  <2>4. phase \notin Onward("coil") \/ phase # "holding"
    BY OnwardIs
  <2>5. ASSUME NEW k \in Kinds, k # phase
        PROVE  /\ report'.available[k] = report.available[k] /\ report'.exceptions[k] = report.exceptions[k]
               /\ Left(phase, todo, read, k) = {} /\ Left(phase, todo, Idle, k) = {}
    BY <2>1, <2>5 DEF Better, Left
  <2>6. ASSUME NEW k \in Kinds, k # phase
        PROVE  /\ report'.available[k] \subseteq Real(k) \cup Declared(phase, report', k)
               /\ phase \in Onward(k) => Real(k) \subseteq report'.available[k] \cup Left(phase, todo, Idle, k)
               /\ Declared(phase, report', k) \subseteq report'.available[k]
    <3>1. Declared(phase, report', k) = Declared(phase, report, k)
      BY <2>5, <2>6 DEF Declared
    <3>2. QED
      BY <2>5, <2>6, <3>1 DEF QuietAt
  <2>7. /\ report'.available[phase] = report.available[phase] \cup Good(read)
        /\ Left(phase, todo, read, phase) = Asks(todo) \cup (read.first .. read.last)
        /\ Left(phase, todo, Idle, phase) = Asks(todo)
    BY <2>1 DEF Better, Left
  <2>8. Declared(phase, report', phase) = {} /\ Declared(phase, report, phase) = {}
    BY <2>4 DEF Declared
  <2>9. report.available[phase] \subseteq Real(phase) /\ Real(phase) \subseteq report.available[phase] \cup Left(phase, todo, read, phase)
    BY <1>3, <2>8, OnwardIs DEF QuietAt
  <2>10. /\ report'.available[phase] \subseteq Real(phase)
         /\ Real(phase) \subseteq report'.available[phase] \cup Left(phase, todo, Idle, phase)
    BY <2>3, <2>7, <2>9
  <2>11. QED
    BY <1>1, <2>6, <2>8, <2>10 DEF QuietAt
<1>4. QED
  BY <1>2, <1>3

LEMMA AgainIsQuiet ==
  ASSUME Base, read \in RequestType, Suits(phase, read), read # Idle, read' # Idle, Again,
         QuietAt(phase, report, todo, read)
  PROVE  QuietAt(phase', report', todo', read')
<1>1. /\ phase' = phase /\ todo' = todo
      /\ read'.first = read.first /\ read'.last = read.last
      /\ report'.available = report.available
      /\ \A q \in Kinds \ {read.kind} : report'.exceptions[q] = report.exceptions[q]
  BY DEF Again, Worse
<1>2. \A k \in Kinds : Left(phase, todo', read', k) = Left(phase, todo, read, k)
  BY <1>1 DEF Left
<1>3. ASSUME NEW k \in Kinds
      PROVE  Declared(phase, report', k) = Declared(phase, report, k)
  <2>1. CASE k = "holding" /\ phase \in Onward("coil")
    <3>1. read.kind # "holding"
      BY <2>1, OnwardIs DEF Suits, Kinds, Words, Bits
    <3>2. QED
      BY <1>1, <1>3, <2>1, <3>1 DEF Declared
  <2>2. CASE ~(k = "holding" /\ phase \in Onward("coil"))
    BY <2>2 DEF Declared
  <2>3. QED
    BY <2>1, <2>2
<1>4. QED
  BY <1>1, <1>2, <1>3 DEF QuietAt

LEMMA NextPhaseIsQuiet ==
  ASSUME Base, NextPhase, ~setup.full, QuietAt(phase, report, todo, read)
  PROVE  QuietAt(phase', report', todo', read')
<1>1. /\ stage = "scan" /\ read = Idle /\ read' = Idle /\ todo = <<>>
      /\ phase \in Phases \ {"none", "raw"} /\ phase' = Following(phase)
      /\ phase' \in Kinds => Sought(phase') \subseteq Asks(todo')
  BY NextPhaseIs DEF Owed, Sought
<1>2. \A k \in Kinds : Left(phase, todo, read, k) = {}
  <2>1. Len(todo) = 0 /\ 1 .. 0 = {}
    BY <1>1
  <2>2. QED
    BY <1>1, <2>1 DEF Asks, Left
<1>3. report'.exceptions = report.exceptions
  BY AlarmsFoundIs, BeforeIs DEF NextPhase, Base, PlanType
<1>4. \A k \in Kinds : report'.available[k] =
         report.available[k] \cup (IF k = "holding" /\ phase = "holding"
                                  THEN Alarms \ report.exceptions["holding"] ELSE {})
  BY <1>1, AlarmsFoundIs, BeforeIs DEF NextPhase, Base, PlanType
<1>5. ASSUME NEW k \in Kinds
      PROVE  /\ Declared(phase', report', k) =
                  Declared(phase, report, k) \cup
                  (IF k = "holding" /\ phase = "holding" THEN Alarms \ report.exceptions["holding"] ELSE {})
  <2>1. phase' \in Onward("coil") <=> phase = "holding" \/ phase \in Onward("coil")
    <3>1. phase' \in Onward("coil") => phase = "holding" \/ phase \in Onward("coil")
      BY <1>1, OnwardIs
    <3>2. phase = "holding" \/ phase \in Onward("coil") => phase' \in Onward("coil")
      BY <1>1 DEF Following, Onward
    <3>3. QED
      BY <3>1, <3>2
  <2>2. QED
    BY <1>3, <2>1 DEF Declared
<1>6. ASSUME NEW k \in Kinds, phase' \in Onward(k)
      PROVE  Real(k) \subseteq report'.available[k] \cup Left(phase', todo', read', k)
  <2>1. CASE phase' = k
    BY <1>1, <2>1 DEF Left, Real
  <2>2. CASE phase' # k
    <3>1. phase \in Onward(k)
      BY <1>1, <1>6, <2>2, OnwardIs
    <3>2. Real(k) \subseteq report.available[k]
      BY <1>2, <3>1 DEF QuietAt
    <3>3. QED
      BY <1>4, <3>2
  <2>3. QED
    BY <2>1, <2>2
<1>7. ASSUME NEW k \in Kinds
      PROVE  /\ report'.available[k] \subseteq Real(k) \cup Declared(phase', report', k)
             /\ Declared(phase', report', k) \subseteq report'.available[k]
  <2>1. /\ report.available[k] \subseteq Real(k) \cup Declared(phase, report, k)
        /\ Declared(phase, report, k) \subseteq report.available[k]
    BY DEF QuietAt
  <2>2. QED
    BY <1>4, <1>5, <2>1
<1>8. QED
  BY <1>6, <1>7 DEF QuietAt

LEMMA FinishIsQuiet ==
  ASSUME Base, Quiet, FinishScan
  PROVE  Quiet'
<1>1. /\ stage = "scan" /\ phase = "raw" /\ read = Idle /\ todo = <<>> /\ stage' = "done"
      /\ UNCHANGED <<setup, runs, resolved, faults>>
  BY DEF FinishScan, PhaseDone, Scanning
<1>2. /\ report'.available = report.available
      /\ \A k \in Kinds \ {"input"} : report'.exceptions[k] = report.exceptions[k]
  BY ResultIs DEF FinishScan, Base, PlanType
<1>3. ASSUME Calm, NEW k \in Kinds
      PROVE  report'.available[k] = Real(k) \cup (IF k = "holding" THEN Alarms \ report'.exceptions[k] ELSE {})
  <2>1. QuietAt(phase, report, todo, read)
    BY <1>1, <1>3 DEF Quiet
  <2>2. phase \in Onward(k) /\ phase \in Onward("coil") /\ k # "raw"
    BY <1>1, OnwardIs DEF Kinds, Words, Bits
  <2>3. Left(phase, todo, read, k) = {}
    BY <1>1, <2>2 DEF Left
  <2>4. /\ report.available[k] \subseteq Real(k) \cup Declared(phase, report, k)
        /\ Real(k) \subseteq report.available[k] /\ Declared(phase, report, k) \subseteq report.available[k]
    BY <2>1, <2>2, <2>3 DEF QuietAt
  <2>5. Declared(phase, report, k) = IF k = "holding" THEN Alarms \ report'.exceptions[k] ELSE {}
    BY <1>2, <2>2 DEF Declared
  <2>6. QED
    BY <1>2, <2>4, <2>5
<1>4. QuietScanIsExact'
  <2>1. FirstScanDone' /\ faults' = MaxFaults /\ resolved' = setup'.speaks => Calm
    BY <1>1 DEF FirstScanDone, Calm
  <2>2. QED
    BY <1>1, <1>3, <2>1 DEF QuietScanIsExact, Real, Sought, LeftOut
<1>5. QED
  BY <1>1, <1>4 DEF Quiet

LEMMA StepIsQuiet ==
  ASSUME Base, Fresh, Quiet, Step
  PROVE  Quiet'
<1>1. ASSUME stage = "scan", SameScan,
             Calm' => client' # "stale" /\ NoneCounted(cache') /\ QuietAt(phase', report', todo', read')
      PROVE  Quiet'
  BY <1>1, ScanningIs, QuietStill DEF SameScan
<1>2. ASSUME stage = "scan", SameScan, faults' \in 0 .. MaxFaults, faults' <= faults, Calm'
      PROVE  /\ client # "stale" /\ NoneCounted(cache) /\ QuietAt(phase, report, todo, read)
             /\ ~setup.full /\ ~Trouble /\ faults' = faults
  BY <1>2, CalmIs DEF Quiet, Calm
<1>3. CASE ReadEffect
  <2>1. /\ stage = "scan" /\ read \in RequestType /\ Suits(phase, read) /\ SameScan
        /\ LinkKept
        /\ Gains \/ ((Trouble \/ Refusal(read)) /\ (Loses(read, todo) \/ Again))
    BY <1>3 DEF ReadEffect
  <2>2. read # Idle /\ todo \in Seq(RequestType) /\ AllSuit(phase, todo)
    BY <2>1, ScanningIs, RequestIs DEF Idle, Roles
  <2>3. ASSUME Calm'
        PROVE  /\ client' # "stale" /\ NoneCounted(cache) /\ QuietAt(phase, report, todo, read)
               /\ ~setup.full /\ ~Trouble
    BY <1>2, <2>1, <2>3 DEF LinkKept
  <2>4. CASE Gains
    <3>1. Gain(read)
      BY <2>1, <2>4, GainIs
    <3>2. PICK c : Remembers(c, read) /\ cache' = c
      BY <3>1 DEF Gain
    <3>3. ASSUME Calm'
          PROVE  NoneCounted(cache') /\ QuietAt(phase', report', todo', read')
      BY <2>1, <2>2, <2>3, <3>1, <3>2, <3>3, NoneCountedStill, GainIsQuiet
    <3>4. QED
      BY <1>1, <2>1, <2>3, <3>3
  <2>5. CASE (Trouble \/ Refusal(read)) /\ Loses(read, todo)
    <3>1. Loss(read, todo)
      BY <2>1, <2>2, <2>5, LossIs
    <3>2. PICK c : Remembers(c, read) /\ cache' = c
      BY <2>5 DEF Loses, Deliver
    <3>3. ASSUME Calm'
          PROVE  NoneCounted(cache') /\ QuietAt(phase', report', todo', read')
      BY <2>1, <2>2, <2>3, <2>5, <3>1, <3>2, <3>3, NoneCountedStill, LossIsQuiet
    <3>4. QED
      BY <1>1, <2>1, <2>3, <3>3
  <2>6. CASE (Trouble \/ Refusal(read)) /\ Again
    <3>1. read' # Idle
      BY <2>6, RequestIs DEF Again, Idle, Roles
    <3>2. PICK c : Remembers(c, read) /\ cache' = c
      BY <2>6 DEF Again
    <3>3. ASSUME Calm'
          PROVE  NoneCounted(cache') /\ QuietAt(phase', report', todo', read')
      BY <2>1, <2>2, <2>3, <2>6, <3>1, <3>2, <3>3, NoneCountedStill, AgainIsQuiet
    <3>4. QED
      BY <1>1, <2>1, <2>3, <3>3
  <2>7. QED
    BY <2>1, <2>4, <2>5, <2>6
<1>4. CASE BeginEffect
  <2>1. /\ stage = "scan" /\ read = Idle /\ todo # <<>> /\ SameScan /\ (Takes \/ Skips)
        /\ client' = client /\ faults' = faults
    BY <1>4 DEF BeginEffect
  <2>2. faults' \in 0 .. MaxFaults /\ faults' <= faults
    BY <2>1, Tables DEF Base, LinkType
  <2> DEFINE j == Head(todo)
             rest == Tail(todo)
  <2>3. /\ j \in RequestType /\ Suits(phase, j) /\ rest \in Seq(RequestType) /\ AllSuit(phase, rest)
        /\ Asks(todo) \subseteq Asks(rest) \cup (j.first .. j.last)
    BY <2>1, ScanningIs
  <2> HIDE DEF j, rest
  <2>4. j # Idle /\ j.first \in Addresses
    BY <2>3, RequestIs DEF Idle, Roles
  <2>5. \A k \in Kinds : Left(phase, todo, read, k) \subseteq Left(phase, rest, j, k)
    BY <2>1, <2>3, <2>4 DEF Left
  <2>6. ASSUME Calm'
        PROVE  /\ client' # "stale" /\ NoneCounted(cache) /\ ~setup.full
               /\ QuietAt(phase, report, rest, j)
    BY <1>2, <2>1, <2>2, <2>5, <2>6 DEF QuietAt
  <2>7. CASE Takes
    <3>1. read' = j /\ todo' = rest /\ phase' = phase /\ report' = report /\ cache' = cache
      BY <2>7 DEF Takes, j, rest
    <3>2. QED
      BY <1>1, <2>1, <2>6, <3>1
  <2>8. CASE Skips
    <3>1. /\ Loses(j, rest) /\ cache' = cache /\ j.kind \in Words
          /\ j.force => j.kind = "holding" /\ cache.count["holding"][j.first] >= Retry
      BY <2>8 DEF Skips, j, rest
    <3>2. Loss(j, rest)
      BY <2>3, <3>1, LossIs
    <3>3. NoneCounted(cache) => ~j.force
      BY <2>4, <3>1, Tables DEF NoneCounted
    <3>4. NoneCounted(cache) => j.role # "probe"
      BY <2>3, <3>3 DEF Suits
    <3>5. ASSUME Calm'
          PROVE  NoneCounted(cache') /\ QuietAt(phase', report', todo', read')
      BY <2>3, <2>4, <2>6, <3>1, <3>2, <3>4, <3>5, LossIsQuiet
    <3>6. QED
      BY <1>1, <2>1, <2>6, <3>5
  <2>9. QED
    BY <2>1, <2>7, <2>8
<1>5. CASE ResetTransport
  <2>1. stage = "scan" /\ SameScan /\ UNCHANGED <<phase, report, cache, todo, read>>
    BY <1>5 DEF ResetTransport, SameScan
  <2>2. \/ client' # "stale" /\ faults' = faults
        \/ Spend(FALSE)
    BY <1>5 DEF ResetTransport
  <2>3. faults' \in 0 .. MaxFaults /\ faults' <= faults /\ (Spend(FALSE) => faults' < faults)
    <3>1. LinkType /\ faults \in 0 .. MaxFaults /\ MaxFaults \in Nat /\ FALSE \in BOOLEAN
      BY Tables DEF Base, LinkType
    <3>2. Spend(FALSE) => faults' \in 0 .. MaxFaults /\ faults' <= faults /\ faults' < faults
      BY <3>1, Spending
    <3>3. faults' = faults => faults' \in 0 .. MaxFaults /\ faults' <= faults
      BY <3>1
    <3>4. QED
      BY <2>2, <3>2, <3>3
  <2>4. Calm' => client' # "stale" /\ NoneCounted(cache) /\ QuietAt(phase, report, todo, read)
    BY <1>2, <2>1, <2>2, <2>3 DEF Trouble
  <2>5. QED
    BY <1>1, <2>1, <2>4
<1>6. CASE NextPhase
  <2>1. stage = "scan" /\ SameScan /\ UNCHANGED <<client, faults, cache>>
    BY <1>6, NextPhaseIs
  <2>2. faults' \in 0 .. MaxFaults /\ faults' <= faults
    BY <2>1, Tables DEF Base, LinkType
  <2>3. Calm' => client' # "stale" /\ NoneCounted(cache') /\ QuietAt(phase', report', todo', read')
    BY <1>2, <1>6, <2>1, <2>2, NextPhaseIsQuiet DEF NoneCounted
  <2>4. QED
    BY <1>1, <2>1, <2>3
<1>7. CASE FinishScan
  BY <1>7, FinishIsQuiet
<1>8. CASE Elsewhere
  BY <1>8, ElsewhereIs, QuietElsewhere
<1>9. ASSUME NEW mode \in Modes, ScanBegins(mode)
      PROVE  Quiet'
  <2>1. /\ setup' = setup /\ stage' = "scan" /\ phase' = "info" /\ outcome' = outcome /\ outcome = "none"
        /\ runs' = runs /\ cache' = cache /\ report' = report /\ client' # "stale"
        /\ stage \in {"detect", "connect"}
    BY <1>9 DEF ScanBegins, StartScan, Base, Links
  <2>2. Calm' => NoneCounted(cache) /\ \A k \in Kinds : report.available[k] = {}
    BY <2>1 DEF Fresh, First, Calm
  <2>3. Calm' => NoneCounted(cache') /\ QuietAt(phase', report', todo', read')
    <3>1. "info" \notin Onward("coil") /\ \A k \in Kinds : "info" \notin Onward(k)
      BY OnwardIs
    <3>2. QED
      BY <2>1, <2>2, <3>1 DEF QuietAt, Declared, NoneCounted
  <2>4. QED
    BY <2>1, <2>3, QuietStill
<1>10. QED
  BY <1>3, <1>4, <1>5, <1>6, <1>7, <1>8, <1>9 DEF Step, Elsewhere

\* When nothing but the unit's own refusals goes wrong, the first named scan
\* finds exactly the registers the unit answers with a valid value, and the
\* alarm registers, however the registers were lumped into batches.
THEOREM QuietScanFindsAll == Spec => []QuietScanIsExact
<1> DEFINE I == Base /\ Fresh /\ Quiet
<1>1. Init => I
  BY InitIsBase, FreshIsInductive DEF Init, Quiet, QuietScanIsExact, FirstScanDone
<1>2. I /\ [Next]_vars => I'
  <2>1. I /\ Next => I'
    BY StepIs, StepKeepsBase, FreshIsInductive, StepIsQuiet
  <2>2. I /\ UNCHANGED vars => I'
    <3>1. Quiet /\ UNCHANGED vars => Quiet'
      BY DEF vars, link, plan, Quiet, QuietAt, Calm, NoneCounted, Real, Declared, Left, Asks,
         QuietScanIsExact, FirstScanDone, Sought, LeftOut
    <3>2. QED
      BY <3>1, StutterKeepsBase, FreshIsInductive
  <2>3. QED
    BY <2>1, <2>2
<1>3. I => QuietScanIsExact
  BY DEF Quiet
<1>4. QED
  BY <1>1, <1>2, <1>3, PTL DEF Spec

=============================================================================
