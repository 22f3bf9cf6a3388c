------------------------------ MODULE ReadPlan ------------------------------
(***************************************************************************)
(* Which requests read a set of addresses (registers/read_planner.py,       *)
(* scanner/selection.py), by what the loops there promise.  A request is a  *)
(* pair <<first address, length>>.                                          *)
(***************************************************************************)
EXTENDS Integers, Sequences, FiniteSets

Span(first, count) == first .. (first + count - 1)

\* The addresses a sequence of requests reads.
Covered(requests) == UNION {Span(requests[i][1], requests[i][2]) : i \in DOMAIN requests}

\* A run is a stretch of consecutive addresses; an address in boundaries begins
\* one.  RunStart is where the run of a begins.
Begins(addresses, boundaries, a) == a - 1 \notin addresses \/ a \in boundaries
RunStart(addresses, boundaries, a) ==
  CHOOSE b \in addresses :
    /\ b <= a /\ Begins(addresses, boundaries, b)
    /\ \A c \in (b + 1) .. a : c \in addresses /\ ~Begins(addresses, boundaries, c)

\* Every size addresses of a run begin a request.
Starts(addresses, size, boundaries) ==
  {a \in addresses : (a - RunStart(addresses, boundaries, a)) % size = 0}

\* The requests that begin at starts and reach up to the next start or gap.
Reach(addresses, starts, a) ==
  {b \in addresses : a <= b /\ \A c \in (a + 1) .. b : c \in addresses \ starts}
Reads(addresses, starts) ==
  [i \in 1 .. Cardinality(starts) |->
     LET a == CHOOSE x \in starts : Cardinality({y \in starts : y < x}) = i - 1
     IN  <<a, Cardinality(Reach(addresses, starts, a))>>]

\* group_reads
GroupReads(addresses, size, boundaries) ==
  Reads(addresses, Starts(addresses, size, boundaries))

\* chunk_register_range: a contiguous range in requests of at most size.
ChunkRange(first, count, size) ==
  GroupReads(Span(first, count), IF size < 1 THEN 1 ELSE size, {})

\* _split_groups_around_missing: a known-missing address is a request of its own.
SplitStarts(addresses, starts, missing) ==
  starts \cup {a \in addresses : a \in missing \/ a - 1 \in missing}

\* group_registers_for_batch_read
BatchPlan(addresses, size, boundaries, missing, safe) ==
  Reads(addresses, IF safe THEN addresses
                   ELSE SplitStarts(addresses, Starts(addresses, size, boundaries), missing))
=============================================================================
