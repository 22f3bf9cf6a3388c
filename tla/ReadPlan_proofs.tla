-------------------------- MODULE ReadPlan_proofs --------------------------
(***************************************************************************)
(* What the read planner promises for every set of addresses, batch size    *)
(* and boundary: each address is read, by one request only, nothing else   *)
(* is read, and no request is longer than the batch size.                  *)
(***************************************************************************)
EXTENDS ReadPlan, FiniteSetTheorems, TLAPS

-----------------------------------------------------------------------------
(* Finite sets of numbers                                                  *)

Below(S, x) == {y \in S : y < x}

\* In a finite set of numbers, for each i below its size, some element has
\* exactly i elements below it.
LEMMA Ranks ==
  ASSUME NEW S \in SUBSET Int, IsFiniteSet(S)
  PROVE  /\ Cardinality(S) \in Nat
         /\ \A x \in S : Cardinality(Below(S, x)) \in 0 .. (Cardinality(S) - 1)
         /\ \A x, y \in S : x < y => Cardinality(Below(S, x)) < Cardinality(Below(S, y))
         /\ \A i \in 0 .. (Cardinality(S) - 1) : \E x \in S : Cardinality(Below(S, x)) = i
<1> DEFINE n == Cardinality(S)
           rank == [x \in S |-> Cardinality(Below(S, x))]
<1>1. n \in Nat
  BY FS_CardinalityType
<1>2. \A x \in S : IsFiniteSet(Below(S, x)) /\ Cardinality(Below(S, x)) \in Nat
  BY FS_Subset, FS_CardinalityType DEF Below
<1>3. ASSUME NEW T \in SUBSET S, NEW U \in SUBSET T, NEW x \in T, x \notin U
      PROVE  Cardinality(U) < Cardinality(T)
  <2>1. IsFiniteSet(T) /\ Cardinality(T) \in Nat
    BY FS_Subset, FS_CardinalityType
  <2>2. IsFiniteSet(U) /\ Cardinality(U) \in Nat /\ Cardinality(U) <= Cardinality(T)
    BY <2>1, FS_Subset, FS_CardinalityType
  <2>3. Cardinality(U) # Cardinality(T)
    BY <1>3, <2>1, FS_Subset
  <2>4. QED
    BY <2>1, <2>2, <2>3
<1>4. \A x \in S : Cardinality(Below(S, x)) < n
  <2>1. \A x \in S : Below(S, x) \in SUBSET S /\ x \notin Below(S, x) /\ S \in SUBSET S
    BY DEF Below
  <2>2. QED
    BY <2>1, <1>3
<1>5. \A x, y \in S : x < y => Cardinality(Below(S, x)) < Cardinality(Below(S, y))
  <2>1. \A x, y \in S : x < y =>
          Below(S, y) \in SUBSET S /\ Below(S, x) \in SUBSET Below(S, y)
          /\ x \in Below(S, y) /\ x \notin Below(S, x)
    <3> TAKE x, y \in S
    <3> HAVE x < y
    <3>1. x \in Int /\ y \in Int /\ \A z \in S : z \in Int
      OBVIOUS
    <3>2. \A z \in S : z < x => z < y
      BY <3>1
    <3>3. ~(x < x)
      BY <3>1
    <3>4. x \in Below(S, y) /\ x \notin Below(S, x)
      BY <3>3 DEF Below
    <3>5. Below(S, y) \subseteq S /\ Below(S, x) \subseteq Below(S, y)
      BY <3>2 DEF Below
    <3>6. QED
      BY <3>4, <3>5
  <2>2. QED
    BY <2>1, <1>3
<1>6. rank \in Injection(S, 0 .. (n - 1))
  <2>1. rank \in [S -> 0 .. (n - 1)]
    BY <1>1, <1>2, <1>4
  <2>2. \A x, y \in S : x # y => rank[x] # rank[y]
    <3>1. \A x, y \in S : x # y => x < y \/ y < x
      OBVIOUS
    <3>2. QED
      BY <3>1, <1>2, <1>5
  <2>3. QED
    BY <2>1, <2>2 DEF Injection, IsInjective
<1>7. IsFiniteSet(0 .. (n - 1)) /\ Cardinality(0 .. (n - 1)) = n
  <2>1. n - 1 \in Int /\ (IF 0 > n - 1 THEN 0 ELSE (n - 1) - 0 + 1) = n
    BY <1>1
  <2>2. QED
    BY <2>1, FS_Interval
<1>8. rank \in Surjection(S, 0 .. (n - 1))
  <2> HIDE DEF rank, n
  <2>1. QED
    BY <1>6, <1>7, FS_Injection DEF n
<1>9. \A i \in 0 .. (n - 1) : \E x \in S : rank[x] = i
  BY <1>8 DEF Surjection
<1>10. QED
  BY <1>1, <1>2, <1>4, <1>5, <1>9

\* A finite set of numbers that is not empty has a greatest element.
LEMMA Greatest ==
  ASSUME NEW S \in SUBSET Int, IsFiniteSet(S), S # {}
  PROVE  \E m \in S : \A x \in S : x <= m
<1>1. Cardinality(S) \in Nat /\ Cardinality(S) # 0
  BY FS_EmptySet, FS_CardinalityType
<1>2. PICK m \in S : Cardinality(Below(S, m)) = Cardinality(S) - 1
  BY <1>1, Ranks
<1>3. \A x \in S : m < x => FALSE
  <2>1. \A x \in S : Cardinality(Below(S, x)) \in 0 .. (Cardinality(S) - 1)
    BY Ranks
  <2>2. \A x \in S : m < x => Cardinality(Below(S, m)) < Cardinality(Below(S, x))
    BY Ranks
  <2>3. QED
    BY <1>1, <1>2, <2>1, <2>2
<1>4. QED
  BY <1>3

\* ... and a least one.
LEMMA Least ==
  ASSUME NEW S \in SUBSET Int, IsFiniteSet(S), S # {}
  PROVE  \E m \in S : \A x \in S : m <= x
<1>1. Cardinality(S) \in Nat /\ Cardinality(S) # 0
  BY FS_EmptySet, FS_CardinalityType
<1>2. PICK m \in S : Cardinality(Below(S, m)) = 0
  BY <1>1, Ranks
<1>3. \A x \in S : x < m => FALSE
  <2>1. \A x \in S : Cardinality(Below(S, x)) \in 0 .. (Cardinality(S) - 1)
    BY Ranks
  <2>2. \A x \in S : x < m => Cardinality(Below(S, x)) < Cardinality(Below(S, m))
    BY Ranks
  <2>3. QED
    BY <1>1, <1>2, <2>1, <2>2
<1>4. QED
  BY <1>3

-----------------------------------------------------------------------------
(* Requests that begin at given starts                                     *)

\* The requests read the addresses, in order, each by one request only.
Exact(requests, addresses) ==
  /\ requests \in Seq(addresses \X (Nat \ {0}))
  /\ Covered(requests) = addresses
  /\ \A i, j \in 1 .. Len(requests) : i < j => requests[i][1] + requests[i][2] <= requests[j][1]
Bounded(requests, size) == \A i \in 1 .. Len(requests) : requests[i][2] <= size

\* Each address is reached from a start in its run.
Started(addresses, starts) == \A a \in addresses : \E s \in starts : s <= a /\ s .. a \subseteq addresses

LEMMA ReachIsSpan ==
  ASSUME NEW A \in SUBSET Nat, IsFiniteSet(A), NEW S, NEW a \in A
  PROVE  /\ Cardinality(Reach(A, S, a)) \in Nat \ {0}
         /\ Reach(A, S, a) = Span(a, Cardinality(Reach(A, S, a)))
<1> DEFINE R == Reach(A, S, a)
<1>1. a \in Nat /\ A \subseteq Int
  OBVIOUS
<1>2. a \in R
  BY <1>1 DEF Reach
<1>3. R \in SUBSET A /\ R \in SUBSET Int
  BY <1>1 DEF Reach
<1>4. IsFiniteSet(R)
  BY <1>3, FS_Subset
<1>5. PICK m \in R : \A x \in R : x <= m
  <2> HIDE DEF R
  <2>1. QED
    BY <1>2, <1>3, <1>4, Greatest
<1>6. m \in Nat /\ a <= m
  BY <1>2, <1>3, <1>5
<1>7. R = a .. m
  <2>1. R \subseteq a .. m
    BY <1>1, <1>3, <1>5, <1>6 DEF Reach
  <2>2. ASSUME NEW c \in a .. m
        PROVE  c \in R
    <3>1. \A d \in (a + 1) .. m : d \in A \ S
      BY DEF Reach
    <3>2. \A d \in (a + 1) .. c : d \in (a + 1) .. m
      BY <1>1, <1>6, <2>2
    <3>3. c = a \/ c \in (a + 1) .. m
      BY <1>1, <1>6, <2>2
    <3>4. a <= c
      BY <1>1, <1>6, <2>2
    <3>5. QED
      BY <3>1, <3>2, <3>3, <3>4 DEF Reach
  <2>3. QED
    BY <2>1, <2>2
<1>8. Cardinality(R) = m - a + 1
  <2>1. Cardinality(a .. m) = m - a + 1
    BY <1>1, <1>6, FS_Interval
  <2>2. QED
    BY <1>7, <2>1
<1>9. m - a + 1 \in Nat \ {0} /\ Span(a, m - a + 1) = a .. m
  BY <1>1, <1>6 DEF Span
<1>10. QED
  BY <1>7, <1>8, <1>9

LEMMA ReadsExact ==
  ASSUME NEW A \in SUBSET Nat, IsFiniteSet(A), NEW S \in SUBSET A, Started(A, S)
  PROVE  /\ Exact(Reads(A, S), A)
         /\ \A i \in 1 .. Len(Reads(A, S)) :
              /\ Reads(A, S)[i][1] \in S
              /\ Reads(A, S)[i][2] = Cardinality(Reach(A, S, Reads(A, S)[i][1]))
         /\ \A s \in S : \E i \in 1 .. Len(Reads(A, S)) : Reads(A, S)[i][1] = s
<1> DEFINE n == Cardinality(S)
           R == Reads(A, S)
           Ranked(i, x) == x \in S /\ Cardinality(Below(S, x)) = i - 1
<1>1. S \in SUBSET Int /\ IsFiniteSet(S) /\ n \in Nat
  <2>1. S \in SUBSET Int /\ S \in SUBSET A
    OBVIOUS
  <2>2. IsFiniteSet(S)
    BY <2>1, FS_Subset
  <2>3. QED
    BY <2>1, <2>2, FS_CardinalityType
<1>2. R = [i \in 1 .. n |-> <<CHOOSE x : Ranked(i, x), Cardinality(Reach(A, S, CHOOSE x : Ranked(i, x)))>>]
  BY DEF Reads, Below
<1>3. \A i \in 1 .. n : \E x : Ranked(i, x)
  BY <1>1, Ranks
<1>4. \A i \in 1 .. n : Ranked(i, CHOOSE x : Ranked(i, x))
  BY <1>3
<1>5. \A i \in 1 .. n : Ranked(i, R[i][1]) /\ R[i][2] = Cardinality(Reach(A, S, R[i][1]))
                        /\ R[i] = <<R[i][1], R[i][2]>>
  BY <1>2, <1>4
<1> HIDE DEF R
<1>6. \A a \in S : Cardinality(Reach(A, S, a)) \in Nat \ {0} /\ Reach(A, S, a) = Span(a, Cardinality(Reach(A, S, a)))
  BY ReachIsSpan
<1>7. R \in Seq(A \X (Nat \ {0})) /\ Len(R) = n
  <2>1. \A i \in 1 .. n : R[i] \in A \X (Nat \ {0})
    <3> TAKE i \in 1 .. n
    <3>1. R[i][1] \in A /\ R[i][2] \in Nat \ {0} /\ R[i] = <<R[i][1], R[i][2]>>
      BY <1>5, <1>6
    <3>2. \A x \in A, y \in Nat \ {0} : <<x, y>> \in A \X (Nat \ {0})
      OBVIOUS
    <3>3. QED
      BY <3>1, <3>2
  <2>2. R \in [1 .. n -> A \X (Nat \ {0})]
    BY <1>2, <2>1 DEF R
  <2>3. QED
    BY <1>1, <2>2
<1>8. \A i, j \in 1 .. n : i < j => R[i][1] + R[i][2] <= R[j][1]
  <2> TAKE i, j \in 1 .. n
  <2> HAVE i < j
  <2>1. PICK a \in S, b \in S, k \in Nat \ {0} :
          /\ a = R[i][1] /\ b = R[j][1] /\ k = R[i][2]
          /\ Cardinality(Below(S, a)) = i - 1 /\ Cardinality(Below(S, b)) = j - 1
          /\ Reach(A, S, a) = Span(a, k)
    <3>1. Ranked(i, R[i][1]) /\ R[i][2] = Cardinality(Reach(A, S, R[i][1]))
      BY <1>5
    <3>2. Ranked(j, R[j][1])
      BY <1>5
    <3>3. R[i][2] \in Nat \ {0} /\ Reach(A, S, R[i][1]) = Span(R[i][1], R[i][2])
      BY <3>1, <1>6
    <3>4. R[i][1] \in S /\ R[j][1] \in S /\ R[i][2] \in Nat \ {0}
      BY <3>1, <3>2, <3>3
    <3> USE <3>4
    <3> WITNESS R[i][1] \in S, R[j][1] \in S, R[i][2] \in Nat \ {0}
    <3>5. QED
      BY <3>1, <3>2, <3>3
  <2>2. a \in Nat /\ b \in Nat
    OBVIOUS
  <2>3. a < b
    <3>1. b < a => Cardinality(Below(S, b)) < Cardinality(Below(S, a))
      BY <1>1, Ranks
    <3>2. a # b /\ ~(j - 1 < i - 1)
      BY <1>1, <2>1
    <3>3. QED
      BY <2>1, <2>2, <3>1, <3>2
  <2>4. b \notin Reach(A, S, a)
    BY <2>2, <2>3 DEF Reach
  <2>5. b \notin a .. (a + k - 1)
    BY <2>1, <2>4 DEF Span
  <2>6. a + k <= b
    BY <2>2, <2>3, <2>5
  <2>7. QED
    BY <2>1, <2>6
<1>9. \A s \in S : \E i \in 1 .. n : R[i][1] = s
  <2> TAKE s \in S
  <2>1. Cardinality(Below(S, s)) \in 0 .. (n - 1)
    BY <1>1, Ranks
  <2>2. PICK i \in 1 .. n : i - 1 = Cardinality(Below(S, s))
    BY <1>1, <2>1
  <2>3. R[i][1] \in S /\ Cardinality(Below(S, R[i][1])) = Cardinality(Below(S, s))
    BY <1>5, <2>2
  <2>4. \A x, y \in S : x = y \/ x < y \/ y < x
    BY <1>1
  <2>5. \A x \in S : Cardinality(Below(S, x)) \in 0 .. (n - 1)
    BY <1>1, Ranks
  <2>6. \A x, y \in S : Cardinality(Below(S, x)) = Cardinality(Below(S, y)) => x = y
    <3>1. \A x, y \in S : x < y => Cardinality(Below(S, x)) < Cardinality(Below(S, y))
      BY <1>1, Ranks
    <3>2. QED
      BY <1>1, <2>4, <2>5, <3>1
  <2>7. QED
    BY <2>3, <2>6
<1>10. A \subseteq UNION {Reach(A, S, s) : s \in S}
  <2> SUFFICES ASSUME NEW b \in A
               PROVE  \E s \in S : b \in Reach(A, S, s)
    OBVIOUS
  <2> DEFINE T == {s \in S : s <= b /\ s .. b \subseteq A}
  <2>1. T # {} /\ T \in SUBSET Int /\ IsFiniteSet(T)
    <3>1. T \in SUBSET S /\ T # {}
      BY DEF Started
    <3>2. QED
      BY <1>1, <3>1, FS_Subset
  <2>2. PICK t \in T : \A x \in T : x <= t
    <3> HIDE DEF T
    <3>1. QED
      BY <2>1, Greatest
  <2>3. t \in S /\ t \in Nat /\ b \in Nat /\ t <= b /\ t .. b \subseteq A
    OBVIOUS
  <2>4. ASSUME NEW c \in (t + 1) .. b
        PROVE  c \in A \ S
    <3>1. c \in t .. b /\ c <= b /\ c \in Nat /\ ~(c <= t) /\ \A d \in c .. b : d \in t .. b
      BY <2>3, <2>4
    <3>2. c \in A /\ c .. b \subseteq A
      BY <2>3, <3>1
    <3>3. c \notin S
      BY <2>2, <3>1, <3>2
    <3>4. QED
      BY <3>2, <3>3
  <2>5. QED
    BY <2>3, <2>4 DEF Reach
<1>11. Covered(R) = A
  <2>1. DOMAIN R = 1 .. n
    BY <1>7
  <2>2. \A i \in 1 .. n : R[i][1] \in S /\ Span(R[i][1], R[i][2]) = Reach(A, S, R[i][1])
    BY <1>5, <1>6
  <2>3. Covered(R) = UNION {Reach(A, S, s) : s \in S}
    <3>1. Covered(R) = UNION {Reach(A, S, R[i][1]) : i \in 1 .. n}
      BY <2>1, <2>2 DEF Covered
    <3>2. \A i \in 1 .. n : R[i][1] \in S
      BY <2>2
    <3>3. QED
      BY <3>1, <3>2, <1>9
  <2>4. \A s \in S : Reach(A, S, s) \subseteq A
    BY DEF Reach
  <2>5. QED
    BY <1>10, <2>3, <2>4
<1>12. \A i \in 1 .. n : R[i][1] \in S
  BY <1>5
<1>13. QED
  BY <1>5, <1>7, <1>8, <1>9, <1>11, <1>12 DEF Exact, R

-----------------------------------------------------------------------------
(* Where the runs begin                                                    *)

BeginsRun(A, B, r, a) ==
  /\ r \in A /\ r <= a /\ Begins(A, B, r)
  /\ \A c \in (r + 1) .. a : c \in A /\ ~Begins(A, B, c)

\* The run of each address has one beginning.
LEMMA RunStartIs ==
  ASSUME NEW A \in SUBSET Nat, IsFiniteSet(A), NEW B, NEW a \in A
  PROVE  /\ BeginsRun(A, B, RunStart(A, B, a), a)
         /\ \A r : BeginsRun(A, B, r, a) => r = RunStart(A, B, a)
<1> DEFINE G == {x \in A : x <= a /\ x .. a \subseteq A}
           T == {x \in G : Begins(A, B, x)}
<1>1. a \in Nat /\ A \in SUBSET Int /\ \A x \in A : x \in Nat
  OBVIOUS
<1>2. G \in SUBSET A /\ T \in SUBSET G
  OBVIOUS
<1>3. IsFiniteSet(G) /\ IsFiniteSet(T) /\ G \in SUBSET Int /\ T \in SUBSET Int
  <2>1. IsFiniteSet(G)
    BY <1>2, FS_Subset
  <2>2. IsFiniteSet(T)
    BY <1>2, <2>1, FS_Subset
  <2>3. QED
    BY <1>1, <1>2, <2>1, <2>2
<1>4. a \in G
  BY <1>1
<1>5. PICK g \in G : \A x \in G : g <= x
  <2> HIDE DEF G
  <2>1. QED
    BY <1>3, <1>4, Least
<1>6. g \in T
  <2>1. g \in Nat /\ g <= a /\ g .. a \subseteq A
    BY <1>1
  <2>2. ASSUME g - 1 \in A
        PROVE  FALSE
    <3>1. g - 1 <= a /\ (g - 1) .. a = (g .. a) \cup {g - 1}
      BY <1>1, <2>1, <2>2
    <3>2. g - 1 \in G
      BY <2>1, <2>2, <3>1
    <3>3. QED
      BY <1>5, <2>1, <3>2
  <2>3. QED
    BY <2>2 DEF Begins
<1>7. PICK t \in T : \A x \in T : x <= t
  <2> HIDE DEF T
  <2>1. QED
    BY <1>3, <1>6, Greatest
<1>8. t \in Nat /\ t \in A /\ t <= a /\ t .. a \subseteq A /\ Begins(A, B, t)
  BY <1>1
<1>9. BeginsRun(A, B, t, a)
  <2>1. ASSUME NEW c \in (t + 1) .. a
        PROVE  c \in A /\ ~Begins(A, B, c)
    <3>1. c \in t .. a /\ c <= a /\ ~(c <= t) /\ \A d \in c .. a : d \in t .. a
      BY <1>1, <1>8, <2>1
    <3>2. c \in G
      BY <1>8, <3>1
    <3>3. QED
      BY <1>7, <3>1, <3>2
  <2>2. QED
    BY <1>8, <2>1 DEF BeginsRun
<1>10. ASSUME NEW r, NEW q, BeginsRun(A, B, r, a), BeginsRun(A, B, q, a)
       PROVE  r = q
  <2>1. r \in Nat /\ q \in Nat /\ r <= a /\ q <= a
    BY <1>1, <1>10 DEF BeginsRun
  <2>2. r < q => q \in (r + 1) .. a
    BY <1>1, <2>1
  <2>3. q < r => r \in (q + 1) .. a
    BY <1>1, <2>1
  <2>4. ~(r < q) /\ ~(q < r)
    BY <1>10, <2>2, <2>3 DEF BeginsRun
  <2>5. QED
    BY <2>1, <2>4
<1>11. BeginsRun(A, B, RunStart(A, B, a), a)
  <2>1. \E b \in A : BeginsRun(A, B, b, a)
    BY <1>8, <1>9
  <2>2. RunStart(A, B, a) = CHOOSE b \in A : BeginsRun(A, B, b, a)
    BY DEF RunStart, BeginsRun
  <2>3. QED
    BY <2>1, <2>2
<1>12. QED
  BY <1>10, <1>11

LEMMA BeginningsStart ==
  ASSUME NEW A \in SUBSET Nat, IsFiniteSet(A), NEW B, NEW size \in Nat \ {0},
         NEW a \in A, Begins(A, B, a)
  PROVE  a \in Starts(A, size, B)
<1>1. a \in Nat /\ (a + 1) .. a = {}
  OBVIOUS
<1>2. BeginsRun(A, B, a, a)
  BY <1>1 DEF BeginsRun
<1>3. RunStart(A, B, a) = a
  BY <1>2, RunStartIs
<1>4. (a - a) % size = 0
  <2>1. a - a = 0
    BY <1>1
  <2>2. 0 % size = 0
    OBVIOUS
  <2>3. QED
    BY <2>1, <2>2
<1>5. QED
  BY <1>3, <1>4 DEF Starts

LEMMA NextMultiple ==
  ASSUME NEW x \in Nat, NEW n \in Nat \ {0}
  PROVE  \E q \in 1 .. n : (x + q) % n = 0
<1> DEFINE k == x \div n
           r == x % n
<1>1. k \in Nat /\ r \in 0 .. (n - 1)
  OBVIOUS
<1>2. x = n * k + r
  OBVIOUS
<1> HIDE DEF k, r
<1>3. n - r \in 1 .. n
  BY <1>1
<1>4. x + (n - r) = n * k + n
  <2>1. n * k \in Nat
    BY <1>1
  <2>2. QED
    BY <1>1, <1>2, <2>1
<1>5. n * k + n = (k + 1) * n
  BY <1>1
<1>6. \A j \in Nat : (j * n) % n = 0
  OBVIOUS
<1>7. (x + (n - r)) % n = 0
  BY <1>1, <1>4, <1>5, <1>6
<1>8. QED
  BY <1>3, <1>7

\* Of size addresses after one in its run, one begins a request.
LEMMA StartWithin ==
  ASSUME NEW A \in SUBSET Nat, IsFiniteSet(A), NEW B, NEW size \in Nat \ {0}, NEW a \in A
  PROVE  ~((a + 1) .. (a + size) \subseteq A \ Starts(A, size, B))
<1> SUFFICES ASSUME (a + 1) .. (a + size) \subseteq A \ Starts(A, size, B)
             PROVE  FALSE
  OBVIOUS
<1> DEFINE r == RunStart(A, B, a)
<1>1. BeginsRun(A, B, r, a)
  BY RunStartIs
<1>2. a \in Nat /\ r \in Nat /\ r <= a
  BY <1>1 DEF BeginsRun
<1> HIDE DEF r
<1>3. PICK q \in 1 .. size : (a - r + q) % size = 0
  <2>1. a - r \in Nat
    BY <1>2
  <2>2. QED
    BY <2>1, NextMultiple
<1>4. a + q \in (a + 1) .. (a + size)
  BY <1>2
<1>5. a + q \in A /\ a + q \notin Starts(A, size, B)
  BY <1>4
<1>6. BeginsRun(A, B, r, a + q)
  <2>1. ASSUME NEW c \in (r + 1) .. (a + q)
        PROVE  c \in A /\ ~Begins(A, B, c)
    <3>1. CASE c <= a
      <4>1. c \in (r + 1) .. a
        BY <1>2, <2>1, <3>1
      <4>2. QED
        BY <1>1, <4>1 DEF BeginsRun
    <3>2. CASE ~(c <= a)
      <4>1. c \in (a + 1) .. (a + size)
        BY <1>2, <2>1, <3>2
      <4>2. c \in A /\ c \notin Starts(A, size, B)
        BY <4>1
      <4>3. QED
        BY <4>2, BeginningsStart
    <3>3. QED
      BY <3>1, <3>2
  <2>2. r <= a + q
    BY <1>2
  <2>3. QED
    BY <1>1, <2>1, <2>2 DEF BeginsRun
<1>7. RunStart(A, B, a + q) = r
  BY <1>5, <1>6, RunStartIs
<1>8. (a + q) - r = a - r + q
  BY <1>2
<1>9. QED
  BY <1>3, <1>5, <1>7, <1>8 DEF Starts

\* Requests that begin at least where group_reads begins one.
LEMMA GroupsAreSound ==
  ASSUME NEW A \in SUBSET Nat, IsFiniteSet(A), NEW B, NEW size \in Nat \ {0},
         NEW S \in SUBSET A, Starts(A, size, B) \subseteq S
  PROVE  /\ Exact(Reads(A, S), A)
         /\ Bounded(Reads(A, S), size)
         /\ \A s \in S : \E i \in 1 .. Len(Reads(A, S)) : Reads(A, S)[i][1] = s
         /\ \A i \in 1 .. Len(Reads(A, S)) :
              /\ Reads(A, S)[i][1] \in S
              /\ Reads(A, S)[i][2] = Cardinality(Reach(A, S, Reads(A, S)[i][1]))
<1>1. Started(A, S)
  <2> SUFFICES ASSUME NEW a \in A
               PROVE  \E s \in S : s <= a /\ s .. a \subseteq A
    BY DEF Started
  <2>1. PICK r : BeginsRun(A, B, r, a)
    BY RunStartIs
  <2>2. r \in S /\ r \in Nat /\ a \in Nat /\ r <= a
    BY <2>1, BeginningsStart DEF BeginsRun
  <2>3. \A c \in r .. a : c = r \/ c \in (r + 1) .. a
    BY <2>2
  <2>4. r .. a \subseteq A
    BY <2>1, <2>3 DEF BeginsRun
  <2>5. QED
    BY <2>2, <2>4
<1>2. \A a \in A : Cardinality(Reach(A, S, a)) <= size
  <2> SUFFICES ASSUME NEW a \in A, ~(Cardinality(Reach(A, S, a)) <= size)
               PROVE  FALSE
    OBVIOUS
  <2> DEFINE k == Cardinality(Reach(A, S, a))
  <2>1. k \in Nat /\ Reach(A, S, a) = a .. (a + k - 1)
    BY ReachIsSpan DEF Span
  <2>2. a \in Nat /\ a + size \in a .. (a + k - 1)
    BY <2>1
  <2>3. (a + 1) .. (a + size) \subseteq A \ S
    BY <2>1, <2>2 DEF Reach
  <2>4. QED
    BY <2>3, StartWithin
<1>3. QED
  <2>1. /\ Exact(Reads(A, S), A)
        /\ \A i \in 1 .. Len(Reads(A, S)) :
              /\ Reads(A, S)[i][1] \in S
              /\ Reads(A, S)[i][2] = Cardinality(Reach(A, S, Reads(A, S)[i][1]))
        /\ \A s \in S : \E i \in 1 .. Len(Reads(A, S)) : Reads(A, S)[i][1] = s
    BY <1>1, ReadsExact
  <2>2. Bounded(Reads(A, S), size)
    BY <1>2, <2>1 DEF Bounded
  <2>3. QED
    BY <2>1, <2>2

-----------------------------------------------------------------------------
(* Theorems                                                                *)

\* group_reads reads exactly the addresses it is given, in order and each once,
\* in requests of at most size registers, and begins one at each boundary.
THEOREM GroupReadsExact ==
  ASSUME NEW A \in SUBSET Nat, IsFiniteSet(A), NEW size \in Nat \ {0}, NEW B
  PROVE  /\ Exact(GroupReads(A, size, B), A)
         /\ Bounded(GroupReads(A, size, B), size)
         /\ \A b \in A \cap B : \E i \in 1 .. Len(GroupReads(A, size, B)) : GroupReads(A, size, B)[i][1] = b
<1>1. Starts(A, size, B) \in SUBSET A
  BY DEF Starts
<1>2. \A b \in A \cap B : b \in Starts(A, size, B)
  <2>1. \A b \in A \cap B : Begins(A, B, b)
    BY DEF Begins
  <2>2. QED
    BY <2>1, BeginningsStart
<1>3. QED
  BY <1>1, <1>2, GroupsAreSound DEF GroupReads

\* chunk_register_range reads its range, in requests of at most size registers,
\* or of one when the size is none.
THEOREM ChunkRangeExact ==
  ASSUME NEW first \in Nat, NEW count \in Nat, NEW size \in Int
  PROVE  /\ Exact(ChunkRange(first, count, size), Span(first, count))
         /\ Bounded(ChunkRange(first, count, size), IF size < 1 THEN 1 ELSE size)
<1> DEFINE n == IF size < 1 THEN 1 ELSE size
<1>1. n \in Nat \ {0}
  OBVIOUS
<1>2. Span(first, count) \in SUBSET Nat /\ IsFiniteSet(Span(first, count))
  BY FS_Interval DEF Span
<1> HIDE DEF n
<1>3. Exact(GroupReads(Span(first, count), n, {}), Span(first, count))
      /\ Bounded(GroupReads(Span(first, count), n, {}), n)
  BY <1>1, <1>2, GroupReadsExact
<1>4. QED
  BY <1>3 DEF ChunkRange, n

\* group_registers_for_batch_read reads exactly the addresses, in order and each
\* once, in requests of at most size registers, and a register that is known to
\* be missing in a request of its own.
THEOREM BatchPlanExact ==
  ASSUME NEW A \in SUBSET Nat, IsFiniteSet(A), NEW size \in Nat \ {0}, NEW B, NEW missing,
         NEW safe \in BOOLEAN
  PROVE  LET plan == BatchPlan(A, size, B, missing, safe)
         IN  /\ Exact(plan, A)
             /\ Bounded(plan, size)
             /\ \A a \in A \cap missing : \E i \in 1 .. Len(plan) : plan[i] = <<a, 1>>
<1> DEFINE S == IF safe THEN A ELSE SplitStarts(A, Starts(A, size, B), missing)
           plan == Reads(A, S)
<1>1. S \in SUBSET A /\ Starts(A, size, B) \subseteq S
  BY DEF SplitStarts, Starts
<1>2. \A a \in A \cap missing : a \in S /\ a + 1 \notin A \ S
  <2> TAKE a \in A \cap missing
  <2>1. a \in Nat /\ (a + 1) - 1 = a
    OBVIOUS
  <2>2. QED
    BY <2>1 DEF SplitStarts
<1> HIDE DEF S
<1>3. /\ Exact(plan, A)
      /\ Bounded(plan, size)
      /\ \A s \in S : \E i \in 1 .. Len(plan) : plan[i][1] = s
      /\ \A i \in 1 .. Len(plan) : plan[i][2] = Cardinality(Reach(A, S, plan[i][1]))
  <2>1. /\ Exact(Reads(A, S), A)
        /\ Bounded(Reads(A, S), size)
        /\ \A s \in S : \E i \in 1 .. Len(Reads(A, S)) : Reads(A, S)[i][1] = s
        /\ \A i \in 1 .. Len(Reads(A, S)) :
              /\ Reads(A, S)[i][1] \in S
              /\ Reads(A, S)[i][2] = Cardinality(Reach(A, S, Reads(A, S)[i][1]))
    BY <1>1, GroupsAreSound
  <2>2. QED
    BY <2>1
<1> HIDE DEF plan
<1>4. ASSUME NEW a \in A \cap missing
      PROVE  \E i \in 1 .. Len(plan) : plan[i] = <<a, 1>>
  <2>1. PICK i \in 1 .. Len(plan) : plan[i][1] = a
    BY <1>2, <1>3
  <2> DEFINE k == Cardinality(Reach(A, S, a))
  <2>2. k \in Nat \ {0} /\ Reach(A, S, a) = a .. (a + k - 1)
    BY ReachIsSpan DEF Span
  <2>3. a + 1 \notin Reach(A, S, a)
    <3>1. a \in Nat /\ a + 1 \in (a + 1) .. (a + 1)
      OBVIOUS
    <3>2. QED
      BY <1>2, <3>1 DEF Reach
  <2>4. k = 1
    <3>1. a \in Nat
      OBVIOUS
    <3> HIDE DEF k
    <3>2. QED
      BY <2>2, <2>3, <3>1
  <2>5. plan[i][2] = 1
    BY <1>3, <2>1, <2>4
  <2>6. plan[i] = <<plan[i][1], plan[i][2]>>
    <3>1. plan \in Seq(A \X (Nat \ {0}))
      BY <1>3 DEF Exact
    <3>2. plan[i] \in A \X (Nat \ {0})
      BY <2>1, <3>1
    <3>3. QED
      BY <3>2
  <2>7. QED
    BY <2>1, <2>5, <2>6
<1>5. plan = BatchPlan(A, size, B, missing, safe)
  BY DEF plan, S, BatchPlan
<1>6. QED
  BY <1>3, <1>4, <1>5

=============================================================================
